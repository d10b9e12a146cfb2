---------------------------- MODULE SystemProofs ----------------------------
(***************************************************************************)
(* Proofs about System: what the server and the Windows client take for    *)
(* granted of one another holds when they run together, over a network     *)
(* that loses, duplicates and reorders.  The invariants of Server come     *)
(* from ServerProofs.                                                      *)
(***************************************************************************)
EXTENDS System, TLAPS

P == INSTANCE ServerProofs

\* The assumptions of Server hold for the constants of System.
LEMMA ServerAssumed == P!ServerAssumption
  BY SystemAssumption DEF P!ServerAssumption

-----------------------------------------------------------------------------
(* S and P are the same module: what is proved of P holds of S.             *)

LEMMA SameThreadStep ==
    ASSUME NEW t \in S!Thread, S!ThreadStep(t)
    PROVE  t \in P!Thread /\ P!ThreadStep(t)
<1>1. t \in P!Thread
  BY DEF S!Thread, P!Thread
<1>2. S!Take(t) => P!Take(t)
  BY DEF S!Take, P!Take, S!At, P!At, S!Goto, P!Goto, S!tableVars, P!tableVars,
         S!outVars, P!outVars, S!countVars, P!countVars
<1>3. S!TakeFailed(t) => P!TakeFailed(t)
  BY DEF S!TakeFailed, P!TakeFailed, S!At, P!At, S!threadVars, P!threadVars, S!tableVars, P!tableVars,
         S!outVars, P!outVars, S!countVars, P!countVars
<1>4. S!Dispatch(t) => P!Dispatch(t)
  BY DEF S!Dispatch, P!Dispatch, S!At, P!At, S!Goto, P!Goto, S!CaseOf, P!CaseOf, S!portVars, P!portVars,
         S!tableVars, P!tableVars, S!outVars, P!outVars, S!countVars, P!countVars
<1>5. S!Lock(t) => P!Lock(t)
  BY DEF S!Lock, P!Lock, S!At, P!At, S!Goto, P!Goto, S!portVars, P!portVars,
         S!outVars, P!outVars, S!countVars, P!countVars
<1>6. S!PushSession(t) => P!PushSession(t)
  BY DEF S!PushSession, P!PushSession, S!At, P!At, S!Goto, P!Goto, S!NameIn, P!NameIn,
         S!portVars, P!portVars, S!outVars, P!outVars, S!countVars, P!countVars
<1>7. S!PushWelcome(t) => P!PushWelcome(t)
  BY DEF S!PushWelcome, P!PushWelcome, S!At, P!At, S!Goto, P!Goto, S!portVars, P!portVars,
         S!tableVars, P!tableVars, S!countVars, P!countVars
<1>8. S!Ack(t) => P!Ack(t)
  BY DEF S!Ack, P!Ack, S!At, P!At, S!Goto, P!Goto, S!Index, P!Index, S!Live, P!Live,
         S!portVars, P!portVars, S!outVars, P!outVars, S!countVars, P!countVars
<1>9. S!PushEcho(t) => P!PushEcho(t)
  BY DEF S!PushEcho, P!PushEcho, S!At, P!At, S!Goto, P!Goto, S!portVars, P!portVars,
         S!tableVars, P!tableVars, S!countVars, P!countVars
<1>10. S!Rearm(t) => P!Rearm(t)
  BY DEF S!Rearm, P!Rearm, S!At, P!At, S!Goto, P!Goto, S!tableVars, P!tableVars,
         S!outVars, P!outVars, S!countVars, P!countVars
<1>11. S!RearmFails(t) => P!RearmFails(t)
  BY DEF S!RearmFails, P!RearmFails, S!At, P!At, S!Goto, P!Goto, S!portVars, P!portVars,
         S!tableVars, P!tableVars, S!outVars, P!outVars
<1> QED
  BY <1>1, <1>2, <1>3, <1>4, <1>5, <1>6, <1>7, <1>8, <1>9, <1>10, <1>11 DEF S!ThreadStep, P!ThreadStep

LEMMA SameIncoming == S!Incoming = P!Incoming
  BY DEF S!Incoming, P!Incoming, S!GarbageId, P!GarbageId

LEMMA SameKernel == S!Kernel => P!Kernel
<1>1. ASSUME NEW d, S!InitImmediate(d) PROVE P!InitImmediate(d)
  BY <1>1 DEF S!InitImmediate, P!InitImmediate, S!threadVars, P!threadVars, S!tableVars, P!tableVars,
         S!outVars, P!outVars
<1>2. ASSUME NEW s, NEW d, S!Deliver(s, d) PROVE P!Deliver(s, d)
  BY <1>2 DEF S!Deliver, P!Deliver, S!threadVars, P!threadVars, S!tableVars, P!tableVars,
         S!outVars, P!outVars
<1>3. ASSUME NEW s, S!FailReceive(s) PROVE P!FailReceive(s)
  BY <1>3 DEF S!FailReceive, P!FailReceive, S!threadVars, P!threadVars, S!tableVars, P!tableVars,
         S!outVars, P!outVars
<1>4. S!Slot = P!Slot
  BY DEF S!Slot, P!Slot
<1> QED
  BY <1>1, <1>2, <1>3, <1>4, SameIncoming DEF S!Kernel, P!Kernel

LEMMA SameStep == [S!Next]_S!vars => [P!Next]_P!vars
<1>1. S!InitPending => P!InitPending
  BY DEF S!InitPending, P!InitPending, S!threadVars, P!threadVars, S!tableVars, P!tableVars,
         S!outVars, P!outVars, S!countVars, P!countVars
<1>2. S!SendOne => P!SendOne
  BY DEF S!SendOne, P!SendOne, S!Index, P!Index, S!Live, P!Live, S!portVars, P!portVars,
         S!threadVars, P!threadVars, S!tableVars, P!tableVars, S!countVars, P!countVars
<1>3. S!Restart => P!Restart
  BY DEF S!Restart, P!Restart, S!Slot, P!Slot, S!Thread, P!Thread, S!Blank, P!Blank
<1>4. S!vars = P!vars
  BY DEF S!vars, P!vars, S!portVars, P!portVars, S!threadVars, P!threadVars, S!tableVars, P!tableVars,
         S!outVars, P!outVars, S!countVars, P!countVars
<1>5. UNCHANGED S!vars => UNCHANGED P!vars
  BY DEF S!vars, P!vars, S!portVars, P!portVars, S!threadVars, P!threadVars, S!tableVars, P!tableVars,
         S!outVars, P!outVars, S!countVars, P!countVars
<1> QED
  BY <1>1, <1>2, <1>3, <1>5, SameThreadStep, SameKernel DEF S!Next, P!Next

LEMMA SameInit == S!Init => P!Init
  BY DEF S!Init, P!Init, S!Boot, P!Boot, S!Slot, P!Slot, S!Thread, P!Thread, S!Blank, P!Blank

LEMMA SameType == S!TypeOK <=> P!TypeOK
  BY DEF S!TypeOK, P!TypeOK, S!Slot, P!Slot, S!Thread, P!Thread, S!Completion, P!Completion,
         S!Datagram, P!Datagram, S!Kind, P!Kind, S!Loc, P!Loc, S!Session, P!Session, S!Reply, P!Reply

LEMMA ServerTypeInductive == S!TypeOK /\ [S!Next]_S!vars => S!TypeOK'
<1>1. S!TypeOK' <=> P!TypeOK'
  BY DEF S!TypeOK, P!TypeOK, S!Slot, P!Slot, S!Thread, P!Thread, S!Completion, P!Completion,
         S!Datagram, P!Datagram, S!Kind, P!Kind, S!Loc, P!Loc, S!Session, P!Session, S!Reply, P!Reply
<1> QED
  BY <1>1, SameType, SameStep, ServerAssumed, P!TypeInductive

LEMMA ServerInvariants == S!Spec => [](P!ProcessInv /\ P!GrantInv)
<1>1. S!Spec => P!Spec
  BY SameInit, SameStep, PTL DEF S!Spec, P!Spec
<1> QED
  BY <1>1, ServerAssumed, P!ProcessInvariant, P!GrantInvariant, PTL

-----------------------------------------------------------------------------
(* The invariants of the session and of the network.                       *)

\* What a packet and a message are made of, whatever the ids are.
AnyPacket == [kind: {"hello", "ack", "probe", "report"}, id: Int, seq: Nat]

AnyMessage == [type: {"welcome"}, id: Nat] \union [type: {"echo"}, seq: Nat] \union [type: {"other"}]

Try == [packet: AnyPacket, ok: BOOLEAN]

SessionType ==
    /\ c_id \in Nat \union {-1} /\ seq_num \in Nat
    /\ send_queue \in Seq(AnyPacket)
    /\ recv_buffer \in AnyMessage
    /\ tries \in Seq(Try)

SystemType ==
    /\ S!TypeOK
    /\ SessionType
    /\ toServer \subseteq {n \in 1 .. Len(tries) : tries[n].ok}
    /\ \A a \in toClient : a.message \in AnyMessage
    /\ seqOf \in Seq(Nat) /\ Len(seqOf) = arrivals

\* A datagram of the session in a buffer of the server is one it has sent.
FromTry(d) ==
    /\ d.tag \in 1 .. Len(seqOf)
    /\ \E n \in 1 .. Len(tries) :
         LET packet == tries[n].packet IN
         /\ tries[n].ok
         /\ d.kind = IF packet.kind = "report" THEN "other" ELSE packet.kind
         /\ packet.kind \in {"ack", "probe"} => d.id = packet.id
         /\ seqOf[d.tag] = packet.seq

OriginInv ==
    /\ \A s \in S!Slot : buf[s].addr = Me => FromTry(buf[s])
    /\ \A m \in 1 .. Len(sendq) : sendq[m].addr = Me => sendq[m].tag \in 1 .. Len(seqOf)

\* The id i has been granted to the session.
GrantedMe(i) == <<Me, i>> \in granted

\* Every id the session holds, or has put into a packet, was granted to it.
GrantedInv ==
    /\ c_id # -1 => GrantedMe(c_id)
    /\ delaying \/ recv_pc \in {"ack", "spawn"} => c_id # -1
    /\ \A k \in 1 .. Len(send_queue) :
         /\ send_queue[k].kind = "ack" => GrantedMe(send_queue[k].id)
         /\ send_queue[k].kind = "probe" => c_id # -1
    /\ \A n \in 1 .. Len(tries) : tries[n].packet.kind \in {"ack", "probe"} => GrantedMe(tries[n].packet.id)
    /\ recv_buffer.type = "welcome" => GrantedMe(recv_buffer.id)
    /\ \A a \in toClient : a.message.type = "welcome" => GrantedMe(a.message.id)

-----------------------------------------------------------------------------
(* The steps of the server.                                                *)

\* What a receive of the server leaves alone, and what it writes.
LEMMA ArrivesEffect ==
    ASSUME S!TypeOK, NEW d, Arrives(d)
    PROVE  /\ \E s \in S!Slot : buf' = [buf EXCEPT ![s] = d]
           /\ arrivals' = arrivals + 1
           /\ UNCHANGED <<sessions, sendq, granted, restarts>>
<1>1. ASSUME NEW s \in S!Slot, S!Deliver(s, d)
      PROVE  /\ buf' = [buf EXCEPT ![s] = d] /\ arrivals' = arrivals + 1
             /\ UNCHANGED <<sessions, sendq, granted, restarts>>
  BY <1>1 DEF S!Deliver, S!tableVars, S!outVars
<1>2. CASE S!InitImmediate(d)
  <2>1. /\ buf' = [buf EXCEPT ![started + 1] = d] /\ arrivals' = arrivals + 1
        /\ UNCHANGED <<sessions, sendq, granted, restarts>>
    BY <1>2 DEF S!InitImmediate, S!tableVars, S!outVars
  <2>2. started + 1 \in S!Slot
    BY <1>2, SystemAssumption DEF S!InitImmediate, S!TypeOK, S!Slot
  <2> QED
    BY <2>1, <2>2
<1> QED
  BY <1>1, <1>2 DEF Arrives

\* What thread t queues: the answer to the datagram in its buffer.
Queues(t) ==
    \/ S!PushWelcome(t)
    \/ S!PushEcho(t)

LEMMA QueuesEffect ==
    ASSUME NEW t, Queues(t)
    PROVE  \E reply : /\ sendq' = Append(sendq, reply)
                     /\ reply.addr = buf[slot[t]].addr /\ reply.tag = buf[slot[t]].tag
                     /\ \/ pc[t] = "welcome" /\ reply.kind = "welcome" /\ reply.id = id[t]
                        \/ pc[t] = "echo" /\ reply.kind = "echo"
<1>1. CASE S!PushWelcome(t)
  BY <1>1 DEF S!PushWelcome, S!At
<1>2. CASE S!PushEcho(t)
  BY <1>2 DEF S!PushEcho, S!At
<1> QED
  BY <1>1, <1>2 DEF Queues

\* The steps inside the server write no buffer; they queue answers.
LEMMA ServerActsEffect ==
    ASSUME ServerActs
    PROVE  /\ UNCHANGED <<clientVars, network, buf, arrivals, granted, restarts>>
           /\ UNCHANGED sendq \/ \E t \in S!Thread : Queues(t)
           /\ UNCHANGED sessions \/ \E t \in S!Thread : S!PushSession(t) \/ S!Ack(t)
<1>1. CASE S!InitPending \/ \E s \in S!Slot : S!FailReceive(s)
  BY <1>1 DEF ServerActs, S!InitPending, S!FailReceive, S!tableVars, S!outVars, S!countVars
<1>2. ASSUME NEW t \in S!Thread, S!ThreadStep(t)
      PROVE  /\ UNCHANGED <<buf, arrivals, granted, restarts>>
             /\ UNCHANGED sendq \/ Queues(t)
             /\ UNCHANGED sessions \/ S!PushSession(t) \/ S!Ack(t)
  BY <1>2 DEF S!ThreadStep, Queues, S!Take, S!TakeFailed, S!Dispatch, S!Lock, S!PushSession,
              S!PushWelcome, S!Ack, S!PushEcho, S!Rearm, S!RearmFails, S!portVars, S!tableVars,
              S!outVars, S!countVars
<1> QED
  BY <1>1, <1>2 DEF ServerActs

\* The head of send_queue is one of its elements, and so are those of the tail.
LEMMA ServerSendsEffect ==
    ASSUME S!TypeOK, S!SendOne
    PROVE  /\ Head(sendq) = sendq[1] /\ 1 \in 1 .. Len(sendq) /\ sendq[1] \in S!Reply
           /\ \A m \in 1 .. Len(sendq') : m + 1 \in 1 .. Len(sendq) /\ sendq'[m] = sendq[m + 1]
           /\ UNCHANGED <<buf, arrivals, sessions, restarts, early>>
           /\ granted \subseteq granted'
           /\ up' /\ sendq[1].kind = "welcome" => <<sendq[1].addr, sendq[1].id>> \in granted'
<1>1. sendq \in Seq(S!Reply) /\ sendq # <<>> /\ sendq' = Tail(sendq)
  BY DEF S!TypeOK, S!SendOne
<1>2. /\ Head(sendq) = sendq[1] /\ 1 \in 1 .. Len(sendq)
      /\ \A m \in 1 .. Len(sendq') : m + 1 \in 1 .. Len(sendq) /\ sendq'[m] = sendq[m + 1]
  BY <1>1, ServerAssumed, P!QueueElements
<1>3. UNCHANGED <<buf, arrivals, sessions, restarts, early>>
  BY DEF S!SendOne, S!portVars, S!tableVars, S!countVars
<1>4. sendq[1] \in S!Reply
  BY <1>1, <1>2
<1> QED
  BY <1>2, <1>3, <1>4 DEF S!SendOne

\* What the client sends is what Server lets arrive.
LEMMA SessionIncoming ==
    ASSUME SystemType, GrantedInv, NEW n \in 1 .. Len(tries)
    PROVE  DatagramOf(tries[n].packet) \in S!Incoming
<1> DEFINE packet == tries[n].packet
           d == DatagramOf(packet)
           g == <<Me, packet.id>>
<1>1. packet.kind \in {"hello", "ack", "probe", "report"}
  <2>1. tries[n] \in Try
    BY DEF SystemType, SessionType
  <2> QED
    BY <2>1 DEF Try, AnyPacket
<1>2. CASE packet.kind \in {"hello", "report"}
  <2>1. \E k \in {"hello", "other"} :
          d = [kind |-> k, addr |-> Me, id |-> S!GarbageId, tag |-> arrivals + 1]
    BY <1>2 DEF DatagramOf
  <2> HIDE DEF d
  <2>2. d \in {[kind |-> k, addr |-> a, id |-> S!GarbageId, tag |-> arrivals + 1] :
                k \in {"hello", "other"}, a \in Addr}
    BY <2>1, SystemAssumption
  <2>3. d \in S!Incoming
    BY <2>2 DEF S!Incoming
  <2> QED
    BY <2>3 DEF d
<1>3. CASE packet.kind \in {"ack", "probe"}
  <2> DEFINE Using(k, h) == [kind |-> k, addr |-> h[1], id |-> h[2], tag |-> arrivals + 1]
  <2>1. g \in granted
    BY <1>3 DEF GrantedInv, GrantedMe
  <2>2. d = Using(packet.kind, g)
    BY <1>3 DEF DatagramOf
  <2>3. {Using(k, h) : k \in {"ack", "probe"}, h \in granted} \subseteq S!Incoming
    BY DEF S!Incoming
  <2> HIDE DEF d, g, Using
  <2>4. d \in {Using(k, h) : k \in {"ack", "probe"}, h \in granted}
    BY <1>3, <2>1, <2>2
  <2>5. d \in S!Incoming
    BY <2>3, <2>4
  <2> QED
    BY <2>5 DEF d
<1> QED
  BY <1>1, <1>2, <1>3

\* A step of the system is a step of the server, or leaves it alone.
LEMMA ServerStep ==
    ASSUME SystemType, GrantedInv, [Next]_vars
    PROVE  [S!Next]_S!vars
<1>1. ASSUME NEW d \in S!Incoming, Arrives(d) PROVE S!Next
  BY <1>1 DEF Arrives, S!Next, S!Kernel
<1>2. ASSUME NEW n \in 1 .. Len(tries), Arrives(DatagramOf(tries[n].packet)) PROVE S!Next
  BY <1>1, <1>2, SessionIncoming
<1>3. toServer \subseteq 1 .. Len(tries)
  BY DEF SystemType
<1>4. ASSUME UNCHANGED serverVars PROVE UNCHANGED S!vars
  BY <1>4 DEF serverVars, S!vars, S!portVars, S!threadVars, S!tableVars, S!outVars, S!countVars
<1>5. ASSUME NEW n \in toServer, ServerReceives(n) PROVE S!Next
  BY <1>2, <1>3, <1>5 DEF ServerReceives
<1>6. CASE ServerReceivesOther
  BY <1>1, <1>6 DEF ServerReceivesOther
<1>7. CASE ServerActs
  BY <1>7 DEF ServerActs, S!Next, S!Kernel
<1>8. CASE ServerSends \/ ServerRestarts
  BY <1>8 DEF ServerSends, ServerRestarts, S!Next
<1>9. CASE Duplicate
  <2>1. CASE \E n \in toServer : Arrives(DatagramOf(tries[n].packet))
    BY <1>2, <1>3, <2>1
  <2>2. CASE UNCHANGED serverVars
    BY <1>4, <2>2
  <2> QED
    BY <1>9, <2>1, <2>2 DEF Duplicate
<1>10. ASSUME (\E ok \in BOOLEAN : ClientSends(ok)) \/ ClientActs
              \/ (\E a \in toClient : ClientReceives(a)) \/ Lose
       PROVE  UNCHANGED serverVars
  BY <1>10 DEF ClientSends, ClientActs, ClientReceives, Lose
<1>11. CASE UNCHANGED vars
  BY <1>4, <1>11 DEF vars
<1> QED
  BY <1>4, <1>5, <1>6, <1>7, <1>8, <1>9, <1>10, <1>11 DEF Next

-----------------------------------------------------------------------------
(* The steps of the session.                                               *)

LEMMA AckType == ASSUME NEW i \in Int PROVE C!Ack(i) \in AnyPacket
  BY DEF C!Ack, AnyPacket

LEMMA ReportType == ASSUME NEW i \in Int, NEW s \in Nat PROVE C!Report(i, s) \in AnyPacket
  BY DEF C!Report, AnyPacket

LEMMA ProbeType == C!Probe \in AnyPacket
  BY DEF C!Probe, AnyPacket

\* The packet of a job is the job, or a probe with the c_id of the moment.
LEMMA BuildEffect ==
    ASSUME SessionType, NEW job \in AnyPacket
    PROVE  /\ C!Build(job) \in AnyPacket
           /\ C!Build(job).kind = job.kind
           /\ job.kind # "probe" => C!Build(job) = job
           /\ job.kind = "probe" => C!Build(job).id = c_id
<1>1. CASE job.kind # "probe"
  BY <1>1 DEF C!Build
<1>2. CASE job.kind = "probe"
  <2>1. job = [kind |-> job.kind, id |-> job.id, seq |-> job.seq]
    BY DEF AnyPacket
  <2>2. C!Build(job) = [kind |-> "probe", id |-> c_id, seq |-> seq_num]
    BY <1>2, <2>1 DEF C!Build, AnyPacket
  <2>3. c_id \in Int /\ seq_num \in Nat
    BY DEF SessionType
  <2> QED
    BY <1>2, <2>2, <2>3 DEF AnyPacket
<1> QED
  BY <1>1, <1>2

\* What the send thread tries is the head of send_queue.
LEMMA SendEffect ==
    ASSUME SessionType, NEW ok \in BOOLEAN, C!SendOne(ok)
    PROVE  /\ send_queue # <<>> /\ send_queue' = Tail(send_queue)
           /\ \A k \in 1 .. Len(send_queue') : k + 1 \in 1 .. Len(send_queue) /\ send_queue'[k] = send_queue[k + 1]
           /\ 1 \in 1 .. Len(send_queue)
           /\ \E packet \in AnyPacket :
                 /\ tries' = Append(tries, [packet |-> packet, ok |-> ok])
                 /\ packet.kind = send_queue[1].kind
                 /\ packet.kind # "probe" => packet = send_queue[1]
                 /\ packet.kind = "probe" => packet.id = c_id
           /\ UNCHANGED <<c_id, delaying, alive, welcomed, recv_buffer, recv_len, recv_pc>>
<1>1. send_queue \in Seq(AnyPacket) /\ send_queue # <<>> /\ send_queue' = Tail(send_queue)
  BY DEF SessionType, C!SendOne
<1>2. /\ Head(send_queue) = send_queue[1] /\ 1 \in 1 .. Len(send_queue)
      /\ \A k \in 1 .. Len(send_queue') : k + 1 \in 1 .. Len(send_queue) /\ send_queue'[k] = send_queue[k + 1]
  BY <1>1, ServerAssumed, P!QueueElements
<1>3. send_queue[1] \in AnyPacket
  BY <1>1, <1>2
<1>4. tries' = Append(tries, [packet |-> C!Build(send_queue[1]), ok |-> ok])
  BY <1>2 DEF C!SendOne
<1>5. UNCHANGED <<c_id, delaying, alive, welcomed, recv_buffer, recv_len, recv_pc>>
  BY DEF C!SendOne, C!recvVars
<1> QED
  BY <1>1, <1>2, <1>3, <1>4, <1>5, BuildEffect

\* A step of the system moves the session by one of its steps, or not at all.
LEMMA SessionSteps ==
    ASSUME [Next]_vars
    PROVE  \/ UNCHANGED clientVars
           \/ \E ok \in BOOLEAN : C!SendOne(ok)
           \/ C!HandleNothing \/ C!HandleWelcome \/ C!PushAck \/ C!Spawn \/ C!HandleEcho
           \/ C!Tick \/ C!ReceiveFails
           \/ \E a \in toClient : C!Receive(a.message)
  BY DEF Next, vars, ClientSends, ClientActs, C!RecvThread, ServerReceives, ServerReceivesOther,
     ServerActs, ServerSends, ServerRestarts, ClientReceives, Lose, Duplicate

LEMMA SessionTypeInductive ==
    ASSUME SystemType, [Next]_vars
    PROVE  SessionType'
<1>0. SessionType
  BY DEF SystemType
<1>1. CASE UNCHANGED clientVars
  BY <1>0, <1>1 DEF clientVars, SessionType
<1>2. ASSUME NEW ok \in BOOLEAN, C!SendOne(ok) PROVE SessionType'
  <2>1. send_queue' \in Seq(AnyPacket)
    <3>1. send_queue \in Seq(AnyPacket) /\ send_queue # <<>> /\ send_queue' = Tail(send_queue)
      BY <1>0, <1>2, SendEffect DEF SessionType
    <3> QED
      BY <3>1
  <2>2. tries' \in Seq(Try)
    <3>1. PICK packet \in AnyPacket : tries' = Append(tries, [packet |-> packet, ok |-> ok])
      BY <1>0, <1>2, SendEffect
    <3>2. [packet |-> packet, ok |-> ok] \in Try /\ tries \in Seq(Try)
      BY <1>0 DEF SessionType, Try
    <3> QED
      BY <3>1, <3>2
  <2>3. seq_num' \in Nat
    BY <1>0, <1>2 DEF C!SendOne, SessionType
  <2> QED
    BY <1>0, <1>2, <2>1, <2>2, <2>3, SendEffect DEF SessionType
<1>3. CASE C!HandleNothing
  BY <1>0, <1>3 DEF C!HandleNothing, C!sessionVars, SessionType
<1>4. CASE C!HandleWelcome
  <2>1. c_id' \in Nat
    BY <1>0, <1>4 DEF C!HandleWelcome, SessionType, AnyMessage
  <2> QED
    BY <1>0, <1>4, <2>1 DEF C!HandleWelcome, SessionType
<1>5. CASE C!PushAck
  <2>1. send_queue' \in Seq(AnyPacket)
    BY <1>0, <1>5, AckType DEF C!PushAck, SessionType
  <2> QED
    BY <1>0, <1>5, <2>1 DEF C!PushAck, C!sessionVars, SessionType
<1>6. CASE C!Spawn
  BY <1>0, <1>6 DEF C!Spawn, SessionType
<1>7. CASE C!HandleEcho
  <2>1. recv_buffer.seq \in Nat
    BY <1>0, <1>7 DEF C!HandleEcho, SessionType, AnyMessage
  <2>2. send_queue' \in Seq(AnyPacket)
    BY <1>0, <1>7, <2>1, ReportType DEF C!HandleEcho, SessionType
  <2> QED
    BY <1>0, <1>7, <2>2 DEF C!HandleEcho, C!sessionVars, SessionType
<1>8. CASE C!Tick
  <2>1. send_queue' \in Seq(AnyPacket)
    BY <1>0, <1>8, ProbeType DEF C!Tick, SessionType
  <2> QED
    BY <1>0, <1>8, <2>1 DEF C!Tick, C!sessionVars, C!recvVars, SessionType
<1>9. CASE C!ReceiveFails
  BY <1>0, <1>9 DEF C!ReceiveFails, C!sessionVars, SessionType
<1>10. ASSUME NEW a \in toClient, C!Receive(a.message) PROVE SessionType'
  BY <1>0, <1>10 DEF C!Receive, C!sessionVars, SessionType, SystemType
<1> QED
  BY <1>1, <1>2, <1>3, <1>4, <1>5, <1>6, <1>7, <1>8, <1>9, <1>10, SessionSteps

\* The tries of the session are never changed.
LEMMA TriesGrow ==
    ASSUME SystemType, [Next]_vars
    PROVE  /\ Len(tries) \in Nat /\ Len(tries') \in Nat /\ Len(tries) <= Len(tries')
           /\ \A n \in 1 .. Len(tries) : n \in 1 .. Len(tries') /\ tries'[n] = tries[n]
<1>1. tries \in Seq(Try)
  BY DEF SystemType, SessionType
<1>2. ASSUME NEW ok \in BOOLEAN, C!SendOne(ok) PROVE \E e \in Try : tries' = Append(tries, e)
  BY <1>2, SendEffect DEF SystemType, Try
<1>3. ASSUME ~ \E ok \in BOOLEAN : C!SendOne(ok) PROVE tries' = tries
  BY <1>3, SessionSteps DEF clientVars, C!HandleNothing, C!HandleWelcome, C!PushAck, C!Spawn,
     C!HandleEcho, C!Tick, C!ReceiveFails, C!Receive
<1>4. CASE tries' = tries
  BY <1>1, <1>4
<1>5. ASSUME NEW e \in Try, tries' = Append(tries, e)
      PROVE  /\ Len(tries) \in Nat /\ Len(tries') \in Nat /\ Len(tries) <= Len(tries')
             /\ \A n \in 1 .. Len(tries) : n \in 1 .. Len(tries') /\ tries'[n] = tries[n]
  BY <1>1, <1>5
<1>6. CASE ~ \E ok \in BOOLEAN : C!SendOne(ok)
  BY <1>3, <1>4, <1>6
<1> QED
  BY <1>2, <1>5, <1>6

-----------------------------------------------------------------------------
(* The ids of the session.                                                 *)

LEMMA GrantsGrow ==
    ASSUME SystemType, GrantedInv, [Next]_vars
    PROVE  granted \subseteq granted'
<1>1. P!TypeOK /\ [P!Next]_P!vars
  BY ServerStep, SameStep, SameType DEF SystemType
<1> QED
  BY <1>1, ServerAssumed, P!GrantedGrows

\* The datagrams under way to the session: SendOne adds one, nothing else does.
LEMMA ToClientGrows ==
    ASSUME SystemType, [Next]_vars, NEW a \in toClient', a \notin toClient
    PROVE  /\ S!SendOne /\ up' /\ sendq[1].addr = Me /\ UNCHANGED <<clientVars, toServer, seqOf>>
           /\ a = [tag |-> sendq[1].tag, message |-> MessageOf(sendq[1])]
<1>1. CASE ServerSends
  BY <1>1, ServerSendsEffect DEF ServerSends, SystemType
<1>2. CASE ~ServerSends
  BY <1>2 DEF Next, vars, network, ClientSends, ClientActs, ServerReceives, ServerReceivesOther,
     ServerActs, ServerRestarts, ClientReceives, Lose, Duplicate
<1> QED
  BY <1>1, <1>2

\* What is written into toClient is the answer to a datagram of the session.
LEMMA MessageType ==
    ASSUME SystemType, NEW reply \in S!Reply, reply.tag \in 1 .. Len(seqOf)
    PROVE  /\ MessageOf(reply) \in AnyMessage
           /\ MessageOf(reply).type = "welcome" => reply.kind = "welcome" /\ MessageOf(reply).id = reply.id
  BY DEF SystemType, MessageOf, AnyMessage, S!Reply

LEMMA GrantedInductive ==
    ASSUME SystemType, OriginInv, GrantedInv, [Next]_vars
    PROVE  GrantedInv'
<1> USE DEF GrantedInv, GrantedMe
<1>0. granted \subseteq granted' /\ SessionType
  BY GrantsGrow DEF SystemType
<1>1. \A a \in toClient' : a.message.type = "welcome" => GrantedMe(a.message.id)'
  <2>1. ASSUME NEW a \in toClient', a \notin toClient, a.message.type = "welcome"
        PROVE  GrantedMe(a.message.id)'
    <3>1. /\ S!SendOne /\ up' /\ sendq[1].addr = Me
          /\ a.message = MessageOf(sendq[1])
      BY <2>1, ToClientGrows
    <3>2. /\ 1 \in 1 .. Len(sendq) /\ sendq[1] \in S!Reply
          /\ sendq[1].kind = "welcome" => <<Me, sendq[1].id>> \in granted'
      BY <3>1, ServerSendsEffect DEF SystemType
    <3>3. sendq[1].kind = "welcome" /\ a.message.id = sendq[1].id
      BY <2>1, <3>1, <3>2, MessageType DEF OriginInv
    <3> QED
      BY <3>2, <3>3 DEF GrantedMe
  <2> QED
    BY <1>0, <2>1
<1> DEFINE IdGranted == c_id # -1 => GrantedMe(c_id)
           RecvGranted == recv_buffer.type = "welcome" => GrantedMe(recv_buffer.id)
           IdKnown == delaying \/ recv_pc \in {"ack", "spawn"} => c_id # -1
           QueueGranted ==
             \A k \in 1 .. Len(send_queue) :
                /\ send_queue[k].kind = "ack" => GrantedMe(send_queue[k].id)
                /\ send_queue[k].kind = "probe" => c_id # -1
           TriesGranted ==
             \A n \in 1 .. Len(tries) :
                tries[n].packet.kind \in {"ack", "probe"} => GrantedMe(tries[n].packet.id)
           All == IdGranted /\ RecvGranted /\ IdKnown /\ QueueGranted /\ TriesGranted
<1> SUFFICES All'
  BY <1>1
<1>2. /\ UNCHANGED c_id => IdGranted'
      /\ UNCHANGED recv_buffer => RecvGranted'
      /\ UNCHANGED <<c_id, send_queue>> => QueueGranted'
      /\ UNCHANGED tries => TriesGranted'
  BY <1>0
<1>3. UNCHANGED <<c_id, delaying>> /\ recv_pc' \notin {"ack", "spawn"} => IdKnown'
  OBVIOUS
<1>4. ASSUME NEW e \in AnyPacket, send_queue' = Append(send_queue, e), UNCHANGED c_id,
             e.kind = "ack" => GrantedMe(e.id), e.kind = "probe" => c_id # -1
      PROVE  QueueGranted'
  <2>1. send_queue \in Seq(AnyPacket)
    BY <1>0 DEF SessionType
  <2>2. ASSUME NEW k \in 1 .. Len(send_queue')
        PROVE  send_queue'[k] = e \/ (k \in 1 .. Len(send_queue) /\ send_queue'[k] = send_queue[k])
    BY <1>4, <2>1, <2>2
  <2> QED
    BY <1>0, <1>4, <2>2
<1>5. ASSUME NEW ok \in BOOLEAN, C!SendOne(ok) PROVE All'
  <2>1. UNCHANGED <<c_id, delaying, recv_buffer, recv_pc>>
    BY <1>0, <1>5, SendEffect
  <2>2. QueueGranted'
    BY <1>0, <1>5, SendEffect
  <2>3. PICK packet \in AnyPacket :
          /\ tries' = Append(tries, [packet |-> packet, ok |-> ok])
          /\ packet.kind = send_queue[1].kind
          /\ packet.kind # "probe" => packet = send_queue[1]
          /\ packet.kind = "probe" => packet.id = c_id
    BY <1>0, <1>5, SendEffect
  <2>4. packet.kind \in {"ack", "probe"} => <<Me, packet.id>> \in granted'
    BY <1>0, <1>5, <2>3, SendEffect
  <2>5. ASSUME NEW n \in 1 .. Len(tries')
        PROVE  tries'[n].packet = packet \/ (n \in 1 .. Len(tries) /\ tries'[n] = tries[n])
    BY <1>0, <2>3, <2>5 DEF SessionType
  <2>6. TriesGranted'
    BY <1>0, <2>4, <2>5
  <2>7. IdKnown'
    BY <2>1
  <2> QED
    BY <1>2, <2>1, <2>2, <2>6, <2>7
<1>6. CASE UNCHANGED clientVars
  <2>1. UNCHANGED <<c_id, delaying, recv_buffer, recv_pc, send_queue, tries>>
    BY <1>6 DEF clientVars
  <2>2. IdKnown'
    BY <2>1
  <2> QED
    BY <1>2, <2>1, <2>2
<1>7. CASE C!HandleNothing \/ C!ReceiveFails \/ \E a \in toClient : C!Receive(a.message)
  <2>1. UNCHANGED <<c_id, delaying, send_queue, tries>> /\ recv_pc' \in {"handle", "recvfrom"}
    BY <1>7 DEF C!HandleNothing, C!ReceiveFails, C!Receive, C!sessionVars
  <2>2. RecvGranted'
    BY <1>0, <1>7 DEF C!HandleNothing, C!ReceiveFails, C!Receive
  <2> QED
    BY <1>2, <1>3, <2>1, <2>2
<1>8. CASE C!HandleWelcome
  <2>1. /\ c_id' = recv_buffer.id /\ c_id' \in Nat /\ recv_buffer.type = "welcome"
        /\ UNCHANGED <<send_queue, tries, recv_buffer>>
    BY <1>0, <1>8 DEF C!HandleWelcome, SessionType, AnyMessage
  <2>2. c_id' # -1
    BY <2>1
  <2>3. IdGranted' /\ QueueGranted'
    BY <1>0, <2>1
  <2> QED
    BY <1>2, <2>1, <2>2, <2>3
<1>9. CASE C!PushAck
  <2>1. /\ recv_pc = "ack" /\ send_queue' = Append(send_queue, C!Ack(c_id))
        /\ UNCHANGED <<c_id, delaying, recv_buffer, tries>>
    BY <1>9 DEF C!PushAck, C!sessionVars
  <2>2. c_id # -1 /\ GrantedMe(c_id)
    BY <2>1
  <2>3. C!Ack(c_id) \in AnyPacket /\ C!Ack(c_id).kind = "ack" /\ C!Ack(c_id).id = c_id
    BY <1>0, AckType DEF C!Ack, SessionType
  <2>4. QueueGranted'
    BY <1>4, <2>1, <2>2, <2>3
  <2>5. IdKnown'
    BY <2>1, <2>2
  <2> QED
    BY <1>2, <2>1, <2>4, <2>5
<1>10. CASE C!Spawn
  <2>1. recv_pc = "spawn" /\ UNCHANGED <<c_id, recv_buffer, send_queue, tries>>
    BY <1>10 DEF C!Spawn
  <2>2. IdKnown'
    BY <2>1
  <2> QED
    BY <1>2, <2>1, <2>2
<1>11. CASE C!HandleEcho
  <2>1. /\ recv_buffer.seq \in Nat
        /\ send_queue' = Append(send_queue, C!Report(c_id, recv_buffer.seq)) /\ recv_pc' = "recvfrom"
        /\ UNCHANGED <<c_id, delaying, recv_buffer, tries>>
    BY <1>0, <1>11 DEF C!HandleEcho, SessionType, AnyMessage, C!sessionVars
  <2>2. C!Report(c_id, recv_buffer.seq) \in AnyPacket /\ C!Report(c_id, recv_buffer.seq).kind = "report"
    BY <1>0, <2>1, ReportType DEF C!Report, SessionType
  <2>3. QueueGranted'
    BY <1>4, <2>1, <2>2
  <2> QED
    BY <1>2, <1>3, <2>1, <2>3
<1>12. CASE C!Tick
  <2>1. /\ delaying /\ send_queue' = Append(send_queue, C!Probe)
        /\ UNCHANGED <<c_id, delaying, recv_buffer, recv_pc, tries>>
    BY <1>12 DEF C!Tick, C!sessionVars, C!recvVars
  <2>2. C!Probe \in AnyPacket /\ C!Probe.kind = "probe"
    BY ProbeType DEF C!Probe
  <2>3. QueueGranted'
    BY <1>4, <2>1, <2>2
  <2>4. IdKnown'
    BY <2>1
  <2> QED
    BY <1>2, <2>1, <2>3, <2>4
<1> QED
  BY <1>5, <1>6, <1>7, <1>8, <1>9, <1>10, <1>11, <1>12, SessionSteps

-----------------------------------------------------------------------------
(* Where the datagrams in the server come from.                            *)

\* The datagram of the n-th try reaches the server.
Reaches(n) ==
    /\ Arrives(DatagramOf(tries[n].packet))
    /\ seqOf' = Append(seqOf, tries[n].packet.seq)
    /\ UNCHANGED clientVars

\* A datagram of another address reaches the server.
OtherReaches(d) ==
    /\ d \in S!Incoming /\ d.addr # Me /\ Arrives(d)
    /\ seqOf' = Append(seqOf, 0)
    /\ UNCHANGED clientVars

\* The server runs on, is restarted, or stands still.
NoArrival == ServerActs \/ S!SendOne \/ S!Restart \/ UNCHANGED serverVars

LEMMA ServerSteps ==
    ASSUME SystemType, [Next]_vars
    PROVE  \/ \E n \in toServer : Reaches(n)
           \/ \E d : OtherReaches(d)
           \/ NoArrival /\ UNCHANGED seqOf
<1>1. CASE Duplicate
  BY <1>1 DEF Duplicate, Reaches, NoArrival
<1>2. CASE ServerReceivesOther
  BY <1>2 DEF ServerReceivesOther, OtherReaches
<1>3. ASSUME NEW n \in toServer, ServerReceives(n) PROVE Reaches(n)
  BY <1>3 DEF ServerReceives, Reaches
<1>4. CASE ~Duplicate /\ ~ServerReceivesOther /\ ~ \E n \in toServer : ServerReceives(n)
  BY <1>4 DEF Next, vars, network, NoArrival, ClientSends, ClientActs, ServerActs, ServerSends,
     ServerRestarts, ClientReceives, Lose
<1> QED
  BY <1>1, <1>2, <1>3, <1>4

\* The parts of SystemType that belong to the network.
LEMMA SeqOfGrows ==
    ASSUME SystemType, [Next]_vars
    PROVE  /\ seqOf' \in Seq(Nat) /\ Len(seqOf') = arrivals'
           /\ \A k \in 1 .. Len(seqOf) : k \in 1 .. Len(seqOf') /\ seqOf'[k] = seqOf[k]
<1>0. /\ S!TypeOK /\ seqOf \in Seq(Nat) /\ Len(seqOf) = arrivals
      /\ toServer \subseteq 1 .. Len(tries)
  BY DEF SystemType
<1>1. ASSUME NEW d, Arrives(d), NEW v \in Nat, seqOf' = Append(seqOf, v)
      PROVE  /\ seqOf' \in Seq(Nat) /\ Len(seqOf') = arrivals'
             /\ \A k \in 1 .. Len(seqOf) : k \in 1 .. Len(seqOf') /\ seqOf'[k] = seqOf[k]
  <2>1. arrivals' = arrivals + 1
    BY <1>0, <1>1, ArrivesEffect
  <2> QED
    BY <1>0, <1>1, <2>1
<1>2. ASSUME NEW n \in toServer, Reaches(n) PROVE tries[n].packet.seq \in Nat
  <2>1. tries[n] \in Try
    BY <1>0 DEF SystemType, SessionType
  <2> QED
    BY <2>1 DEF Try, AnyPacket
<1>3. CASE NoArrival /\ UNCHANGED seqOf
  <2>1. UNCHANGED arrivals
    BY <1>0, <1>3, ServerActsEffect, ServerSendsEffect DEF NoArrival, serverVars, S!Restart
  <2> QED
    BY <1>0, <1>3, <2>1
<1> QED
  BY <1>1, <1>2, <1>3, ServerSteps DEF Reaches, OtherReaches

LEMMA FromTryStays ==
    ASSUME SystemType, [Next]_vars
    PROVE  \A d : FromTry(d) => FromTry(d)'
<1> SUFFICES ASSUME NEW d, FromTry(d) PROVE FromTry(d)'
  OBVIOUS
<1>1. d.tag \in 1 .. Len(seqOf') /\ seqOf'[d.tag] = seqOf[d.tag]
  BY SeqOfGrows DEF FromTry
<1>2. \A n \in 1 .. Len(tries) : n \in 1 .. Len(tries') /\ tries'[n] = tries[n]
  BY TriesGrow
<1> QED
  BY <1>1, <1>2 DEF FromTry

\* A datagram that reaches the server from the session is one of its tries.
LEMMA ReachesFromTry ==
    ASSUME SystemType, NEW n \in toServer, Reaches(n)
    PROVE  \A d : d = DatagramOf(tries[n].packet) => FromTry(d)'
<1> SUFFICES ASSUME NEW d, d = DatagramOf(tries[n].packet) PROVE FromTry(d)'
  OBVIOUS
<1> DEFINE packet == tries[n].packet
<1>1. n \in 1 .. Len(tries') /\ tries[n].ok /\ tries' = tries
  BY DEF SystemType, Reaches, clientVars
<1>2. seqOf' = Append(seqOf, packet.seq) /\ seqOf \in Seq(Nat) /\ Len(seqOf) = arrivals
  BY DEF SystemType, Reaches
<1>3. arrivals + 1 \in 1 .. Len(seqOf') /\ seqOf'[arrivals + 1] = packet.seq
  BY <1>2
<1>4. /\ d.tag = arrivals + 1
      /\ d.kind = IF packet.kind = "report" THEN "other" ELSE packet.kind
      /\ packet.kind \in {"ack", "probe"} => d.id = packet.id
  BY DEF DatagramOf
<1>5. d.tag \in 1 .. Len(seqOf') /\ seqOf'[d.tag] = packet.seq
  BY <1>3, <1>4
<1> QED
  BY <1>1, <1>4, <1>5 DEF FromTry

LEMMA OriginInductive ==
    ASSUME SystemType, OriginInv, [Next]_vars
    PROVE  OriginInv'
<1>0. /\ buf \in [S!Slot -> S!Datagram] /\ sendq \in Seq(S!Reply) /\ slot \in [S!Thread -> S!Slot]
      /\ S!TypeOK
  BY DEF SystemType, S!TypeOK
<1>1. \A d : FromTry(d) => FromTry(d)'
  BY FromTryStays
<1> SUFFICES /\ \A s \in S!Slot : \A d : d = buf'[s] /\ d.addr = Me => FromTry(d)'
             /\ \A m \in 1 .. Len(sendq') : sendq'[m].addr = Me => sendq'[m].tag \in 1 .. Len(seqOf')
  BY DEF OriginInv, FromTry
<1>2. ASSUME UNCHANGED buf
      PROVE  \A s \in S!Slot : \A d : d = buf'[s] /\ d.addr = Me => FromTry(d)'
  BY <1>1, <1>2 DEF OriginInv
<1>3. ASSUME UNCHANGED sendq
      PROVE  \A m \in 1 .. Len(sendq') : sendq'[m].addr = Me => sendq'[m].tag \in 1 .. Len(seqOf')
  BY <1>3, SeqOfGrows DEF OriginInv
<1>4. ASSUME NEW e, Arrives(e), e.addr = Me => FromTry(e)'
      PROVE  /\ \A s \in S!Slot : \A d : d = buf'[s] /\ d.addr = Me => FromTry(d)'
             /\ UNCHANGED sendq
  <2>1. PICK s \in S!Slot : buf' = [buf EXCEPT ![s] = e]
    BY <1>0, <1>4, ArrivesEffect
  <2>2. \A r \in S!Slot : buf'[r] = IF r = s THEN e ELSE buf[r]
    BY <1>0, <2>1
  <2>3. UNCHANGED sendq
    BY <1>0, <1>4, ArrivesEffect
  <2> QED
    BY <1>1, <1>4, <2>2, <2>3 DEF OriginInv
<1>5. ASSUME NEW n \in toServer, Reaches(n)
      PROVE  /\ \A s \in S!Slot : \A d : d = buf'[s] /\ d.addr = Me => FromTry(d)'
             /\ UNCHANGED sendq
  <2>1. \A d : d = DatagramOf(tries[n].packet) => FromTry(d)' /\ Arrives(d)
    BY <1>5, ReachesFromTry DEF Reaches
  <2> QED
    BY <1>4, <2>1
<1>6. ASSUME NEW e, OtherReaches(e)
      PROVE  /\ \A s \in S!Slot : \A d : d = buf'[s] /\ d.addr = Me => FromTry(d)'
             /\ UNCHANGED sendq
  BY <1>4, <1>6 DEF OtherReaches
<1>7. CASE ServerActs
  <2>1. UNCHANGED buf
    BY <1>7, ServerActsEffect
  <2>2. ASSUME NEW t \in S!Thread, Queues(t)
        PROVE  \A m \in 1 .. Len(sendq') : sendq'[m].addr = Me => sendq'[m].tag \in 1 .. Len(seqOf')
    <3>1. PICK reply : /\ sendq' = Append(sendq, reply)
                       /\ reply.addr = buf[slot[t]].addr /\ reply.tag = buf[slot[t]].tag
      BY <2>2, QueuesEffect
    <3>2. reply.addr = Me => reply.tag \in 1 .. Len(seqOf')
      <4>1. slot[t] \in S!Slot
        BY <1>0
      <4>2. buf[slot[t]].addr = Me => buf[slot[t]].tag \in 1 .. Len(seqOf)
        BY <4>1 DEF OriginInv, FromTry
      <4>3. \A k \in 1 .. Len(seqOf) : k \in 1 .. Len(seqOf')
        BY SeqOfGrows
      <4> QED
        BY <3>1, <4>2, <4>3
    <3>3. ASSUME NEW m \in 1 .. Len(sendq')
          PROVE  sendq'[m] = reply \/ (m \in 1 .. Len(sendq) /\ sendq'[m] = sendq[m])
      BY <1>0, <3>1, <3>3
    <3> QED
      BY <3>2, <3>3, SeqOfGrows DEF OriginInv
  <2> QED
    BY <1>2, <1>3, <1>7, <2>1, <2>2, ServerActsEffect
<1>8. CASE S!SendOne
  <2>1. /\ UNCHANGED buf
        /\ \A m \in 1 .. Len(sendq') : m + 1 \in 1 .. Len(sendq) /\ sendq'[m] = sendq[m + 1]
    BY <1>0, <1>8, ServerSendsEffect
  <2>2. \A m \in 1 .. Len(sendq') : sendq'[m].addr = Me => sendq'[m].tag \in 1 .. Len(seqOf')
    BY <2>1, SeqOfGrows DEF OriginInv
  <2> QED
    BY <1>2, <2>1, <2>2
<1>9. CASE S!Restart
  <2>1. sendq' = <<>> /\ \A s \in S!Slot : buf'[s].addr # Me
    BY <1>9, SystemAssumption DEF S!Restart, S!Blank
  <2> QED
    BY <2>1
<1>10. CASE UNCHANGED serverVars
  BY <1>2, <1>3, <1>10 DEF serverVars
<1> QED
  BY <1>3, <1>5, <1>6, <1>7, <1>8, <1>9, <1>10, ServerSteps DEF NoArrival

-----------------------------------------------------------------------------
(* Every run of the system is a run of the server.                         *)

Inv == SystemType /\ OriginInv /\ GrantedInv

\* The memory of recv_buffer, before the first datagram, holds no packet 1.
NoJunkWelcome == \A m \in Junk : m.type # "welcome"

LEMMA SystemTypeInductive ==
    ASSUME Inv, [Next]_vars
    PROVE  SystemType'
<1> USE DEF Inv
<1>1. S!TypeOK'
  BY ServerStep, ServerTypeInductive DEF SystemType
<1>2. ASSUME NEW n \in toServer' PROVE n \in 1 .. Len(tries') /\ tries'[n].ok
  <2>1. CASE n \in toServer
    BY <2>1, TriesGrow DEF SystemType
  <2>2. CASE n \notin toServer
    <3>1. ClientSends(TRUE) /\ n = Len(tries) + 1
      BY <1>2, <2>2 DEF Next, vars, network, ClientSends, ClientActs, ServerReceives,
         ServerReceivesOther, ServerActs, ServerSends, ServerRestarts, ClientReceives, Lose, Duplicate
    <3>2. PICK packet \in AnyPacket : tries' = Append(tries, [packet |-> packet, ok |-> TRUE])
      BY <3>1, SendEffect DEF ClientSends, SystemType
    <3>3. tries \in Seq(Try)
      BY DEF SystemType, SessionType
    <3> QED
      BY <3>1, <3>2, <3>3
  <2> QED
    BY <2>1, <2>2
<1>3. ASSUME NEW a \in toClient' PROVE a.message \in AnyMessage
  <2>1. CASE a \in toClient
    BY <2>1 DEF SystemType
  <2>2. CASE a \notin toClient
    <3>1. S!SendOne /\ sendq[1].addr = Me /\ a.message = MessageOf(sendq[1])
      BY <1>3, <2>2, ToClientGrows
    <3>2. 1 \in 1 .. Len(sendq) /\ sendq[1] \in S!Reply
      BY <3>1, ServerSendsEffect DEF SystemType
    <3> QED
      BY <3>1, <3>2, MessageType DEF OriginInv
  <2> QED
    BY <2>1, <2>2
<1> QED
  BY <1>1, <1>2, <1>3, SessionTypeInductive, SeqOfGrows DEF SystemType

LEMMA InvInductive == Inv /\ [Next]_vars => Inv'
  BY SystemTypeInductive, OriginInductive, GrantedInductive DEF Inv

LEMMA InitInv ==
    ASSUME NoJunkWelcome, Init
    PROVE  Inv
<1>1. S!TypeOK
  BY SameInit, SameType, ServerAssumed, P!TypeInit DEF Init
<1>2. SessionType
  <2>1. C!Hello \in AnyPacket
    BY DEF C!Hello, AnyPacket
  <2>2. recv_buffer \in AnyMessage
    BY JunkAssumption DEF Init, C!Init, C!Message, AnyMessage
  <2>3. send_queue \in Seq(AnyPacket) /\ tries \in Seq(Try) /\ seq_num \in Nat /\ c_id = -1
    BY <2>1 DEF Init, C!Init
  <2> QED
    BY <2>2, <2>3 DEF SessionType
<1>3. SystemType
  BY <1>1, <1>2 DEF Init, S!Init, SystemType
<1>4. OriginInv
  <2>1. sendq = <<>> /\ \A s \in S!Slot : buf[s].addr # Me
    BY SystemAssumption DEF Init, S!Init, S!Boot, S!Blank
  <2> QED
    BY <2>1 DEF OriginInv
<1>5. GrantedInv
  <2>1. /\ c_id = -1 /\ recv_pc = "recvfrom" /\ tries = <<>> /\ toClient = {}
        /\ recv_buffer.type # "welcome"
    BY DEF Init, C!Init, NoJunkWelcome
  <2>2. ~delaying
    BY DEF Init, C!Init
  <2>3. Len(send_queue) = 1 /\ send_queue[1].kind = "hello"
    BY DEF Init, C!Init, C!Hello
  <2>4. \A k \in 1 .. Len(send_queue) : send_queue[k].kind = "hello"
    BY <2>3
  <2> QED
    BY <2>1, <2>2, <2>4 DEF GrantedInv
<1> QED
  BY <1>3, <1>4, <1>5 DEF Inv

LEMMA SystemInvariant ==
    ASSUME NoJunkWelcome
    PROVE  Spec => []Inv
  BY InitInv, InvInductive, PTL DEF Spec

\* What the client sends is what Server lets arrive: every id in a packet 2 or
\* 3 was granted to this session, whatever the network loses, repeats and
\* reorders and whatever happens to the server.
THEOREM ClientKeeps ==
    ASSUME NoJunkWelcome
    PROVE  Spec => ClientKeepsToProtocol
<1>1. Init => S!Init
  BY DEF Init
<1>2. Inv /\ [Next]_vars => [S!Next]_S!vars
  BY ServerStep DEF Inv
<1> QED
  BY <1>1, <1>2, SystemInvariant, PTL DEF Spec, ClientKeepsToProtocol, S!Spec

-----------------------------------------------------------------------------
(* The id of the session is its own.                                       *)

\* The session has sent a packet 2 with the id i.
Acked(i) == \E n \in 1 .. Len(tries) : tries[n].packet.kind = "ack" /\ tries[n].packet.id = i

LEMMA AckedStays ==
    ASSUME SystemType, [Next]_vars
    PROVE  \A i : Acked(i) => Acked(i)'
  BY TriesGrow DEF Acked

\* The server connects a session only on a packet 2 of the address it was made for.
LEMMA AckConnects ==
    ASSUME Inv, P!GrantInv, early = 0, restarts = 0, NEW t \in S!Thread, S!Ack(t),
           NEW k \in 1 .. Len(sessions'), sessions'[k].connected, sessions'[k].c_name = Me
    PROVE  Acked(k - 1) \/ (k \in 1 .. Len(sessions) /\ sessions[k].connected /\ sessions[k].c_name = Me)
<1> DEFINE d == buf[slot[t]]
<1>1. S!TypeOK /\ OriginInv
  BY DEF Inv, SystemType
<1>2. d \in S!Datagram /\ slot[t] \in S!Slot /\ d.id \in Nat /\ sessions \in Seq(S!Session)
  BY <1>1 DEF S!TypeOK, S!Datagram
<1>3. d.kind = "ack"
  <2>1. pc[t] = "ack" /\ t \in P!Thread
    BY DEF S!Ack, S!At, S!Thread, P!Thread
  <2> QED
    BY <2>1 DEF P!GrantInv
<1>4. <<d.addr, d.id>> \in granted
  BY <1>2, <1>3 DEF P!GrantInv, S!Slot, P!Slot
<1>5. P!Owner(d.id, d.addr)
  <2>1. \A g \in granted : P!Owner(g[2], g[1])
    BY DEF P!GrantInv
  <2> QED
    BY <1>4, <2>1
<1>6. d.id < Len(sessions) /\ sessions[d.id + 1].c_name = d.addr
  BY <1>5 DEF P!Owner, P!Live
<1>7. sessions' = [sessions EXCEPT ![d.id + 1].connected = TRUE]
  BY <1>6 DEF S!Ack, S!Live
<1>8. /\ Len(sessions') = Len(sessions) /\ k \in 1 .. Len(sessions)
      /\ sessions'[k].c_name = sessions[k].c_name
      /\ k # d.id + 1 => sessions'[k] = sessions[k]
  BY <1>2, <1>6, <1>7 DEF S!Session
<1>9. CASE k # d.id + 1
  BY <1>8, <1>9
<1>10. CASE k = d.id + 1
  <2>1. d.addr = Me /\ d.id = k - 1
    BY <1>2, <1>6, <1>8, <1>10
  <2>2. FromTry(d)
    BY <1>1, <1>2, <2>1 DEF OriginInv
  <2> QED
    BY <1>3, <2>1, <2>2 DEF FromTry, Acked
<1> QED
  BY <1>9, <1>10

AckedInv ==
    early = 0 /\ restarts = 0 =>
    \A k \in 1 .. Len(sessions) : sessions[k].connected /\ sessions[k].c_name = Me => Acked(k - 1)

LEMMA AckedInductive == Inv /\ P!GrantInv /\ AckedInv /\ [Next]_vars => AckedInv'
<1> SUFFICES ASSUME Inv, P!GrantInv, AckedInv, [Next]_vars, early' = 0, restarts' = 0,
                    NEW k \in 1 .. Len(sessions'), sessions'[k].connected, sessions'[k].c_name = Me
             PROVE  \A i : i = k - 1 => Acked(i)'
  BY DEF AckedInv, Acked
<1>1. S!TypeOK /\ P!TypeOK /\ [P!Next]_P!vars
  BY ServerStep, SameStep, SameType DEF Inv, SystemType
<1>2. early = 0 /\ restarts = 0
  BY <1>1, ServerAssumed, P!EarlyGrows, P!RestartsGrow
<1>3. SUFFICES Acked(k - 1) \/ (k \in 1 .. Len(sessions) /\ sessions[k].connected /\ sessions[k].c_name = Me)
  BY <1>2, <1>3, AckedStays DEF AckedInv, Inv
<1>4. CASE UNCHANGED sessions
  BY <1>4
<1>5. ASSUME NEW t \in S!Thread, S!PushSession(t)
      PROVE  k \in 1 .. Len(sessions) /\ sessions[k].connected /\ sessions[k].c_name = Me
  <2>1. PICK row \in S!Session : sessions' = Append(sessions, row) /\ row.connected = FALSE
    <3>1. buf[slot[t]] \in S!Datagram /\ id[t] \in Nat
      BY <1>1 DEF S!TypeOK
    <3>2. S!NameIn(buf[slot[t]]) \in Addr \union {NoName}
      BY <3>1 DEF S!NameIn, S!Datagram
    <3> DEFINE new == [c_name |-> S!NameIn(buf[slot[t]]), c_id |-> id[t], connected |-> FALSE]
    <3>3. new \in S!Session /\ new.connected = FALSE
      BY <3>1, <3>2 DEF S!Session
    <3>4. sessions' = Append(sessions, new)
      BY <1>5 DEF S!PushSession
    <3> HIDE DEF new
    <3> QED
      BY <3>3, <3>4
  <2>2. sessions \in Seq(S!Session)
    BY <1>1 DEF S!TypeOK
  <2>3. sessions'[k] = row \/ (k \in 1 .. Len(sessions) /\ sessions'[k] = sessions[k])
    BY <2>1, <2>2
  <2> QED
    BY <2>1, <2>3
<1>6. CASE S!Restart
  BY <1>2, <1>6 DEF S!Restart
<1>7. ASSUME NEW d, Arrives(d) PROVE UNCHANGED sessions
  BY <1>1, <1>7, ArrivesEffect
<1>8. S!SendOne \/ UNCHANGED serverVars => UNCHANGED sessions
  BY <1>1, ServerSendsEffect DEF serverVars
<1>9. ServerActs => UNCHANGED sessions \/ \E t \in S!Thread : S!PushSession(t) \/ S!Ack(t)
  BY ServerActsEffect
<1>10. ASSUME NEW t \in S!Thread, S!Ack(t)
       PROVE  Acked(k - 1) \/ (k \in 1 .. Len(sessions) /\ sessions[k].connected /\ sessions[k].c_name = Me)
  BY <1>2, <1>10, AckConnects
<1> QED
  BY <1>4, <1>5, <1>6, <1>7, <1>8, <1>9, <1>10, ServerSteps DEF Inv, Reaches, OtherReaches, NoArrival

\* The id a session uses is that of the entry made of its own packet 0, and the
\* entry is connected only by the session's packet 2, until a restart.
THEOREM IdBelongs ==
    ASSUME NoJunkWelcome
    PROVE  Spec => []IdIsMine
<1>1. Spec => [](P!ProcessInv /\ P!GrantInv)
  BY ClientKeeps, ServerInvariants, PTL DEF ClientKeepsToProtocol
<1>2. Init => AckedInv
  BY DEF Init, S!Init, S!Boot, AckedInv
<1>3. Spec => []AckedInv
  BY <1>1, <1>2, SystemInvariant, AckedInductive, PTL DEF Spec
<1>4. Inv /\ P!GrantInv /\ AckedInv => IdIsMine
  <2> SUFFICES ASSUME Inv, P!GrantInv, AckedInv, early = 0, restarts = 0 PROVE IdIsMine
    BY DEF IdIsMine
  <2>1. c_id # -1 => Mine(c_id)
    <3>1. \A g \in granted : P!Owner(g[2], g[1])
      BY DEF P!GrantInv
    <3>2. c_id # -1 => <<Me, c_id>> \in granted
      BY DEF Inv, GrantedInv, GrantedMe
    <3>3. c_id # -1 => P!Owner(c_id, Me)
      BY <3>1, <3>2
    <3> QED
      BY <3>3 DEF P!Owner, P!Live, Mine, S!Live
  <2> QED
    BY <2>1 DEF IdIsMine, AckedInv, Acked
<1> QED
  BY <1>1, <1>3, <1>4, SystemInvariant, PTL

-----------------------------------------------------------------------------
(* Every run of the system is a run of the client.                         *)

LEMMA WelcomeReceivable ==
    ASSUME NEW i \in 0 .. MaxArrivals, NEW n \in 1 .. Len(tries), tries[n].ok, tries[n].packet.kind = "hello"
    PROVE  [type |-> "welcome", id |-> i] \in C!Receivable
  BY DEF C!Receivable

LEMMA EchoReceivable ==
    ASSUME NEW n \in 1 .. Len(tries), tries[n].ok, tries[n].packet.kind = "probe"
    PROVE  [type |-> "echo", seq |-> tries[n].packet.seq] \in C!Receivable
  BY DEF C!Receivable

\* What may arrive once may arrive for ever.
LEMMA ReceivableGrows ==
    ASSUME SystemType, [Next]_vars
    PROVE  C!Receivable \subseteq C!Receivable'
<1>1. SUFFICES ASSUME NEW m \in C!Receivable PROVE m \in C!Receivable'
  OBVIOUS
<1>2. CASE \E i \in 0 .. MaxArrivals :
             /\ m = [type |-> "welcome", id |-> i]
             /\ \E n \in 1 .. Len(tries) : tries[n].packet.kind = "hello" /\ tries[n].ok
  <2>1. \E n \in 1 .. Len(tries') : tries'[n].packet.kind = "hello" /\ tries'[n].ok
    BY <1>2, TriesGrow
  <2> QED
    BY <1>2, <2>1 DEF C!Receivable
<1>3. CASE \E n \in 1 .. Len(tries) :
             /\ m = [type |-> "echo", seq |-> tries[n].packet.seq]
             /\ tries[n].packet.kind = "probe" /\ tries[n].ok
  <2>1. \E n \in 1 .. Len(tries') :
             /\ m = [type |-> "echo", seq |-> tries'[n].packet.seq]
             /\ tries'[n].packet.kind = "probe" /\ tries'[n].ok
    BY <1>3, TriesGrow
  <2> QED
    BY <2>1 DEF C!Receivable
<1>4. CASE m = [type |-> "other"]
  BY <1>4 DEF C!Receivable
<1> QED
  BY <1>1, <1>2, <1>3, <1>4 DEF C!Receivable

\* The reply answers something the session has sent.
Answers(reply) == MessageOf(reply) \in C!Receivable

LEMMA AnswersStays ==
    ASSUME SystemType, [Next]_vars
    PROVE  \A reply : reply.tag \in 1 .. Len(seqOf) /\ Answers(reply) => Answers(reply)'
<1> SUFFICES ASSUME NEW reply, reply.tag \in 1 .. Len(seqOf), Answers(reply) PROVE Answers(reply)'
  OBVIOUS
<1>1. MessageOf(reply)' = MessageOf(reply)
  BY SeqOfGrows DEF MessageOf
<1> QED
  BY <1>1, ReceivableGrows DEF Answers

QueuesReply(reply) ==
    /\ sendq' = Append(sendq, reply)
    /\ reply.addr = Me => reply.tag \in 1 .. Len(seqOf) /\ Answers(reply)

\* What a thread of the server queues for the session answers the datagram in
\* its buffer, which is the one it was dispatched for.
LEMMA QueuesAnswer ==
    ASSUME Inv, P!ProcessInv, early = 0, NEW t \in S!Thread, Queues(t)
    PROVE  \E reply : QueuesReply(reply)
<1>0. OriginInv /\ S!TypeOK
  BY DEF Inv, SystemType
<1>1. PICK reply :
         /\ sendq' = Append(sendq, reply)
         /\ reply.addr = buf[slot[t]].addr /\ reply.tag = buf[slot[t]].tag
         /\ \/ pc[t] = "welcome" /\ reply.kind = "welcome" /\ reply.id = id[t]
            \/ pc[t] = "echo" /\ reply.kind = "echo"
  BY QueuesEffect
<1> SUFFICES ASSUME reply.addr = Me PROVE reply.tag \in 1 .. Len(seqOf) /\ Answers(reply)
  BY <1>1 DEF QueuesReply
<1>2. slot[t] \in S!Slot /\ id[t] \in Nat /\ t \in P!Thread
  BY <1>0 DEF S!TypeOK, S!Thread, P!Thread
<1>3. FromTry(buf[slot[t]])
  BY <1>0, <1>1, <1>2 DEF OriginInv
<1>4. PICK n \in 1 .. Len(tries) :
         /\ tries[n].ok
         /\ buf[slot[t]].kind = IF tries[n].packet.kind = "report" THEN "other" ELSE tries[n].packet.kind
         /\ seqOf[reply.tag] = tries[n].packet.seq
  BY <1>1, <1>3 DEF FromTry
<1>5. P!InCase(t)
  BY <1>2 DEF P!ProcessInv, P!KindInv
<1>6. CASE pc[t] = "welcome" /\ reply.kind = "welcome" /\ reply.id = id[t]
  <2>1. tries[n].packet.kind = "hello"
    BY <1>4, <1>5, <1>6 DEF P!InCase
  <2>2. id[t] \in 0 .. MaxArrivals
    <3>1. id[t] < Len(sessions)
      BY <1>2, <1>6 DEF P!ProcessInv, P!TableInv
    <3>2. Len(sessions) <= MaxArrivals
      BY ServerAssumed, P!SessionsBounded
    <3>3. Len(sessions) \in Nat /\ MaxArrivals \in Nat
      BY <1>0, SystemAssumption DEF S!TypeOK
    <3> QED
      BY <1>2, <3>1, <3>2, <3>3
  <2>3. MessageOf(reply) = [type |-> "welcome", id |-> id[t]]
    BY <1>6 DEF MessageOf
  <2> QED
    BY <1>1, <1>3, <1>4, <2>1, <2>2, <2>3, WelcomeReceivable DEF Answers, FromTry
<1>7. CASE pc[t] = "echo" /\ reply.kind = "echo"
  <2>1. tries[n].packet.kind = "probe"
    BY <1>4, <1>5, <1>7 DEF P!InCase
  <2>2. MessageOf(reply) = [type |-> "echo", seq |-> tries[n].packet.seq]
    BY <1>4, <1>7 DEF MessageOf
  <2> QED
    BY <1>1, <1>3, <1>4, <2>1, <2>2, EchoReceivable DEF Answers, FromTry
<1> QED
  BY <1>1, <1>6, <1>7

\* What is queued for the session, or under way to it, answers something it
\* has sent.
AnswerInv ==
    early = 0 =>
    /\ \A m \in 1 .. Len(sendq) : sendq[m].addr = Me => Answers(sendq[m])
    /\ \A a \in toClient : a.message \in C!Receivable

LEMMA AnswerInductive == Inv /\ P!ProcessInv /\ AnswerInv /\ [Next]_vars => AnswerInv'
<1> SUFFICES ASSUME Inv, P!ProcessInv, AnswerInv, [Next]_vars, early' = 0 PROVE AnswerInv'
  BY DEF AnswerInv
<1>1. S!TypeOK /\ P!TypeOK /\ [P!Next]_P!vars /\ SystemType /\ OriginInv
  BY ServerStep, SameStep, SameType DEF Inv, SystemType
<1>2. early = 0
  BY <1>1, ServerAssumed, P!EarlyGrows
<1>3. \A reply : reply.tag \in 1 .. Len(seqOf) /\ Answers(reply) => Answers(reply)'
  BY <1>1, AnswersStays
<1>4. \A a \in toClient' : a.message \in C!Receivable'
  <2>1. ASSUME NEW a \in toClient', a \notin toClient PROVE a.message \in C!Receivable'
    <3>1. S!SendOne /\ sendq[1].addr = Me /\ a.message = MessageOf(sendq[1])
      BY <1>1, <2>1, ToClientGrows
    <3>2. 1 \in 1 .. Len(sendq)
      BY <1>1, <3>1, ServerSendsEffect
    <3>3. a.message \in C!Receivable
      BY <1>2, <3>1, <3>2 DEF AnswerInv, Answers
    <3> QED
      BY <1>1, <3>3, ReceivableGrows
  <2> QED
    BY <1>1, <1>2, <2>1, ReceivableGrows DEF AnswerInv
<1>5. SUFFICES \A m \in 1 .. Len(sendq') : \A r : r = sendq'[m] /\ r.addr = Me => Answers(r)'
  BY <1>4, <1>5 DEF AnswerInv, Answers, MessageOf
<1>6. \A m \in 1 .. Len(sendq) : \A r : r = sendq[m] /\ r.addr = Me => Answers(r)'
  BY <1>1, <1>2, <1>3 DEF AnswerInv, OriginInv
<1>7. CASE UNCHANGED sendq
  BY <1>6, <1>7
<1>8. ASSUME NEW t \in S!Thread, Queues(t)
      PROVE  \A m \in 1 .. Len(sendq') : \A r : r = sendq'[m] /\ r.addr = Me => Answers(r)'
  <2>1. PICK reply : QueuesReply(reply)
    BY <1>2, <1>8, QueuesAnswer
  <2>2. sendq \in Seq(S!Reply)
    BY <1>1 DEF S!TypeOK
  <2>3. ASSUME NEW m \in 1 .. Len(sendq')
        PROVE  sendq'[m] = reply \/ (m \in 1 .. Len(sendq) /\ sendq'[m] = sendq[m])
    BY <2>1, <2>2, <2>3 DEF QueuesReply
  <2> QED
    BY <1>3, <1>6, <2>1, <2>3 DEF QueuesReply
<1>9. CASE S!SendOne
  BY <1>1, <1>6, <1>9, ServerSendsEffect
<1>10. CASE S!Restart
  BY <1>10 DEF S!Restart
<1>11. ASSUME NEW d, Arrives(d) PROVE UNCHANGED sendq
  BY <1>1, <1>11, ArrivesEffect
<1>12. ServerActs => UNCHANGED sendq \/ \E t \in S!Thread : Queues(t)
  BY ServerActsEffect
<1>13. UNCHANGED serverVars => UNCHANGED sendq
  BY DEF serverVars
<1> QED
  BY <1>1, <1>7, <1>8, <1>9, <1>10, <1>11, <1>12, <1>13, ServerSteps DEF Reaches, OtherReaches, NoArrival

\* What the server sends is what Client lets arrive: a packet 1 for a packet 0
\* that was sent, with an id of the table, and a packet 3 for a probe that was
\* sent, in every step up to a receive that completes inside init().
THEOREM ServerKeeps ==
    ASSUME NoJunkWelcome
    PROVE  Spec => ServerKeepsToProtocol
<1>1. Spec => []P!ProcessInv
  BY ClientKeeps, ServerInvariants, PTL DEF ClientKeepsToProtocol
<1>2. Init => AnswerInv
  BY DEF Init, S!Init, S!Boot, AnswerInv
<1>3. Spec => []AnswerInv
  BY <1>1, <1>2, SystemInvariant, AnswerInductive, PTL DEF Spec
<1>4. AnswerInv /\ [Next]_vars => [early = 0 => C!Next]_clientVars
  <2> SUFFICES ASSUME AnswerInv, early = 0, [Next]_vars PROVE C!Next \/ UNCHANGED clientVars
    OBVIOUS
  <2>1. ASSUME NEW a \in toClient, C!Receive(a.message) PROVE C!Next
    BY <2>1 DEF AnswerInv, C!Next
  <2> QED
    BY <2>1, SessionSteps DEF C!Next, C!RecvThread
<1>5. Init => C!Init
  BY DEF Init
<1> QED
  BY <1>3, <1>4, <1>5, PTL DEF Spec, ServerKeepsToProtocol

-----------------------------------------------------------------------------
(* A packet 0 and a probe each have at most one answer on the way.         *)

\* Packet 0 has the key -1 and a probe its sequence number; everything that
\* comes of one of them keeps the key, until it is handled.
PacketKey(packet, k) ==
    \/ packet.kind = "hello" /\ k = -1
    \/ packet.kind = "probe" /\ k = packet.seq

DatagramKey(d, k) ==
    /\ d.addr = Me
    /\ \/ d.kind = "hello" /\ k = -1
       \/ d.kind = "probe" /\ k = seqOf[d.tag]

MessageKey(message, k) ==
    \/ message.type = "welcome" /\ k = -1
    \/ message.type = "echo" /\ k = message.seq

ReplyKey(reply, k) == reply.addr = Me /\ MessageKey(MessageOf(reply), k)

\* The places where a key can be.  Jobs of the client are numbered as the tries
\* they will become.
Out(n, k) ==
    \/ n \in toServer /\ PacketKey(tries[n].packet, k)
    \/ \E j \in 1 .. Len(send_queue) :
         n = Len(tries) + j /\ send_queue[j].kind = "hello" /\ k = -1

InSlot(tag, k) == \E s \in S!Slot : P!Unanswered(s) /\ buf[s].tag = tag /\ DatagramKey(buf[s], k)

InQueue(tag, k) == \E m \in 1 .. Len(sendq) : sendq[m].tag = tag /\ ReplyKey(sendq[m], k)

InServer(tag, k) == InSlot(tag, k) \/ InQueue(tag, k)

Back(a, k) == a \in toClient /\ MessageKey(a.message, k)

InHand(k) == recv_pc = "handle" /\ MessageKey(recv_buffer, k)

Reported(n, k) ==
    \/ n \in 1 .. Len(tries) /\ tries[n].packet.kind = "report" /\ k = tries[n].packet.seq
    \/ \E j \in 1 .. Len(send_queue) :
         n = Len(tries) + j /\ send_queue[j].kind = "report" /\ k = send_queue[j].seq

Met(i, k) == i \in 1 .. welcomed /\ k = -1

Has(p, i, k) ==
    \/ p = "out" /\ Out(i, k)
    \/ p = "server" /\ InServer(i, k)
    \/ p = "back" /\ Back(i, k)
    \/ p = "hand" /\ i = 0 /\ InHand(k)
    \/ p = "report" /\ Reported(i, k)
    \/ p = "met" /\ Met(i, k)

\* Every key is in one place, and is that of a packet that was sent.
OneEach ==
    /\ \A k \in Int : \A p, q, i, j : Has(p, i, k) /\ Has(q, j, k) => p = q /\ i = j
    /\ \A k \in Int : \A p, i : Has(p, i, k) => k < seq_num

\* What a step does to the keys: none is new, those of one place are all in
\* another one, or a probe is sent.
Keeps == \A k \in Int : \A p, i : Has(p, i, k)' => Has(p, i, k)

Moves(p, i, q, j) ==
    \A k \in Int : \A r, l :
        Has(r, l, k)' => \/ Has(r, l, k) /\ ~(r = p /\ l = i)
                         \/ r = q /\ l = j /\ Has(p, i, k)

Adds(n) ==
    /\ seq_num' = seq_num + 1
    /\ \A k \in Int : \A p, i : Has(p, i, k)' => Has(p, i, k) \/ (p = "out" /\ i = n /\ k = seq_num)

LEMMA OneEachStays ==
    ASSUME OneEach, seq_num \in Nat, seq_num' \in Nat, seq_num <= seq_num',
           Keeps \/ (\E p, i, q, j : Moves(p, i, q, j)) \/ \E n : Adds(n)
    PROVE  OneEach'
<1>1. CASE Keeps
  BY <1>1 DEF OneEach, Keeps
<1>2. ASSUME NEW p, NEW i, NEW q, NEW j, Moves(p, i, q, j) PROVE OneEach'
  BY <1>2 DEF OneEach, Moves
<1>3. ASSUME NEW n, Adds(n) PROVE OneEach'
  <2>1. ASSUME NEW k \in Int, NEW p, NEW i, Has(p, i, k)' PROVE k < seq_num'
    BY <1>3, <2>1 DEF OneEach, Adds
  <2>2. ASSUME NEW k \in Int, NEW p, NEW q, NEW i, NEW j, Has(p, i, k)', Has(q, j, k)'
        PROVE  p = q /\ i = j
    <3>1. k = seq_num => ~Has(p, i, k) /\ ~Has(q, j, k)
      BY DEF OneEach
    <3> QED
      BY <1>3, <2>2, <3>1 DEF OneEach, Adds
  <2> QED
    BY <2>1, <2>2 DEF OneEach
<1> QED
  BY <1>1, <1>2, <1>3

\* What a step leaves alone holds the keys it held.
LEMMA PlacesStay ==
    /\ UNCHANGED <<tries, send_queue, toServer>> => \A n, k : Out(n, k)' <=> Out(n, k)
    /\ UNCHANGED <<tries, send_queue>> => \A n, k : Reported(n, k)' <=> Reported(n, k)
    /\ UNCHANGED toClient => \A a, k : Back(a, k)' <=> Back(a, k)
    /\ UNCHANGED <<recv_pc, recv_buffer>> => \A k : InHand(k)' <=> InHand(k)
    /\ UNCHANGED welcomed => \A i, k : Met(i, k)' <=> Met(i, k)
<1>1. UNCHANGED <<tries, send_queue, toServer>> => \A n, k : Out(n, k)' <=> Out(n, k)
  BY DEF Out
<1>2. UNCHANGED <<tries, send_queue>> => \A n, k : Reported(n, k)' <=> Reported(n, k)
  BY DEF Reported
<1>3. UNCHANGED toClient => \A a, k : Back(a, k)' <=> Back(a, k)
  BY DEF Back
<1>4. UNCHANGED <<recv_pc, recv_buffer>> => \A k : InHand(k)' <=> InHand(k)
  BY DEF InHand
<1>5. UNCHANGED welcomed => \A i, k : Met(i, k)' <=> Met(i, k)
  BY DEF Met
<1> QED
  BY <1>1, <1>2, <1>3, <1>4, <1>5

LEMMA SessionKeysStay ==
    UNCHANGED clientVars => /\ \A n, k : Reported(n, k)' <=> Reported(n, k)
                            /\ \A k : InHand(k)' <=> InHand(k)
                            /\ \A i, k : Met(i, k)' <=> Met(i, k)
  BY PlacesStay DEF clientVars

LEMMA ServerKeysStay ==
    UNCHANGED <<serverVars, seqOf>> => \A tag, k : InServer(tag, k)' <=> InServer(tag, k)
<1> SUFFICES ASSUME UNCHANGED <<serverVars, seqOf>>, NEW tag, NEW k
             PROVE  InServer(tag, k)' <=> InServer(tag, k)
  OBVIOUS
<1>1. \A s : P!Unanswered(s)' <=> P!Unanswered(s)
  BY DEF serverVars, P!Unanswered, P!Queued
<1>2. InSlot(tag, k)' <=> InSlot(tag, k)
  BY <1>1 DEF InSlot, DatagramKey, serverVars
<1>3. InQueue(tag, k)' <=> InQueue(tag, k)
  BY DEF InQueue, ReplyKey, MessageOf, serverVars
<1> QED
  BY <1>2, <1>3 DEF InServer

-----------------------------------------------------------------------------
(* The steps of the session, key by key.                                   *)

\* Appending a job to send_queue: only a packet 0 or a packet 6 brings a key.
LEMMA QueueKeys ==
    ASSUME SessionType, NEW e \in AnyPacket, send_queue' = Append(send_queue, e),
           UNCHANGED <<tries, toServer>>, e.kind # "hello"
    PROVE  /\ \A n, k : Out(n, k)' => Out(n, k)
           /\ \A n, k : Reported(n, k)' =>
                \/ Reported(n, k)
                \/ n = Len(tries) + Len(send_queue) + 1 /\ e.kind = "report" /\ k = e.seq
<1>1. send_queue \in Seq(AnyPacket)
  BY DEF SessionType
<1>2. \A j \in 1 .. Len(send_queue') :
         \/ j \in 1 .. Len(send_queue) /\ send_queue'[j] = send_queue[j]
         \/ j = Len(send_queue) + 1 /\ send_queue'[j] = e
  BY <1>1
<1>3. Len(tries) \in Nat /\ Len(send_queue) \in Nat
  BY <1>1 DEF SessionType
<1>4. ASSUME NEW n, NEW k, Out(n, k)' PROVE Out(n, k)
  BY <1>2, <1>4 DEF Out
<1>5. ASSUME NEW n, NEW k, Reported(n, k)'
      PROVE  \/ Reported(n, k)
             \/ n = Len(tries) + Len(send_queue) + 1 /\ e.kind = "report" /\ k = e.seq
  <2>1. CASE n \in 1 .. Len(tries) /\ tries[n].packet.kind = "report" /\ k = tries[n].packet.seq
    BY <2>1 DEF Reported
  <2>2. ASSUME NEW j \in 1 .. Len(send_queue'), n = Len(tries) + j,
               send_queue'[j].kind = "report", k = send_queue'[j].seq
        PROVE  \/ Reported(n, k)
               \/ n = Len(tries) + Len(send_queue) + 1 /\ e.kind = "report" /\ k = e.seq
    <3>1. CASE j \in 1 .. Len(send_queue) /\ send_queue'[j] = send_queue[j]
      BY <2>2, <3>1 DEF Reported
    <3>2. CASE j = Len(send_queue) + 1 /\ send_queue'[j] = e
      BY <1>3, <2>2, <3>2
    <3> QED
      BY <1>2, <3>1, <3>2
  <2> QED
    BY <1>5, <2>1, <2>2 DEF Reported
<1> QED
  BY <1>4, <1>5

\* The number of a probe is read when it is sent.
LEMMA ProbeNumber ==
    ASSUME SessionType, NEW ok \in BOOLEAN, C!SendOne(ok)
    PROVE  /\ tries' = Append(tries, [packet |-> C!Build(send_queue[1]), ok |-> ok])
           /\ C!Build(send_queue[1]).kind = send_queue[1].kind
           /\ send_queue[1].kind # "probe" => C!Build(send_queue[1]) = send_queue[1] /\ seq_num' = seq_num
           /\ send_queue[1].kind = "probe" => C!Build(send_queue[1]).seq = seq_num /\ seq_num' = seq_num + 1
<1>1. Head(send_queue) = send_queue[1] /\ send_queue[1] \in AnyPacket
  BY SendEffect DEF SessionType, C!SendOne
<1>2. send_queue[1].kind = "probe" => C!Build(send_queue[1]).seq = seq_num
  <2> SUFFICES ASSUME send_queue[1].kind = "probe" PROVE C!Build(send_queue[1]).seq = seq_num
    OBVIOUS
  <2>1. send_queue[1] = [kind |-> send_queue[1].kind, id |-> send_queue[1].id, seq |-> send_queue[1].seq]
    BY <1>1 DEF AnyPacket
  <2>2. C!Build(send_queue[1]) = [kind |-> "probe", id |-> c_id, seq |-> seq_num]
    BY <2>1 DEF C!Build
  <2> QED
    BY <2>2
<1> QED
  BY <1>1, <1>2, BuildEffect DEF C!SendOne

\* Sending adds the key of a probe and leaves the others where they were.
LEMMA ClientSendsKeys ==
    ASSUME Inv, NEW ok \in BOOLEAN, ClientSends(ok)
    PROVE  Keeps \/ \E n : Adds(n)
<1>0. SessionType /\ C!SendOne(ok) /\ toServer \subseteq 1 .. Len(tries)
  BY DEF Inv, SystemType, ClientSends
<1> DEFINE packet == C!Build(send_queue[1])
<1>1. /\ tries' = Append(tries, [packet |-> packet, ok |-> ok])
      /\ packet.kind = send_queue[1].kind
      /\ send_queue[1].kind # "probe" => packet = send_queue[1] /\ seq_num' = seq_num
      /\ send_queue[1].kind = "probe" => packet.seq = seq_num /\ seq_num' = seq_num + 1
  BY <1>0, ProbeNumber
<1> HIDE DEF packet
<1>2. /\ Len(tries) \in Nat /\ Len(tries') = Len(tries) + 1
      /\ \A n \in 1 .. Len(tries') : \/ n \in 1 .. Len(tries) /\ tries'[n] = tries[n]
                                     \/ n = Len(tries) + 1 /\ tries'[n].packet = packet
  BY <1>0, <1>1 DEF SessionType
<1>3. /\ \A j \in 1 .. Len(send_queue') : /\ j + 1 \in 1 .. Len(send_queue)
                                          /\ send_queue'[j] = send_queue[j + 1]
                                          /\ Len(tries') + j = Len(tries) + (j + 1)
      /\ 1 \in 1 .. Len(send_queue)
  BY <1>0, <1>2, SendEffect
<1>4. /\ \A n, k : Reported(n, k)' => Reported(n, k)
      /\ \A n, k : Out(n, k)' => \/ Out(n, k)
                                 \/ n = Len(tries) + 1 /\ send_queue[1].kind = "probe" /\ k = seq_num
  <2>1. ASSUME NEW n, NEW k, NEW j \in 1 .. Len(send_queue'), n = Len(tries') + j,
               send_queue'[j].kind = "report", k = send_queue'[j].seq
        PROVE  Reported(n, k)
    BY <1>3, <2>1 DEF Reported
  <2>2. ASSUME NEW n \in 1 .. Len(tries'), NEW k, tries'[n].packet.kind = "report", k = tries'[n].packet.seq
        PROVE  Reported(n, k)
    <3>1. CASE n \in 1 .. Len(tries) /\ tries'[n] = tries[n]
      BY <2>2, <3>1 DEF Reported
    <3>2. CASE n = Len(tries) + 1 /\ tries'[n].packet = packet
      <4>1. send_queue[1].kind = "report" /\ packet = send_queue[1]
        BY <1>1, <2>2, <3>2
      <4> QED
        BY <1>3, <2>2, <3>2, <4>1 DEF Reported
    <3> QED
      BY <1>2, <3>1, <3>2
  <2>3. ASSUME NEW n, NEW k, NEW j \in 1 .. Len(send_queue'), n = Len(tries') + j,
               send_queue'[j].kind = "hello", k = -1
        PROVE  Out(n, k)
    BY <1>3, <2>3 DEF Out
  <2>4. ASSUME NEW n \in toServer', NEW k, PacketKey(tries'[n].packet, k)
        PROVE  \/ Out(n, k)
               \/ n = Len(tries) + 1 /\ send_queue[1].kind = "probe" /\ k = seq_num
    <3>1. CASE n \in toServer
      BY <1>0, <1>2, <2>4, <3>1 DEF Out
    <3>2. CASE n \notin toServer
      <4>1. n = Len(tries) + 1
        BY <2>4, <3>2 DEF ClientSends
      <4>2. tries'[n].packet = packet
        BY <1>2, <4>1
      <4>3. CASE send_queue[1].kind = "probe"
        BY <1>1, <2>4, <4>1, <4>2, <4>3 DEF PacketKey
      <4>4. CASE send_queue[1].kind # "probe"
        BY <1>1, <1>3, <2>4, <4>1, <4>2, <4>4 DEF PacketKey, Out
      <4> QED
        BY <4>3, <4>4
    <3> QED
      BY <3>1, <3>2
  <2>5. ASSUME NEW n, NEW k, Out(n, k)'
        PROVE  \/ Out(n, k)
               \/ n = Len(tries) + 1 /\ send_queue[1].kind = "probe" /\ k = seq_num
    <3>1. \/ n \in toServer' /\ PacketKey(tries'[n].packet, k)
          \/ \E j \in 1 .. Len(send_queue') :
               n = Len(tries') + j /\ send_queue'[j].kind = "hello" /\ k = -1
      BY <2>5 DEF Out, PacketKey
    <3> QED
      BY <2>3, <2>4, <3>1
  <2>6. ASSUME NEW n, NEW k, Reported(n, k)' PROVE Reported(n, k)
    <3>1. \/ n \in 1 .. Len(tries') /\ tries'[n].packet.kind = "report" /\ k = tries'[n].packet.seq
          \/ \E j \in 1 .. Len(send_queue') :
               n = Len(tries') + j /\ send_queue'[j].kind = "report" /\ k = send_queue'[j].seq
      BY <2>6 DEF Reported
    <3> QED
      BY <2>1, <2>2, <3>1
  <2> QED
    BY <2>5, <2>6
<1>5. /\ \A tag, k : InServer(tag, k)' <=> InServer(tag, k)
      /\ \A a, k : Back(a, k)' <=> Back(a, k)
      /\ \A k : InHand(k)' <=> InHand(k)
      /\ \A i, k : Met(i, k)' <=> Met(i, k)
  BY <1>0, SendEffect, PlacesStay, ServerKeysStay DEF ClientSends
<1>6. CASE send_queue[1].kind = "probe"
  <2>1. Adds(Len(tries) + 1)
    BY <1>1, <1>4, <1>5, <1>6 DEF Adds, Has
  <2> QED
    BY <2>1
<1>7. CASE send_queue[1].kind # "probe"
  BY <1>4, <1>5, <1>7 DEF Keeps, Has
<1> QED
  BY <1>6, <1>7

\* The receive thread takes the key of what it handles; the delay thread and
\* the others bring none.
LEMMA ClientActsKeys ==
    ASSUME Inv, welcomed \in Nat, ClientActs, recvFailures = 0, recvFailures' = 0
    PROVE  Keeps \/ \E p, i, q, j : Moves(p, i, q, j)
<1>0. /\ SessionType /\ UNCHANGED toServer
      /\ \A tag, k : InServer(tag, k)' <=> InServer(tag, k)
      /\ \A a, k : Back(a, k)' <=> Back(a, k)
  BY PlacesStay, ServerKeysStay DEF Inv, SystemType, ClientActs, network
<1>1. CASE C!HandleNothing
  <2>1. /\ UNCHANGED <<tries, send_queue, welcomed>> /\ recv_pc' = "recvfrom"
    BY <1>1 DEF C!HandleNothing, C!sessionVars
  <2>2. \A k : ~InHand(k)'
    BY <2>1 DEF InHand
  <2> QED
    BY <1>0, <2>1, <2>2, PlacesStay DEF Keeps, Has
<1>2. CASE C!HandleWelcome
  <2>1. /\ UNCHANGED <<tries, send_queue>> /\ recv_pc' = "ack" /\ welcomed' = welcomed + 1
        /\ recv_pc = "handle" /\ recv_buffer.type = "welcome"
    BY <1>2 DEF C!HandleWelcome
  <2>2. \A k : ~InHand(k)'
    BY <2>1 DEF InHand
  <2>3. \A i, k : Met(i, k)' => Met(i, k) \/ (i = welcomed + 1 /\ InHand(k))
    BY <2>1 DEF Met, InHand, MessageKey
  <2>4. Moves("hand", 0, "met", welcomed + 1)
    BY <1>0, <2>1, <2>2, <2>3, PlacesStay DEF Moves, Has
  <2> QED
    BY <2>4
<1>3. CASE C!PushAck
  <2>1. /\ UNCHANGED <<tries, welcomed>> /\ recv_pc' = "spawn"
        /\ send_queue' = Append(send_queue, C!Ack(c_id))
    BY <1>3 DEF C!PushAck, C!sessionVars
  <2>2. \A k : ~InHand(k)'
    BY <2>1 DEF InHand
  <2>3. C!Ack(c_id) \in AnyPacket /\ C!Ack(c_id).kind = "ack"
    BY <1>0, AckType DEF C!Ack, SessionType
  <2>4. /\ \A n, k : Out(n, k)' => Out(n, k)
        /\ \A n, k : Reported(n, k)' => Reported(n, k)
    BY <1>0, <2>1, <2>3, QueueKeys
  <2> QED
    BY <1>0, <2>1, <2>2, <2>4, PlacesStay DEF Keeps, Has
<1>4. CASE C!Spawn
  <2>1. /\ UNCHANGED <<tries, send_queue, welcomed>> /\ recv_pc' = "recvfrom"
    BY <1>4 DEF C!Spawn
  <2>2. \A k : ~InHand(k)'
    BY <2>1 DEF InHand
  <2> QED
    BY <1>0, <2>1, <2>2, PlacesStay DEF Keeps, Has
<1>5. CASE C!HandleEcho
  <2> DEFINE e == C!Report(c_id, recv_buffer.seq)
             n0 == Len(tries) + Len(send_queue) + 1
  <2>1. /\ UNCHANGED <<tries, welcomed>> /\ recv_pc' = "recvfrom" /\ send_queue' = Append(send_queue, e)
        /\ recv_pc = "handle" /\ recv_buffer.type = "echo"
    BY <1>5 DEF C!HandleEcho, C!sessionVars
  <2>2. \A k : ~InHand(k)'
    BY <2>1 DEF InHand
  <2>3. recv_buffer.seq \in Nat
    BY <1>0, <2>1 DEF SessionType, AnyMessage
  <2>4. e \in AnyPacket /\ e.kind = "report" /\ e.seq = recv_buffer.seq
    BY <1>0, <2>3, ReportType DEF C!Report, SessionType
  <2> HIDE DEF e
  <2>5. /\ \A n, k : Out(n, k)' => Out(n, k)
        /\ \A n, k : Reported(n, k)' => Reported(n, k) \/ (n = n0 /\ k = e.seq)
    BY <1>0, <2>1, <2>4, QueueKeys
  <2>6. InHand(e.seq)
    BY <2>1, <2>4 DEF InHand, MessageKey
  <2> HIDE DEF n0
  <2>7. Moves("hand", 0, "report", n0)
    BY <1>0, <2>1, <2>2, <2>5, <2>6, PlacesStay DEF Moves, Has
  <2> QED
    BY <2>7
<1>6. CASE C!Tick
  <2>1. /\ UNCHANGED <<tries, welcomed, recv_pc, recv_buffer>>
        /\ send_queue' = Append(send_queue, C!Probe)
    BY <1>6 DEF C!Tick, C!sessionVars, C!recvVars
  <2>2. C!Probe \in AnyPacket /\ C!Probe.kind = "probe"
    BY ProbeType DEF C!Probe
  <2>3. /\ \A n, k : Out(n, k)' => Out(n, k)
        /\ \A n, k : Reported(n, k)' => Reported(n, k)
    BY <1>0, <2>1, <2>2, QueueKeys
  <2> QED
    BY <1>0, <2>1, <2>3, PlacesStay DEF Keeps, Has
<1>7. CASE C!ReceiveFails
  BY <1>7 DEF C!ReceiveFails
<1> QED
  BY <1>1, <1>2, <1>3, <1>4, <1>5, <1>6, <1>7 DEF ClientActs, C!RecvThread

\* Receiving takes a message off the network.
LEMMA ClientReceivesKeys ==
    ASSUME NEW a \in toClient, ClientReceives(a)
    PROVE  Moves("back", a, "hand", 0)
<1>1. /\ UNCHANGED <<tries, send_queue, toServer, welcomed>> /\ UNCHANGED <<serverVars, seqOf>>
      /\ recv_buffer' = a.message /\ toClient' = toClient \ {a}
  BY DEF ClientReceives, C!Receive, C!sessionVars
<1>2. \A k : InHand(k)' => Back(a, k)
  BY <1>1 DEF InHand, Back
<1>3. \A b, k : Back(b, k)' => Back(b, k) /\ b # a
  BY <1>1 DEF Back
<1> QED
  BY <1>1, <1>2, <1>3, PlacesStay, ServerKeysStay DEF Moves, Has

LEMMA LoseKeys ==
    ASSUME Lose
    PROVE  Keeps
<1>1. /\ UNCHANGED <<serverVars, clientVars, seqOf, tries, send_queue>>
      /\ toServer' \subseteq toServer /\ toClient' \subseteq toClient
  BY DEF Lose, clientVars
<1>2. /\ \A n, k : Out(n, k)' => Out(n, k)
      /\ \A a, k : Back(a, k)' => Back(a, k)
  BY <1>1 DEF Out, Back
<1> QED
  BY <1>1, <1>2, SessionKeysStay, ServerKeysStay DEF Keeps, Has

-----------------------------------------------------------------------------
(* The steps of the server, key by key.                                    *)

\* A tag stands for the same sequence number for ever.
LEMMA KeysOfTags ==
    ASSUME Inv, [Next]_vars
    PROVE  /\ \A m \in 1 .. Len(sendq) : \A k : ReplyKey(sendq[m], k) => sendq[m].tag \in 1 .. Len(seqOf)
           /\ \A r : r.tag \in 1 .. Len(seqOf) => \A k : ReplyKey(r, k)' <=> ReplyKey(r, k)
           /\ \A s \in S!Slot : \A k : DatagramKey(buf[s], k) => buf[s].tag \in 1 .. Len(seqOf)
           /\ \A d : d.tag \in 1 .. Len(seqOf) => \A k : DatagramKey(d, k)' <=> DatagramKey(d, k)
<1>1. \A k \in 1 .. Len(seqOf) : seqOf'[k] = seqOf[k]
  BY SeqOfGrows DEF Inv
<1>2. \A r : r.tag \in 1 .. Len(seqOf) => \A k : ReplyKey(r, k)' <=> ReplyKey(r, k)
  BY <1>1 DEF ReplyKey, MessageOf, MessageKey
<1>3. \A d : d.tag \in 1 .. Len(seqOf) => \A k : DatagramKey(d, k)' <=> DatagramKey(d, k)
  BY <1>1 DEF DatagramKey
<1>4. \A m \in 1 .. Len(sendq) : \A k : ReplyKey(sendq[m], k) => sendq[m].tag \in 1 .. Len(seqOf)
  BY DEF Inv, OriginInv, ReplyKey
<1>5. \A s \in S!Slot : \A k : DatagramKey(buf[s], k) => buf[s].tag \in 1 .. Len(seqOf)
  BY DEF Inv, OriginInv, FromTry, DatagramKey
<1> QED
  BY <1>2, <1>3, <1>4, <1>5

\* The key of a datagram that arrives with the sequence number v.
ArrivingKey(d, v, k) ==
    /\ d.addr = Me
    /\ \/ d.kind = "hello" /\ k = -1
       \/ d.kind = "probe" /\ k = v

\* A datagram that arrives overwrites none that still waits for its answer.
LEMMA ArrivesKeys ==
    ASSUME Inv, P!ProcessInv, [Next]_vars, early = 0, early' = 0,
           NEW d \in S!Incoming, Arrives(d), NEW v \in Nat, seqOf' = Append(seqOf, v)
    PROVE  \A tag, k : InServer(tag, k)' => \/ InServer(tag, k)
                                            \/ tag = arrivals + 1 /\ ArrivingKey(d, v, k)
<1>1. PICK s \in S!Slot : S!Deliver(s, d)
  <2>1. ~S!InitImmediate(d)
    BY DEF S!InitImmediate
  <2> QED
    BY <2>1 DEF Arrives
<1>2. P!Deliver(s, d) /\ s \in P!Slot /\ d \in P!Incoming
  BY <1>1, SameIncoming DEF S!Deliver, P!Deliver, S!threadVars, P!threadVars, S!tableVars, P!tableVars,
     S!outVars, P!outVars, S!Slot, P!Slot
<1>3. /\ buf'[s] = d /\ d.tag = arrivals + 1
      /\ \A r \in P!Slot : r # s => buf'[r] = buf[r] /\ (P!Unanswered(r)' <=> P!Unanswered(r))
  BY <1>2, ServerAssumed, P!ArrivesInFreeSlot DEF P!ProcessInv
<1>4. UNCHANGED sendq
  BY <1>1 DEF S!Deliver, S!outVars
<1>5. Len(seqOf) = arrivals /\ seqOf \in Seq(Nat) /\ seqOf'[arrivals + 1] = v
  BY DEF Inv, SystemType
<1>6. ASSUME NEW tag, NEW k, InQueue(tag, k)' PROVE InQueue(tag, k)
  <2>1. PICK m \in 1 .. Len(sendq) : sendq[m].tag = tag /\ ReplyKey(sendq[m], k)'
    BY <1>4, <1>6 DEF InQueue
  <2>2. \A r : r = sendq[m] => r' = r
    BY <1>4
  <2>3. sendq[m].addr = Me
    BY <1>4, <2>1 DEF ReplyKey
  <2>4. sendq[m].tag \in 1 .. Len(seqOf)
    BY <2>3 DEF Inv, OriginInv
  <2>5. ReplyKey(sendq[m], k)
    BY <1>4, <2>1, <2>4, KeysOfTags, SeqOfGrows DEF ReplyKey, MessageOf, MessageKey, Inv
  <2> QED
    BY <2>1, <2>5 DEF InQueue
<1>7. ASSUME NEW tag, NEW k, InSlot(tag, k)'
      PROVE  InSlot(tag, k) \/ (tag = arrivals + 1 /\ ArrivingKey(d, v, k))
  <2>1. PICK r \in S!Slot : P!Unanswered(r)' /\ buf'[r].tag = tag /\ DatagramKey(buf[r], k)'
    BY <1>7 DEF InSlot
  <2>2. CASE r = s
    BY <1>3, <1>5, <2>1, <2>2 DEF DatagramKey, ArrivingKey
  <2>3. CASE r # s
    <3>1. buf'[r] = buf[r] /\ P!Unanswered(r)
      BY <1>3, <2>1, <2>3 DEF S!Slot, P!Slot
    <3>2. buf[r].addr = Me
      BY <2>1, <3>1 DEF DatagramKey
    <3>3. buf[r].tag \in 1 .. Len(seqOf)
      BY <3>2 DEF Inv, OriginInv, FromTry
    <3>4. seqOf'[buf[r].tag] = seqOf[buf[r].tag]
      BY <3>3, SeqOfGrows DEF Inv
    <3>5. DatagramKey(buf[r], k)
      BY <2>1, <3>1, <3>4 DEF DatagramKey
    <3> QED
      BY <2>1, <3>1, <3>5 DEF InSlot
  <2> QED
    BY <2>2, <2>3
<1> QED
  BY <1>6, <1>7 DEF InServer

\* The datagram of the n-th try arrives with the key of its packet.
LEMMA ReceivesKeys ==
    ASSUME Inv, P!ProcessInv, [Next]_vars, early = 0, early' = 0,
           NEW n \in toServer, ServerReceives(n)
    PROVE  Moves("out", n, "server", arrivals + 1)
<1> DEFINE packet == tries[n].packet
           d == DatagramOf(packet)
<1>1. n \in 1 .. Len(tries) /\ packet \in AnyPacket /\ Len(tries) \in Nat
  <2>1. n \in 1 .. Len(tries) /\ tries \in Seq(Try)
    BY DEF Inv, SystemType, SessionType
  <2>2. tries[n] \in Try
    BY <2>1
  <2> QED
    BY <2>1, <2>2 DEF Try
<1>2. /\ Arrives(d) /\ seqOf' = Append(seqOf, packet.seq) /\ toServer' = toServer \ {n}
      /\ UNCHANGED <<clientVars, tries, send_queue, toClient>>
  BY DEF ServerReceives, clientVars
<1>3. d \in S!Incoming /\ packet.seq \in Nat
  BY <1>1, SessionIncoming DEF Inv, AnyPacket
<1>4. \A k : ArrivingKey(d, packet.seq, k) => PacketKey(packet, k)
  BY <1>1 DEF ArrivingKey, PacketKey, DatagramOf, AnyPacket
<1>5. \A k : PacketKey(packet, k) => Out(n, k)
  BY DEF Out
<1> HIDE DEF packet, d
<1>6. \A tag, k : InServer(tag, k)' => InServer(tag, k) \/ (tag = arrivals + 1 /\ Out(n, k))
  BY <1>2, <1>3, <1>4, <1>5, ArrivesKeys
<1>7. \A l, k : Out(l, k)' => Out(l, k) /\ l # n
  <2> SUFFICES ASSUME NEW l, NEW k, Out(l, k)' PROVE Out(l, k) /\ l # n
    OBVIOUS
  <2>1. CASE l \in toServer'
    <3>1. l \in toServer /\ l # n
      BY <1>2, <2>1
    <3> QED
      BY <1>2, <3>1 DEF Out, PacketKey
  <2>2. CASE \E j \in 1 .. Len(send_queue) : l = Len(tries) + j /\ send_queue[j].kind = "hello" /\ k = -1
    <3>1. l # n
      BY <1>1, <2>2
    <3> QED
      BY <2>2, <3>1 DEF Out
  <2> QED
    BY <1>2, <2>1, <2>2 DEF Out
<1> QED
  BY <1>2, <1>6, <1>7, PlacesStay, SessionKeysStay DEF Moves, Has

LEMMA ReceivesOtherKeys ==
    ASSUME Inv, P!ProcessInv, [Next]_vars, early = 0, early' = 0, ServerReceivesOther
    PROVE  Keeps
<1>1. PICK d \in S!Incoming : d.addr # Me /\ Arrives(d)
  BY DEF ServerReceivesOther
<1>2. seqOf' = Append(seqOf, 0) /\ UNCHANGED <<clientVars, tries, send_queue, toServer, toClient>>
  BY DEF ServerReceivesOther, clientVars
<1>3. \A tag, k : InServer(tag, k)' => InServer(tag, k)
  BY <1>1, <1>2, ArrivesKeys DEF ArrivingKey
<1> QED
  BY <1>2, <1>3, PlacesStay, SessionKeysStay DEF Keeps, Has

\* What a thread of the server queues takes the key of the datagram it answers.
LEMMA ServerActsKeys ==
    ASSUME Inv, P!ProcessInv, [Next]_vars, early = 0, early' = 0, ServerActs
    PROVE  Keeps
<1>1. /\ UNCHANGED <<clientVars, tries, send_queue, toServer, toClient, seqOf, buf, arrivals, restarts>>
      /\ UNCHANGED sendq \/ \E t \in S!Thread : Queues(t)
  BY ServerActsEffect DEF clientVars, network
<1>2. P!TypeOK /\ P!SlotInv /\ [P!Next]_P!vars
  BY ServerStep, SameStep DEF P!ProcessInv, Inv
<1>3. arrivals \in Nat /\ restarts \in Nat
  BY <1>2 DEF P!TypeOK
<1>4. ~P!Restart /\ ~ \E s \in P!Slot, d \in P!Incoming : P!Deliver(s, d)
  <2>1. arrivals' # arrivals + 1 /\ restarts' # restarts + 1
    BY <1>1, <1>3
  <2>2. P!Restart => restarts' = restarts + 1
    BY DEF P!Restart
  <2>3. ASSUME NEW s, NEW d, P!Deliver(s, d) PROVE arrivals' = arrivals + 1
    BY <2>3 DEF P!Deliver
  <2> QED
    BY <2>1, <2>2, <2>3
<1>5. \A s \in P!Slot : P!Unanswered(s)' => P!Unanswered(s)
  BY <1>2, <1>4, ServerAssumed, P!QuietSteps DEF P!Quiet
<1>6. ASSUME NEW tag, NEW k, InSlot(tag, k)' PROVE InSlot(tag, k)
  <2>1. PICK r \in S!Slot : P!Unanswered(r)' /\ buf'[r].tag = tag /\ DatagramKey(buf[r], k)'
    BY <1>6 DEF InSlot
  <2>2. P!Unanswered(r)
    BY <1>5, <2>1 DEF S!Slot, P!Slot
  <2> QED
    BY <1>1, <2>1, <2>2 DEF InSlot, DatagramKey
<1>7. ASSUME UNCHANGED sendq, NEW tag, NEW k, InQueue(tag, k)' PROVE InQueue(tag, k)
  BY <1>1, <1>7 DEF InQueue, ReplyKey, MessageOf, MessageKey
<1>8. ASSUME NEW t \in S!Thread, Queues(t), NEW tag, NEW k, InQueue(tag, k)' PROVE InServer(tag, k)
  <2>0. t \in P!Thread /\ (P!PushWelcome(t) \/ P!PushEcho(t))
    BY <1>8 DEF Queues, S!Thread, P!Thread, S!PushWelcome, P!PushWelcome, S!PushEcho, P!PushEcho,
       S!At, P!At, S!Goto, P!Goto, S!portVars, P!portVars, S!tableVars, P!tableVars,
       S!countVars, P!countVars
  <2>1. slot[t] \in P!Slot /\ P!Unanswered(slot[t])
    BY <1>2, <2>0, ServerAssumed, P!Pushes
  <2>2. PICK reply : /\ sendq' = Append(sendq, reply)
                     /\ reply.addr = buf[slot[t]].addr /\ reply.tag = buf[slot[t]].tag
                     /\ \/ pc[t] = "welcome" /\ reply.kind = "welcome" /\ reply.id = id[t]
                        \/ pc[t] = "echo" /\ reply.kind = "echo"
    BY <1>8, QueuesEffect
  <2>3. sendq \in Seq(S!Reply)
    BY DEF Inv, SystemType, S!TypeOK
  <2>4. PICK m \in 1 .. Len(sendq') : sendq'[m].tag = tag /\ ReplyKey(sendq[m], k)'
    BY <1>8 DEF InQueue
  <2>5. CASE m \in 1 .. Len(sendq) /\ sendq'[m] = sendq[m]
    BY <1>1, <2>4, <2>5 DEF InServer, InQueue, ReplyKey, MessageOf, MessageKey
  <2>6. CASE sendq'[m] = reply
    <3>1. reply.addr = Me /\ reply.tag = tag /\ MessageKey(MessageOf(reply), k)
      BY <1>1, <2>4, <2>6 DEF ReplyKey, MessageOf, MessageKey
    <3>2. P!InCase(t)
      BY <2>0 DEF P!ProcessInv, P!KindInv
    <3>3. DatagramKey(buf[slot[t]], k)
      BY <2>2, <3>1, <3>2 DEF DatagramKey, MessageKey, MessageOf, P!InCase
    <3> QED
      BY <2>1, <2>2, <3>1, <3>3 DEF InServer, InSlot, S!Slot, P!Slot
  <2> QED
    BY <2>2, <2>3, <2>5, <2>6
<1>9. \A tag, k : InServer(tag, k)' => InServer(tag, k)
  BY <1>1, <1>6, <1>7, <1>8 DEF InServer
<1> QED
  BY <1>1, <1>9, PlacesStay, SessionKeysStay DEF Keeps, Has

\* The answer to a datagram leaves the server with its key.
LEMMA ServerSendsKeys ==
    ASSUME Inv, P!ProcessInv, [Next]_vars, early = 0, ServerSends
    PROVE  Keeps \/ \E p, i, q, j : Moves(p, i, q, j)
<1> DEFINE reply == sendq[1]
           a == [tag |-> reply.tag, message |-> MessageOf(reply)]
<1>0. S!TypeOK /\ P!TypeOK /\ S!SendOne
  BY SameType DEF Inv, SystemType, ServerSends
<1>1. /\ Head(sendq) = reply /\ 1 \in 1 .. Len(sendq)
      /\ \A m \in 1 .. Len(sendq') : m + 1 \in 1 .. Len(sendq) /\ sendq'[m] = sendq[m + 1]
  BY <1>0, ServerSendsEffect
<1>2. /\ UNCHANGED <<clientVars, tries, send_queue, toServer, seqOf, buf>>
      /\ toClient' = IF up' /\ reply.addr = Me THEN toClient \union {a} ELSE toClient
      /\ UNCHANGED <<cq, pc, slot>>
  BY <1>0, <1>1, ServerSendsEffect DEF ServerSends, S!SendOne, clientVars, S!portVars, S!threadVars
<1>3. ASSUME NEW tag, NEW k, InSlot(tag, k)' PROVE InSlot(tag, k)
  BY <1>2, <1>3 DEF InSlot, DatagramKey, P!Unanswered, P!Queued
<1>4. \A m \in 1 .. Len(sendq') : \A k : ReplyKey(sendq[m], k)' => ReplyKey(sendq[m + 1], k)
  BY <1>1, <1>2 DEF ReplyKey, MessageOf, MessageKey
<1>5. ASSUME NEW tag, NEW k, InQueue(tag, k)' PROVE InQueue(tag, k)
  BY <1>1, <1>4, <1>5 DEF InQueue
<1>6. CASE ~(up' /\ reply.addr = Me)
  BY <1>2, <1>3, <1>5, <1>6, PlacesStay, SessionKeysStay DEF Keeps, Has, InServer
<1>7. CASE up' /\ reply.addr = Me
  <2>1. \A b, k : Back(b, k)' => Back(b, k) \/ (b = a /\ InServer(reply.tag, k))
    <3>1. \A k : MessageKey(MessageOf(reply), k) => InQueue(reply.tag, k)
      BY <1>1, <1>7 DEF InQueue, ReplyKey
    <3>2. \A k : MessageKey(a.message, k) => InServer(reply.tag, k)
      BY <3>1 DEF InServer
    <3> HIDE DEF a
    <3> QED
      BY <1>2, <1>7, <3>2 DEF Back
  <2>2. ASSUME NEW i, i = reply.tag, NEW k PROVE ~InServer(i, k)'
    <3>1. \A m \in 1 .. Len(sendq') : sendq'[m].tag # i
      <4>1. \A m \in 1 .. Len(sendq') : m + 1 # 1
        OBVIOUS
      <4> QED
        BY <1>1, <2>2, <4>1 DEF P!ProcessInv, P!TagInv, P!AnsweredOnce
    <3>2. \A s \in P!Slot : P!Unanswered(s) => buf[s].tag # i
      BY <1>1, <2>2 DEF P!ProcessInv, P!TagInv
    <3>3. \A s \in P!Slot : P!Unanswered(s)' => P!Unanswered(s)
      BY <1>2 DEF P!Unanswered, P!Queued
    <3>4. ~InQueue(i, k)'
      BY <3>1 DEF InQueue
    <3>5. ~InSlot(i, k)'
      BY <1>2, <3>2, <3>3 DEF InSlot, S!Slot, P!Slot
    <3> QED
      BY <3>4, <3>5 DEF InServer
  <2>3. \A tag, k : InServer(tag, k)' => InServer(tag, k)
    BY <1>3, <1>5 DEF InServer
  <2> HIDE DEF a, reply
  <2>4. \A i : i = reply.tag => Moves("server", i, "back", a)
    BY <1>2, <2>1, <2>2, <2>3, PlacesStay, SessionKeysStay DEF Moves, Has
  <2> QED
    BY <2>4
<1> QED
  BY <1>6, <1>7

LEMMA ServerRestartsKeys ==
    ASSUME ServerRestarts
    PROVE  Keeps
<1>1. /\ UNCHANGED <<clientVars, tries, send_queue, toServer, toClient>>
      /\ cq' = <<>> /\ sendq' = <<>> /\ pc' = [t \in S!Thread |-> "wait"]
  BY DEF ServerRestarts, S!Restart, clientVars, network
<1>2. \A s : ~P!Unanswered(s)'
  BY <1>1 DEF P!Unanswered, P!Queued, S!Thread, P!Thread
<1>3. \A tag, k : ~InServer(tag, k)'
  BY <1>1, <1>2 DEF InServer, InSlot, InQueue
<1> QED
  BY <1>1, <1>3, PlacesStay, SessionKeysStay DEF Keeps, Has

-----------------------------------------------------------------------------
(* Nothing is handled twice.                                               *)

Undisturbed == duplicated = 0 /\ recvFailures = 0 /\ early = 0

\* std::terminate is called on a second packet 1.
DeathInv ==
    /\ welcomed \in Nat
    /\ delaying \/ recv_pc \in {"ack", "spawn"} => welcomed >= 1
    /\ delaying /\ recv_pc \in {"ack", "spawn"} => welcomed >= 2
    /\ ~alive => welcomed >= 2

OnceInv ==
    /\ duplicated \in Nat /\ recvFailures \in Nat
    /\ DeathInv
    /\ Undisturbed => OneEach

LEMMA DeathInductive == SessionType /\ DeathInv /\ [Next]_vars => DeathInv'
<1> SUFFICES ASSUME SessionType, DeathInv, [Next]_vars PROVE DeathInv'
  OBVIOUS
<1>1. CASE UNCHANGED clientVars
  BY <1>1 DEF clientVars, DeathInv
<1>2. ASSUME NEW ok \in BOOLEAN, C!SendOne(ok) PROVE DeathInv'
  BY <1>2 DEF C!SendOne, C!recvVars, DeathInv
<1>3. CASE C!HandleNothing \/ C!ReceiveFails \/ C!HandleEcho \/ \E a \in toClient : C!Receive(a.message)
  BY <1>3 DEF C!HandleNothing, C!ReceiveFails, C!HandleEcho, C!Receive, C!sessionVars, DeathInv
<1>4. CASE C!HandleWelcome
  BY <1>4 DEF C!HandleWelcome, DeathInv
<1>5. CASE C!PushAck
  BY <1>5 DEF C!PushAck, C!sessionVars, DeathInv
<1>6. CASE C!Spawn
  <2>1. /\ welcomed \in Nat /\ welcomed' = welcomed /\ recv_pc' = "recvfrom" /\ welcomed >= 1
    BY <1>6 DEF C!Spawn, DeathInv
  <2>2. delaying => welcomed >= 2
    BY <1>6 DEF C!Spawn, DeathInv
  <2>3. ~alive' => delaying
    BY <1>6 DEF C!Spawn
  <2> QED
    BY <2>1, <2>2, <2>3 DEF DeathInv
<1>7. CASE C!Tick
  BY <1>7 DEF C!Tick, C!sessionVars, C!recvVars, DeathInv
<1> QED
  BY <1>1, <1>2, <1>3, <1>4, <1>5, <1>6, <1>7, SessionSteps

\* Both counters only grow.
LEMMA CountersGrow ==
    ASSUME duplicated \in Nat, recvFailures \in Nat, [Next]_vars
    PROVE  /\ duplicated' \in Nat /\ (duplicated' = 0 => duplicated = 0 /\ ~Duplicate)
           /\ recvFailures' \in Nat /\ (recvFailures' = 0 => recvFailures = 0)
<1>1. (duplicated' = duplicated /\ ~Duplicate) \/ duplicated' = duplicated + 1
  <2>1. CASE Duplicate
    BY <2>1 DEF Duplicate
  <2>2. CASE ~Duplicate
    BY <2>2 DEF Next, vars, network, ClientSends, ClientActs, ServerReceives, ServerReceivesOther,
       ServerActs, ServerSends, ServerRestarts, ClientReceives, Lose
  <2> QED
    BY <2>1, <2>2
<1>2. recvFailures' = recvFailures \/ recvFailures' = recvFailures + 1
  BY SessionSteps DEF clientVars, C!SendOne, C!HandleNothing, C!HandleWelcome, C!PushAck, C!Spawn,
     C!HandleEcho, C!Tick, C!ReceiveFails, C!Receive, C!countVars
<1> QED
  BY <1>1, <1>2

LEMMA NumbersGrow ==
    ASSUME SessionType, [Next]_vars
    PROVE  seq_num \in Nat /\ seq_num' \in Nat /\ seq_num <= seq_num'
<1>1. seq_num' = seq_num \/ seq_num' = seq_num + 1
  BY SessionSteps DEF clientVars, C!SendOne, C!HandleNothing, C!HandleWelcome, C!PushAck, C!Spawn,
     C!HandleEcho, C!Tick, C!ReceiveFails, C!Receive, C!sessionVars
<1> QED
  BY <1>1 DEF SessionType

LEMMA OnceInductive == Inv /\ P!ProcessInv /\ OnceInv /\ [Next]_vars => OnceInv'
<1> SUFFICES ASSUME Inv, P!ProcessInv, OnceInv, [Next]_vars PROVE OnceInv'
  OBVIOUS
<1>1. DeathInv' /\ duplicated' \in Nat /\ recvFailures' \in Nat
  BY DeathInductive, CountersGrow DEF OnceInv, Inv, SystemType
<1> SUFFICES ASSUME Undisturbed' PROVE OneEach'
  BY <1>1 DEF OnceInv
<1>2. Undisturbed /\ ~Duplicate /\ early = 0 /\ early' = 0 /\ recvFailures = 0 /\ recvFailures' = 0
  <2>1. P!TypeOK /\ [P!Next]_P!vars
    BY ServerStep, SameStep DEF P!ProcessInv, Inv
  <2>2. early = 0
    BY <2>1, ServerAssumed, P!EarlyGrows DEF Undisturbed
  <2> QED
    BY <2>2, CountersGrow DEF Undisturbed, OnceInv
<1>3. OneEach /\ welcomed \in Nat
  BY <1>2 DEF OnceInv, DeathInv
<1>4. Keeps \/ (\E p, i, q, j : Moves(p, i, q, j)) \/ \E n : Adds(n)
  <2>1. ASSUME NEW ok \in BOOLEAN, ClientSends(ok) PROVE Keeps \/ \E n : Adds(n)
    BY <2>1, ClientSendsKeys
  <2>2. CASE ClientActs
    BY <1>2, <1>3, <2>2, ClientActsKeys
  <2>3. ASSUME NEW n \in toServer, ServerReceives(n) PROVE \E p, i, q, j : Moves(p, i, q, j)
    BY <1>2, <2>3, ReceivesKeys
  <2>4. CASE ServerReceivesOther
    BY <1>2, <2>4, ReceivesOtherKeys
  <2>5. CASE ServerActs
    BY <1>2, <2>5, ServerActsKeys
  <2>6. CASE ServerSends
    BY <1>2, <2>6, ServerSendsKeys
  <2>7. CASE ServerRestarts
    BY <2>7, ServerRestartsKeys
  <2>8. ASSUME NEW a \in toClient, ClientReceives(a) PROVE \E p, i, q, j : Moves(p, i, q, j)
    BY <2>8, ClientReceivesKeys
  <2>9. CASE Lose
    BY <2>9, LoseKeys
  <2>10. CASE UNCHANGED vars
    <3>1. UNCHANGED <<serverVars, clientVars, seqOf, tries, send_queue, toServer, toClient>>
      BY <2>10 DEF vars, clientVars, network
    <3> QED
      BY <3>1, PlacesStay, SessionKeysStay, ServerKeysStay DEF Keeps, Has
  <2> QED
    BY <1>2, <2>1, <2>2, <2>3, <2>4, <2>5, <2>6, <2>7, <2>8, <2>9, <2>10 DEF Next
<1>5. seq_num \in Nat /\ seq_num' \in Nat /\ seq_num <= seq_num'
  BY NumbersGrow DEF Inv, SystemType
<1> QED
  BY <1>3, <1>4, <1>5, OneEachStays

\* At first there is the packet 0 in send_queue and nothing else.
LEMMA InitOnce == Init => OnceInv
<1> SUFFICES ASSUME Init PROVE OnceInv
  OBVIOUS
<1>1. /\ toServer = {} /\ toClient = {} /\ sendq = <<>> /\ cq = <<>> /\ pc = [t \in S!Thread |-> "wait"]
      /\ tries = <<>> /\ send_queue = <<C!Hello>> /\ recv_pc = "recvfrom" /\ welcomed = 0 /\ seq_num = 0
  BY DEF Init, S!Init, S!Boot, C!Init
<1>2. DeathInv
  BY <1>1 DEF Init, C!Init, DeathInv
<1>3. \A n, k : Out(n, k) => n = 1 /\ k = -1
  BY <1>1 DEF Out
<1>4. \A n, k : ~Reported(n, k)
  BY <1>1 DEF Reported, C!Hello
<1>5. \A tag, k : ~InServer(tag, k)
  BY <1>1 DEF InServer, InSlot, InQueue, P!Unanswered, P!Queued, S!Thread, P!Thread
<1>6. \A p, i, k : Has(p, i, k) => p = "out" /\ i = 1 /\ k = -1
  BY <1>1, <1>3, <1>4, <1>5 DEF Has, Back, InHand, Met
<1>7. OneEach
  BY <1>1, <1>6 DEF OneEach
<1>8. duplicated = 0 /\ recvFailures = 0
  BY DEF Init, C!Init
<1> QED
  BY <1>2, <1>7, <1>8 DEF OnceInv

\* Without a duplicated datagram, a failed recvfrom and a receive completed
\* inside init(), the session handles one packet 1 and reports a probe once.
THEOREM HandledOnce ==
    ASSUME NoJunkWelcome
    PROVE  Spec => []OnceUnlessDuplicated
<1>1. Spec => []P!ProcessInv
  BY ClientKeeps, ServerInvariants, PTL DEF ClientKeepsToProtocol
<1>2. Spec => []OnceInv
  BY <1>1, SystemInvariant, InitOnce, OnceInductive, PTL DEF Spec
<1>3. OnceInv => OnceUnlessDuplicated
  <2> SUFFICES ASSUME OnceInv, duplicated = 0, recvFailures = 0, early = 0
               PROVE  alive /\ \A s \in 0 .. MaxTicks - 1 : \A m, n \in Reports(s) : m = n
    BY DEF OnceUnlessDuplicated
  <2>1. OneEach /\ DeathInv
    BY DEF OnceInv, Undisturbed
  <2>2. ASSUME ~alive PROVE FALSE
    <3>1. Met(1, -1) /\ Met(2, -1)
      BY <2>1, <2>2 DEF DeathInv, Met
    <3>2. Has("met", 1, -1) /\ Has("met", 2, -1)
      BY <3>1 DEF Has
    <3>3. 1 = 2
      BY <2>1, <3>2 DEF OneEach
    <3> QED
      BY <3>3
  <2>3. ASSUME NEW s \in 0 .. MaxTicks - 1, NEW m \in Reports(s), NEW n \in Reports(s) PROVE m = n
    <3>1. Has("report", m, s) /\ Has("report", n, s)
      BY DEF Reports, Reported, Has
    <3>2. s \in Int
      OBVIOUS
    <3> QED
      BY <2>1, <3>1, <3>2 DEF OneEach
  <2> QED
    BY <2>2, <2>3
<1> QED
  BY <1>2, <1>3, PTL
=============================================================================
