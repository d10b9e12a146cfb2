----------------------------- MODULE IosClient -----------------------------
(***************************************************************************)
(* The iOS client, iOS_client/UDPClient.swift.  State changes of the       *)
(* connection and receive completions are blocks of the main queue, one at *)
(* a time; the handlers of the delay timers run on the global queue, one   *)
(* at a time per timer but in parallel with the main queue and with each   *)
(* other.  Every init response makes a timer, and clientID and seqNum are  *)
(* plain variables.                                                        *)
(*                                                                         *)
(* A step is one access to what the queues share.  Whatever the server can *)
(* have answered may arrive, any number of times, in any order, or never.  *)
(*                                                                         *)
(* Bounds: MaxTicks handler runs, MaxReceives datagrams.                   *)
(***************************************************************************)
EXTENDS Integers, Sequences, FiniteSets

CONSTANTS
    Id,                     \* the client_ids a server may grant
    MaxTicks, MaxReceives

ASSUME IosAssumption ==
    /\ Id \subseteq Nat
    /\ MaxTicks \in Nat /\ MaxReceives \in Nat

VARIABLES
    connection,     \* "setup", "ready", "failed" or "cancelled"
    loop,           \* where the receive loop is, on the main queue
    datagram,       \* the datagram it handles
    clientID, seqNum,
    timer,          \* the timer self.timer refers to, 0 for nil
    live,           \* the timers that may fire
    handler,        \* handler[t]: where the handler of timer t is, and its locals
    tries,          \* the packets handed to the connection, and whether it was up
    welcomes,       \* the init responses handled, each the number of a timer
    granted,        \* the ids in them
    ticks, receives

mainVars  == <<connection, loop, datagram>>
timerVars == <<timer, live, handler>>
countVars == <<welcomes, granted, ticks, receives>>
vars == <<mainVars, clientID, seqNum, timerVars, tries, countVars>>

-----------------------------------------------------------------------------
Timer == 1 .. MaxReceives

Message ==
    [type: {"welcome"}, id: Id] \union [type: {"refused", "bye", "none"}] \union
    [type: {"echo"}, seq: Nat]

Packet == [kind: {"hello", "ack", "probe", "report"}, id: Nat, seq: Nat]

Pkt(k, i, n) == [kind |-> k, id |-> i, seq |-> n]

Idle == [pc |-> "idle", packet |-> Pkt("probe", 0, 0), tmp |-> 0]

\* connection.send: accepted while the connection is up; it never blocks.
Send(packet) == tries' = Append(tries, [packet |-> packet, ok |-> connection = "ready"])

Sent(kind) == {n \in 1 .. Len(tries) : tries[n].ok /\ tries[n].packet.kind = kind}

\* Answers to what was sent.
Receivable ==
    {m \in {[type |-> "welcome", id |-> i] : i \in Id} \union {[type |-> "refused"], [type |-> "bye"]} :
        Sent("hello") # {}}
    \union {[type |-> "echo", seq |-> tries[n].packet.seq] : n \in Sent("probe")}

Init ==
    /\ connection = "setup" /\ loop = "off" /\ datagram = [type |-> "none"]
    /\ clientID = 0 /\ seqNum = 0
    /\ timer = 0 /\ live = {} /\ handler = [t \in Timer |-> Idle]
    /\ tries = <<>>
    /\ welcomes = 0 /\ granted = {} /\ ticks = 0 /\ receives = 0

-----------------------------------------------------------------------------
(* The main queue.                                                         *)

\* .ready: sendInit(); receiveLoop()
Ready ==
    /\ connection = "setup"
    /\ connection' = "ready"
    /\ tries' = Append(tries, [packet |-> Pkt("hello", 0, 0), ok |-> TRUE])
    /\ loop' = "pending"
    /\ UNCHANGED <<datagram, clientID, seqNum, timerVars, countVars>>

\* .failed: only logged.
Failed ==
    /\ connection \in {"setup", "ready"}
    /\ connection' = "failed"
    /\ UNCHANGED <<loop, datagram, clientID, seqNum, timerVars, tries, countVars>>

\* The completion of receive with a datagram.
Receive(m) ==
    /\ connection = "ready" /\ loop = "pending" /\ receives < MaxReceives
    /\ datagram' = m
    /\ receives' = receives + 1
    /\ loop' = "handle"
    /\ UNCHANGED <<connection, clientID, seqNum, timerVars, tries, welcomes, granted, ticks>>

\* The completion with an error: the loop is not started again.
ReceiveFails ==
    /\ loop = "pending"
    /\ loop' = "off"
    /\ UNCHANGED <<connection, datagram, clientID, seqNum, timerVars, tries, countVars>>

\* .initResponse, accepted: clientID = ...
HandleWelcome ==
    /\ loop = "handle" /\ datagram.type = "welcome"
    /\ clientID' = datagram.id
    /\ welcomes' = welcomes + 1
    /\ granted' = granted \union {datagram.id}
    /\ loop' = "ack"
    /\ UNCHANGED <<connection, datagram, seqNum, timerVars, tries, ticks, receives>>

SendAck ==
    /\ loop = "ack"
    /\ Send(Pkt("ack", clientID, 0))
    /\ loop' = "start"
    /\ UNCHANGED <<connection, datagram, clientID, seqNum, timerVars, countVars>>

\* Mutant: the timer is not resumed.
StartTimerSuspended ==
    /\ loop = "start"
    /\ loop' = "keep"
    /\ UNCHANGED <<connection, datagram, clientID, seqNum, timerVars, tries, countVars>>

\* startDelayTimer(): the new timer is resumed ...
StartTimer ==
    /\ loop = "start"
    /\ live' = live \union {welcomes}
    /\ loop' = "keep"
    /\ UNCHANGED <<connection, datagram, clientID, seqNum, timer, handler, tries, countVars>>

\* ... and replaces self.timer, the only reference to the old one: that fires
\* no more, but its handler may be running.
KeepTimer ==
    /\ loop = "keep"
    /\ timer' = welcomes
    /\ live' = live \ {timer}
    /\ loop' = "pending"
    /\ UNCHANGED <<connection, datagram, clientID, seqNum, handler, tries, countVars>>

\* .initResponse, refused: only logged.
HandleRefused ==
    /\ loop = "handle" /\ datagram.type = "refused"
    /\ loop' = "pending"
    /\ UNCHANGED <<connection, datagram, clientID, seqNum, timerVars, tries, countVars>>

\* .serverDelay: the report has the clientID of the packet, a field the server
\* does not fill in.
HandleEcho ==
    /\ loop = "handle" /\ datagram.type = "echo"
    /\ \E i \in Id \union {0} : Send(Pkt("report", i, datagram.seq))
    /\ loop' = "pending"
    /\ UNCHANGED <<connection, datagram, clientID, seqNum, timerVars, countVars>>

\* Mutant: the timer is not cancelled.
HandleByeKeepsTimer ==
    /\ loop = "handle" /\ datagram.type = "bye"
    /\ connection' = IF connection = "failed" THEN "failed" ELSE "cancelled"
    /\ loop' = "pending"
    /\ UNCHANGED <<datagram, clientID, seqNum, timerVars, tries, countVars>>

\* .serverDisconnect: disconnect(), and receive() on the cancelled connection.
HandleBye ==
    /\ loop = "handle" /\ datagram.type = "bye"
    /\ live' = live \ {timer}
    /\ connection' = IF connection = "failed" THEN "failed" ELSE "cancelled"
    /\ loop' = "pending"
    /\ UNCHANGED <<datagram, clientID, seqNum, timer, handler, tries, countVars>>

-----------------------------------------------------------------------------
(* The handler of a timer, on the global queue.                            *)

\* The timer fires: the packet is built from clientID and seqNum ...
Tick(t) ==
    /\ t \in live /\ handler[t].pc = "idle" /\ ticks < MaxTicks
    /\ handler' = [handler EXCEPT ![t] = [@ EXCEPT !.pc = "send", !.packet = Pkt("probe", clientID, seqNum)]]
    /\ ticks' = ticks + 1
    /\ UNCHANGED <<mainVars, clientID, seqNum, timer, live, tries, welcomes, granted, receives>>

\* ... sent ...
SendProbe(t) ==
    /\ handler[t].pc = "send"
    /\ Send(handler[t].packet)
    /\ handler' = [handler EXCEPT ![t].pc = "load"]
    /\ UNCHANGED <<mainVars, clientID, seqNum, timer, live, countVars>>

\* ... and self.seqNum += 1 reads the number ...
LoadSeq(t) ==
    /\ handler[t].pc = "load"
    /\ handler' = [handler EXCEPT ![t] = [@ EXCEPT !.pc = "store", !.tmp = seqNum]]
    /\ UNCHANGED <<mainVars, clientID, seqNum, timer, live, tries, countVars>>

\* Mutant: only a packet the connection took counts.
StoreSeqIfSent(t) ==
    /\ handler[t].pc = "store"
    /\ seqNum' = IF connection = "ready" THEN handler[t].tmp + 1 ELSE seqNum
    /\ handler' = [handler EXCEPT ![t] = Idle]
    /\ UNCHANGED <<mainVars, clientID, timer, live, tries, countVars>>

\* ... and writes it, over whatever another handler has written since.
StoreSeq(t) ==
    /\ handler[t].pc = "store"
    /\ seqNum' = handler[t].tmp + 1
    /\ handler' = [handler EXCEPT ![t] = Idle]
    /\ UNCHANGED <<mainVars, clientID, timer, live, tries, countVars>>

-----------------------------------------------------------------------------
MainQueue ==
    \/ Ready
    \/ \E m \in Receivable : Receive(m)
    \/ HandleWelcome \/ SendAck \/ StartTimer \/ KeepTimer
    \/ HandleRefused \/ HandleEcho \/ HandleBye

Handler(t) == Tick(t) \/ SendProbe(t) \/ LoadSeq(t) \/ StoreSeq(t)

Next ==
    \/ MainQueue
    \/ Failed \/ ReceiveFails
    \/ \E t \in Timer : Handler(t)

Spec == Init /\ [][Next]_vars

\* The main queue gets on with a block it has begun, and timers fire.
FairSpec ==
    /\ Spec
    /\ WF_vars(HandleWelcome \/ SendAck \/ StartTimer \/ KeepTimer)
    /\ \A t \in Timer : WF_vars(Handler(t))

-----------------------------------------------------------------------------
(* Properties.                                                             *)

TypeOK ==
    /\ connection \in {"setup", "ready", "failed", "cancelled"}
    /\ loop \in {"off", "pending", "handle", "ack", "start", "keep"}
    /\ datagram \in Message
    /\ clientID \in Nat /\ seqNum \in Nat
    /\ timer \in Timer \union {0} /\ live \subseteq Timer
    /\ handler \in [Timer -> [pc: {"idle", "send", "load", "store"}, packet: Packet, tmp: Nat]]
    /\ tries \in Seq([packet: Packet, ok: BOOLEAN])
    /\ welcomes \in Nat /\ granted \subseteq Id
    /\ ticks \in Nat /\ receives \in Nat

ProbeAt(n) == tries[n].packet.kind = "probe"

ProbesBefore(n) == {k \in 1 .. n - 1 : ProbeAt(k)}

\* With one init response there is one timer, and the probes are numbered
\* 0, 1, 2, ... although seqNum += 1 is not atomic.
NumberedUntilSecondWelcome ==
    welcomes <= 1 =>
        \A n \in 1 .. Len(tries) : ProbeAt(n) => tries[n].packet.seq = Cardinality(ProbesBefore(n))

\* A probe carries an id of an init response, never the initial clientID, and
\* follows an acknowledgement; the id is the acknowledged one as long as there
\* was one init response.
ProbesAcknowledged ==
    \A n \in 1 .. Len(tries) : ProbeAt(n) =>
        /\ tries[n].packet.id \in granted
        /\ \E k \in 1 .. n - 1 :
            /\ tries[k].packet.kind = "ack"
            /\ welcomes <= 1 => tries[k].packet.id = tries[n].packet.id

\* A report speaks of a probe that was sent.
ReportsMatchProbe ==
    \A n \in 1 .. Len(tries) : tries[n].packet.kind = "report" =>
        \E k \in 1 .. n - 1 : ProbeAt(k) /\ tries[k].ok /\ tries[k].packet.seq = tries[n].packet.seq

\* What the client sends makes sense to the server, however often and in whatever
\* order its datagrams are delivered.
PacketsInOrder == TypeOK /\ NumberedUntilSecondWelcome /\ ProbesAcknowledged /\ ReportsMatchProbe

\* Replaced timers do not add up: outside of a block of the main queue at most
\* one fires, and after disconnect() none does.
OneTimer ==
    loop \in {"pending", "off", "handle"} =>
        /\ live \subseteq {timer}
        /\ connection = "cancelled" => live = {}

\* An accepted init response leads to a probe, unless the connection ends.
WelcomeLeadsToProbe ==
    loop = "ack" ~> \/ \E n \in 1 .. Len(tries) : ProbeAt(n)
                    \/ connection # "ready"
=============================================================================
