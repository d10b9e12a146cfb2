-------------------------- MODULE IosClientProofs --------------------------
(***************************************************************************)
(* Proofs about IosClient, for any set of client_ids and any number of     *)
(* timers, handler runs and datagrams.                                     *)
(***************************************************************************)
EXTENDS IosClient, FiniteSetTheorems, TLAPS

Try == [packet: Packet, ok: BOOLEAN]

HandlerState == [pc: {"idle", "send", "load", "store"}, packet: Packet, tmp: Nat]

\* Packets, and what makes them.
LEMMA PacketType ==
    \A k \in {"hello", "ack", "probe", "report"}, i \in Nat, n \in Nat :
        /\ Pkt(k, i, n) \in Packet
        /\ Pkt(k, i, n).kind = k /\ Pkt(k, i, n).id = i /\ Pkt(k, i, n).seq = n
  BY DEF Pkt, Packet

\* What handing p to the connection does, whether or not it is taken.
Tried(p) ==
    /\ tries' \in Seq(Try)
    /\ Len(tries) \in Nat /\ Len(tries') = Len(tries) + 1
    /\ \A n \in 1 .. Len(tries) : tries'[n] = tries[n]
    /\ tries'[Len(tries) + 1].packet = p

LEMMA Sends ==
    ASSUME TypeOK, NEW p \in Packet, Send(p)
    PROVE  Tried(p)
<1>1. [packet |-> p, ok |-> connection = "ready"] \in Try /\ tries \in Seq(Try)
  BY DEF Try, TypeOK
<1>2. tries' = Append(tries, [packet |-> p, ok |-> connection = "ready"])
  BY DEF Send
<1> QED
  BY <1>1, <1>2 DEF Tried

\* Entries of the history.
LEMMA Places ==
    ASSUME TypeOK
    PROVE  /\ Len(tries) \in Nat
           /\ \A n \in 1 .. Len(tries) :
                n \in Nat /\ tries[n] \in Try /\ tries[n].packet \in Packet /\ tries[n].packet.seq \in Nat
<1>1. tries \in Seq(Try)
  BY DEF TypeOK, Try
<1>2. \A n \in 1 .. Len(tries) : tries[n] \in Try
  BY <1>1
<1> QED
  BY <1>1, <1>2 DEF Try, Packet

\* An answer is a message.
LEMMA ReceivableType ==
    ASSUME TypeOK, NEW m \in Receivable
    PROVE  m \in Message
  BY Places DEF Receivable, Sent, Message

\* Setting two fields of a handler's state.
LEMMA WithPacket ==
    ASSUME NEW h \in HandlerState, NEW l, NEW p
    PROVE  [h EXCEPT !.pc = l, !.packet = p] = [pc |-> l, packet |-> p, tmp |-> h.tmp]
<1> DEFINE g == [h EXCEPT !.pc = l]
<1>1. g = [pc |-> l, packet |-> h.packet, tmp |-> h.tmp]
  BY DEF HandlerState
<1>2. [h EXCEPT !.pc = l, !.packet = p] = [g EXCEPT !.packet = p]
  OBVIOUS
<1> HIDE DEF g
<1>3. [g EXCEPT !.packet = p] = [pc |-> l, packet |-> p, tmp |-> h.tmp]
  BY <1>1
<1> QED
  BY <1>2, <1>3

LEMMA WithTmp ==
    ASSUME NEW h \in HandlerState, NEW l, NEW n
    PROVE  [h EXCEPT !.pc = l, !.tmp = n] = [pc |-> l, packet |-> h.packet, tmp |-> n]
<1> DEFINE g == [h EXCEPT !.pc = l]
<1>1. g = [pc |-> l, packet |-> h.packet, tmp |-> h.tmp]
  BY DEF HandlerState
<1>2. [h EXCEPT !.pc = l, !.tmp = n] = [g EXCEPT !.tmp = n]
  OBVIOUS
<1> HIDE DEF g
<1>3. [g EXCEPT !.tmp = n] = [pc |-> l, packet |-> h.packet, tmp |-> n]
  BY <1>1
<1> QED
  BY <1>2, <1>3

\* The four steps of the handler of timer t.
LEMMA HandlerSteps ==
    ASSUME TypeOK, NEW t \in Timer
    PROVE  /\ Tick(t) =>
                /\ handler[t].pc = "idle" /\ t \in live
                /\ handler'[t] = [pc |-> "send", packet |-> Pkt("probe", clientID, seqNum), tmp |-> handler[t].tmp]
           /\ SendProbe(t) =>
                /\ handler[t].pc = "send"
                /\ handler'[t] = [pc |-> "load", packet |-> handler[t].packet, tmp |-> handler[t].tmp]
           /\ LoadSeq(t) =>
                /\ handler[t].pc = "load"
                /\ handler'[t] = [pc |-> "store", packet |-> handler[t].packet, tmp |-> seqNum]
           /\ StoreSeq(t) =>
                /\ handler[t].pc = "store"
                /\ handler'[t] = Idle
           /\ Handler(t) => /\ handler' \in [Timer -> HandlerState]
                            /\ \A u \in Timer : u # t => handler'[u] = handler[u]
<1> DEFINE h == handler[t]
<1>1. handler \in [Timer -> HandlerState] /\ h \in HandlerState /\ clientID \in Nat /\ seqNum \in Nat
  BY DEF TypeOK, HandlerState
<1>2. /\ Idle \in HandlerState /\ Pkt("probe", clientID, seqNum) \in Packet
      /\ h.packet \in Packet /\ h.tmp \in Nat
  BY <1>1, PacketType DEF Idle, HandlerState
<1>3. ASSUME Tick(t)
      PROVE  /\ handler[t].pc = "idle" /\ t \in live
             /\ handler'[t] = [pc |-> "send", packet |-> Pkt("probe", clientID, seqNum), tmp |-> handler[t].tmp]
             /\ handler' \in [Timer -> HandlerState]
             /\ \A u \in Timer : u # t => handler'[u] = handler[u]
  <2> DEFINE e == [h EXCEPT !.pc = "send", !.packet = Pkt("probe", clientID, seqNum)]
  <2>1. handler' = [handler EXCEPT ![t] = e]
    BY <1>3 DEF Tick
  <2>2. e = [pc |-> "send", packet |-> Pkt("probe", clientID, seqNum), tmp |-> h.tmp]
    BY <1>1, WithPacket
  <2> HIDE DEF e, h
  <2>3. e \in HandlerState
    BY <1>2, <2>2 DEF HandlerState
  <2> QED
    BY <1>1, <1>3, <2>1, <2>2, <2>3 DEF Tick, h
<1>4. ASSUME SendProbe(t)
      PROVE  /\ handler[t].pc = "send"
             /\ handler'[t] = [pc |-> "load", packet |-> handler[t].packet, tmp |-> handler[t].tmp]
             /\ handler' \in [Timer -> HandlerState]
             /\ \A u \in Timer : u # t => handler'[u] = handler[u]
  <2> DEFINE e == [h EXCEPT !.pc = "load"]
  <2>1. handler' = [handler EXCEPT ![t] = e]
    BY <1>4 DEF SendProbe
  <2>2. e = [pc |-> "load", packet |-> h.packet, tmp |-> h.tmp] /\ e \in HandlerState
    BY <1>1, <1>2 DEF HandlerState
  <2> HIDE DEF e
  <2> QED
    BY <1>1, <1>4, <2>1, <2>2 DEF SendProbe, h
<1>5. ASSUME LoadSeq(t)
      PROVE  /\ handler[t].pc = "load"
             /\ handler'[t] = [pc |-> "store", packet |-> handler[t].packet, tmp |-> seqNum]
             /\ handler' \in [Timer -> HandlerState]
             /\ \A u \in Timer : u # t => handler'[u] = handler[u]
  <2> DEFINE e == [h EXCEPT !.pc = "store", !.tmp = seqNum]
  <2>1. handler' = [handler EXCEPT ![t] = e]
    BY <1>5 DEF LoadSeq
  <2>2. e = [pc |-> "store", packet |-> h.packet, tmp |-> seqNum]
    BY <1>1, WithTmp
  <2> HIDE DEF e, h
  <2>3. e \in HandlerState
    BY <1>1, <1>2, <2>2 DEF HandlerState
  <2> QED
    BY <1>1, <1>5, <2>1, <2>2, <2>3 DEF LoadSeq, h
<1>6. ASSUME StoreSeq(t)
      PROVE  /\ handler[t].pc = "store"
             /\ handler'[t] = Idle
             /\ handler' \in [Timer -> HandlerState]
             /\ \A u \in Timer : u # t => handler'[u] = handler[u]
  BY <1>1, <1>2, <1>6 DEF StoreSeq
<1> QED
  BY <1>3, <1>4, <1>5, <1>6 DEF Handler

\* Only its handler changes the state of a timer's handler.
LEMMA OthersKeepHandlers ==
    ASSUME [Next]_vars, ~ \E t \in Timer : Handler(t)
    PROVE  UNCHANGED <<handler, seqNum, ticks>>
  BY DEF Next, MainQueue, Ready, Receive, HandleWelcome, SendAck, StartTimer, KeepTimer, HandleRefused, HandleEcho,
         HandleBye, Failed, ReceiveFails, vars, timerVars, countVars

-----------------------------------------------------------------------------
(* Types, and the number of init responses.                                *)

\* Each init response that was handled was received, and a timer is made of it.
WelcomeInv ==
    /\ receives <= MaxReceives
    /\ welcomes + (IF loop = "handle" THEN 1 ELSE 0) <= receives
    /\ loop \in {"ack", "start", "keep"} => welcomes \in Timer

Typed == TypeOK /\ WelcomeInv

LEMMA WelcomeInductive == TypeOK /\ WelcomeInv /\ [Next]_vars => WelcomeInv'
<1> SUFFICES ASSUME TypeOK, WelcomeInv, [Next]_vars PROVE WelcomeInv'
  OBVIOUS
<1>1. welcomes \in Nat /\ receives \in Nat /\ MaxReceives \in Nat
  BY IosAssumption DEF TypeOK
<1>2. ASSUME NEW m \in Receivable, Receive(m) PROVE WelcomeInv'
  BY <1>1, <1>2 DEF Receive, WelcomeInv, Timer
<1>3. CASE HandleWelcome
  BY <1>1, <1>3 DEF HandleWelcome, WelcomeInv, Timer
<1>4. CASE Ready \/ SendAck \/ StartTimer \/ KeepTimer \/ HandleRefused \/ HandleEcho \/ HandleBye \/ ReceiveFails
  <2>1. UNCHANGED <<welcomes, receives>> /\ loop' # "handle"
        /\ (loop' \in {"ack", "start", "keep"} => loop \in {"ack", "start", "keep"})
    BY <1>4 DEF Ready, SendAck, StartTimer, KeepTimer, HandleRefused, HandleEcho, HandleBye, ReceiveFails, countVars
  <2> QED
    BY <1>1, <2>1 DEF WelcomeInv, Timer
<1>5. CASE Failed \/ UNCHANGED vars \/ \E t \in Timer : Handler(t)
  <2>1. UNCHANGED <<welcomes, receives, loop>>
    BY <1>5 DEF Failed, vars, mainVars, countVars, Handler, Tick, SendProbe, LoadSeq, StoreSeq
  <2> QED
    BY <2>1 DEF WelcomeInv, Timer
<1> QED
  BY <1>2, <1>3, <1>4, <1>5 DEF Next, MainQueue

\* What a step hands to the connection.
TriesStep ==
    \/ UNCHANGED tries
    \/ \E p \in Packet :
        /\ Tried(p)
        /\ \/ p.kind = "hello"
           \/ SendAck /\ p.kind = "ack" /\ p.id = clientID
           \/ p.kind = "report" /\ loop = "handle" /\ datagram.type = "echo" /\ p.seq = datagram.seq
           \/ \E t \in Timer : SendProbe(t) /\ p = handler[t].packet

LEMMA StepTries == TypeOK /\ [Next]_vars => TriesStep
<1> SUFFICES ASSUME TypeOK, [Next]_vars PROVE TriesStep
  OBVIOUS
<1>1. clientID \in Nat /\ Id \subseteq Nat
  BY IosAssumption DEF TypeOK
<1>2. CASE Ready
  <2>1. Pkt("hello", 0, 0) \in Packet /\ Pkt("hello", 0, 0).kind = "hello"
    BY PacketType
  <2>2. tries' = Append(tries, [packet |-> Pkt("hello", 0, 0), ok |-> TRUE])
        /\ [packet |-> Pkt("hello", 0, 0), ok |-> TRUE] \in Try /\ tries \in Seq(Try)
    BY <1>2, <2>1 DEF Ready, Try, TypeOK
  <2>3. Tried(Pkt("hello", 0, 0))
    BY <2>2 DEF Tried
  <2> QED
    BY <2>1, <2>3 DEF TriesStep
<1>3. CASE SendAck
  <2>1. Pkt("ack", clientID, 0) \in Packet /\ Pkt("ack", clientID, 0).kind = "ack" /\ Pkt("ack", clientID, 0).id = clientID
    BY <1>1, PacketType
  <2>2. Tried(Pkt("ack", clientID, 0))
    BY <1>3, <2>1, Sends DEF SendAck
  <2> QED
    BY <1>3, <2>1, <2>2 DEF TriesStep
<1>4. CASE HandleEcho
  <2>1. loop = "handle" /\ datagram.type = "echo" /\ datagram.seq \in Nat
    BY <1>4 DEF HandleEcho, TypeOK, Message
  <2>2. PICK i \in Id \union {0} : Send(Pkt("report", i, datagram.seq))
    BY <1>4 DEF HandleEcho
  <2>3. Pkt("report", i, datagram.seq) \in Packet
        /\ Pkt("report", i, datagram.seq).kind = "report" /\ Pkt("report", i, datagram.seq).seq = datagram.seq
    BY <1>1, <2>1, PacketType
  <2>4. Tried(Pkt("report", i, datagram.seq))
    BY <2>2, <2>3, Sends
  <2> QED
    BY <2>1, <2>3, <2>4 DEF TriesStep
<1>5. ASSUME NEW t \in Timer, SendProbe(t) PROVE TriesStep
  <2>1. handler[t].packet \in Packet
    BY DEF TypeOK
  <2>2. Tried(handler[t].packet)
    BY <1>5, <2>1, Sends DEF SendProbe
  <2> QED
    BY <1>5, <2>1, <2>2 DEF TriesStep
<1>6. CASE Failed \/ ReceiveFails \/ HandleWelcome \/ StartTimer \/ KeepTimer \/ HandleRefused \/ HandleBye
           \/ UNCHANGED vars
  BY <1>6 DEF Failed, ReceiveFails, HandleWelcome, StartTimer, KeepTimer, HandleRefused, HandleBye, vars, TriesStep
<1>7. ASSUME NEW m \in Receivable, Receive(m) PROVE TriesStep
  BY <1>7 DEF Receive, TriesStep
<1>8. ASSUME NEW t \in Timer, Tick(t) \/ LoadSeq(t) \/ StoreSeq(t) PROVE TriesStep
  BY <1>8 DEF Tick, LoadSeq, StoreSeq, TriesStep
<1> QED
  BY <1>2, <1>3, <1>4, <1>5, <1>6, <1>7, <1>8 DEF Next, MainQueue, Handler

LEMMA TypedAlways == Spec => []Typed
<1>1. Init => Typed
  <2> SUFFICES ASSUME Init PROVE Typed
    OBVIOUS
  <2>1. Idle \in HandlerState
    BY PacketType DEF Idle, HandlerState
  <2>2. handler \in [Timer -> HandlerState] /\ datagram \in Message /\ tries \in Seq(Try)
    BY <2>1 DEF Init, Message
  <2>3. WelcomeInv
    BY IosAssumption DEF Init, WelcomeInv
  <2> QED
    BY <2>2, <2>3 DEF Init, Typed, TypeOK, HandlerState, Try
<1>2. Typed /\ [Next]_vars => Typed'
  <2> SUFFICES ASSUME TypeOK, WelcomeInv, [Next]_vars PROVE TypeOK'
    BY WelcomeInductive DEF Typed
  <2>1. tries' \in Seq(Try)
    BY StepTries DEF TriesStep, Tried, TypeOK, Try
  <2>2. handler' \in [Timer -> HandlerState]
    BY HandlerSteps, OthersKeepHandlers DEF TypeOK, HandlerState
  <2>3. /\ connection' \in {"setup", "ready", "failed", "cancelled"}
        /\ loop' \in {"off", "pending", "handle", "ack", "start", "keep"}
        /\ datagram' \in Message
        /\ clientID' \in Nat /\ seqNum' \in Nat
        /\ timer' \in Timer \union {0} /\ live' \subseteq Timer
        /\ welcomes' \in Nat /\ granted' \subseteq Id
        /\ ticks' \in Nat /\ receives' \in Nat
    <3>1. CASE Ready \/ Failed \/ ReceiveFails \/ SendAck \/ HandleRefused \/ HandleEcho \/ HandleBye \/ UNCHANGED vars
      BY <3>1 DEF TypeOK, Ready, Failed, ReceiveFails, SendAck, HandleRefused, HandleEcho, HandleBye, vars,
                  mainVars, timerVars, countVars
    <3>2. CASE StartTimer \/ KeepTimer
      BY <3>2 DEF TypeOK, WelcomeInv, StartTimer, KeepTimer, countVars
    <3>3. CASE HandleWelcome
      <4>1. datagram.id \in Id /\ datagram.id \in Nat
        BY <3>3, IosAssumption DEF HandleWelcome, TypeOK, Message
      <4> QED
        BY <3>3, <4>1 DEF TypeOK, HandleWelcome, timerVars
    <3>4. ASSUME NEW m \in Receivable, Receive(m)
          PROVE  /\ connection' \in {"setup", "ready", "failed", "cancelled"}
                 /\ loop' \in {"off", "pending", "handle", "ack", "start", "keep"}
                 /\ datagram' \in Message
                 /\ clientID' \in Nat /\ seqNum' \in Nat
                 /\ timer' \in Timer \union {0} /\ live' \subseteq Timer
                 /\ welcomes' \in Nat /\ granted' \subseteq Id
                 /\ ticks' \in Nat /\ receives' \in Nat
      BY <3>4, ReceivableType DEF TypeOK, Receive, timerVars
    <3>5. ASSUME NEW t \in Timer, Handler(t)
          PROVE  /\ UNCHANGED <<mainVars, clientID, timer, live, welcomes, granted, receives>>
                 /\ seqNum' \in Nat /\ ticks' \in Nat
      BY <3>5 DEF TypeOK, Handler, Tick, SendProbe, LoadSeq, StoreSeq, mainVars, countVars
    <3> QED
      BY <3>1, <3>2, <3>3, <3>4, <3>5 DEF Next, MainQueue, TypeOK, mainVars
  <2> QED
    BY <2>1, <2>2, <2>3 DEF TypeOK, Try, HandlerState
<1> QED
  BY <1>1, <1>2, PTL DEF Spec

\* Every variable keeps its type: there is a timer for each init response that
\* can be received.
THEOREM TypeCorrect == Spec => []TypeOK
<1>1. Typed => TypeOK
  BY DEF Typed
<1> QED
  BY <1>1, TypedAlways, PTL

-----------------------------------------------------------------------------
(* The timers that may fire.                                               *)

\* self.timer and, while it is being replaced, the timer that replaces it.  A
\* connection that is not yet up, or cancelled, handles no datagram.
TimerInv ==
    /\ loop # "keep" => live \subseteq {timer}
    /\ loop = "keep" => live \subseteq {timer, welcomes}
    /\ connection = "setup" => loop = "off"
    /\ connection = "cancelled" => live = {} /\ loop \in {"off", "pending"}

LEMMA TimerInductive == TypeOK /\ TimerInv /\ [Next]_vars => TimerInv'
<1> SUFFICES ASSUME TypeOK, TimerInv, [Next]_vars PROVE TimerInv'
  OBVIOUS
<1>1. CASE StartTimer \/ KeepTimer
  BY <1>1 DEF StartTimer, KeepTimer, TimerInv, countVars
<1>2. CASE HandleBye
  BY <1>2 DEF HandleBye, TimerInv
<1>3. CASE Ready \/ HandleWelcome \/ SendAck \/ HandleRefused \/ HandleEcho \/ Failed \/ ReceiveFails
  BY <1>3 DEF Ready, HandleWelcome, SendAck, HandleRefused, HandleEcho, Failed, ReceiveFails, TimerInv, timerVars,
              countVars
<1>4. ASSUME NEW m \in Receivable, Receive(m) PROVE TimerInv'
  BY <1>4 DEF Receive, TimerInv, timerVars
<1>5. CASE UNCHANGED vars \/ \E t \in Timer : Handler(t)
  <2>1. UNCHANGED <<connection, loop, timer, live, welcomes>>
    BY <1>5 DEF vars, mainVars, timerVars, countVars, Handler, Tick, SendProbe, LoadSeq, StoreSeq
  <2> QED
    BY <2>1 DEF TimerInv
<1> QED
  BY <1>1, <1>2, <1>3, <1>4, <1>5 DEF Next, MainQueue

\* Replaced timers do not add up, and disconnect() leaves none, though the timers
\* run in parallel with the main queue that replaces them.
THEOREM TimersDoNotAddUp == Spec => []OneTimer
<1>1. Init => TimerInv
  BY DEF Init, TimerInv
<1>2. TimerInv => OneTimer
  BY DEF TimerInv, OneTimer
<1> QED
  BY <1>1, <1>2, TypeCorrect, TimerInductive, PTL DEF Spec

-----------------------------------------------------------------------------
(* What is sent, and in which order.                                       *)

\* What was handed to the connection stays in the history.
LEMMA TriesGrow ==
    TypeOK /\ [Next]_vars =>
        /\ Len(tries) \in Nat
        /\ \A n \in 1 .. Len(tries) : n \in 1 .. Len(tries') /\ tries'[n] = tries[n]
<1> SUFFICES ASSUME TypeOK, [Next]_vars
             PROVE  /\ Len(tries) \in Nat
                    /\ \A n \in 1 .. Len(tries) : n \in 1 .. Len(tries') /\ tries'[n] = tries[n]
  OBVIOUS
<1>1. Len(tries) \in Nat
  BY Places
<1>2. CASE UNCHANGED tries
  BY <1>1, <1>2
<1>3. ASSUME NEW p \in Packet, Tried(p)
      PROVE  \A n \in 1 .. Len(tries) : n \in 1 .. Len(tries') /\ tries'[n] = tries[n]
  <2>1. Len(tries') = Len(tries) + 1 /\ \A n \in 1 .. Len(tries) : tries'[n] = tries[n]
    BY <1>3 DEF Tried
  <2> QED
    BY <1>1, <2>1
<1> QED
  BY <1>1, <1>2, <1>3, StepTries DEF TriesStep

\* Init responses add up, and so do the ids in them.
LEMMA WelcomesGrow ==
    TypeOK /\ [Next]_vars =>
        /\ granted \subseteq granted'
        /\ \/ UNCHANGED <<welcomes, clientID, granted>>
           \/ HandleWelcome /\ welcomes' = welcomes + 1
        /\ welcomes' <= 1 => welcomes' = welcomes \/ welcomes = 0
        /\ welcomes' <= 1 => welcomes <= 1
<1> SUFFICES ASSUME TypeOK, [Next]_vars
             PROVE  /\ granted \subseteq granted'
                    /\ \/ UNCHANGED <<welcomes, clientID, granted>>
                       \/ HandleWelcome /\ welcomes' = welcomes + 1
  BY DEF TypeOK
<1>1. CASE HandleWelcome
  BY <1>1 DEF HandleWelcome
<1>2. CASE ~HandleWelcome
  BY <1>2 DEF Next, MainQueue, Ready, Receive, SendAck, StartTimer, KeepTimer, HandleRefused, HandleEcho, HandleBye,
              Failed, ReceiveFails, Handler, Tick, SendProbe, LoadSeq, StoreSeq, vars, countVars
<1> QED
  BY <1>1, <1>2

\* A handler that is about to send has just built the packet, or had it before.
LEMMA HandlerStays ==
    ASSUME TypeOK, [Next]_vars, NEW t \in Timer, handler'[t].pc = "send", ~Tick(t)
    PROVE  handler'[t] = handler[t]
<1>1. CASE ~ \E u \in Timer : Handler(u)
  BY <1>1, OthersKeepHandlers
<1>2. ASSUME NEW u \in Timer, Handler(u), u # t PROVE handler'[t] = handler[t]
  BY <1>2, HandlerSteps
<1>3. CASE SendProbe(t)
  <2>1. handler'[t] = [pc |-> "load", packet |-> handler[t].packet, tmp |-> handler[t].tmp]
    BY <1>3, HandlerSteps
  <2> QED
    BY <2>1
<1>4. CASE LoadSeq(t)
  <2>1. handler'[t] = [pc |-> "store", packet |-> handler[t].packet, tmp |-> seqNum]
    BY <1>4, HandlerSteps
  <2> QED
    BY <2>1
<1>5. CASE StoreSeq(t)
  <2>1. handler'[t] = Idle
    BY <1>5, HandlerSteps
  <2> QED
    BY <2>1 DEF Idle
<1> QED
  BY <1>1, <1>2, <1>3, <1>4, <1>5 DEF Handler

\* An acknowledgement was sent, of id i if there was but one init response.
Acked(i) ==
    \E k \in 1 .. Len(tries) : tries[k].packet.kind = "ack" /\ (welcomes <= 1 => tries[k].packet.id = i)

\* A timer fires only after an acknowledgement, and what its handler is about to
\* send carries a granted id.
AckInv ==
    /\ ProbesAcknowledged
    /\ welcomes > 0 => clientID \in granted
    /\ welcomes = 0 => granted = {}
    /\ loop \in {"start", "keep"} \/ live # {} => welcomes > 0 /\ Acked(clientID)
    /\ \A t \in Timer : handler[t].pc = "send" =>
        /\ handler[t].packet.kind = "probe"
        /\ handler[t].packet.id \in granted
        /\ Acked(handler[t].packet.id)

\* Acknowledgements stay, whichever id they are for once there are two init
\* responses.
LEMMA AckedStays ==
    ASSUME TypeOK, [Next]_vars, NEW i, NEW j, Acked(i), (i = j /\ welcomes' = welcomes) \/ welcomes' > 1
    PROVE  Acked(j)'
<1>1. PICK k \in 1 .. Len(tries) : tries[k].packet.kind = "ack" /\ (welcomes <= 1 => tries[k].packet.id = i)
  BY DEF Acked
<1>2. k \in 1 .. Len(tries') /\ tries'[k] = tries[k]
  BY TriesGrow
<1>3. welcomes' <= 1 => tries'[k].packet.id = j
  <2>1. CASE i = j /\ welcomes' = welcomes
    BY <1>1, <1>2, <2>1
  <2>2. CASE welcomes' > 1
    <3>1. welcomes' \in Nat
      BY WelcomesGrow DEF TypeOK
    <3> QED
      BY <2>2, <3>1
  <2> QED
    BY <2>1, <2>2
<1> QED
  BY <1>1, <1>2, <1>3 DEF Acked

LEMMA AckInductive == Typed /\ AckInv /\ [Next]_vars => AckInv'
<1> SUFFICES ASSUME TypeOK, WelcomeInv, AckInv, [Next]_vars PROVE AckInv'
  BY DEF Typed
<1>1. /\ granted \subseteq granted' /\ welcomes \in Nat /\ welcomes' \in Nat
      /\ welcomes' = welcomes \/ welcomes' = welcomes + 1
  BY WelcomesGrow DEF TypeOK
<1>2. ASSUME NEW i, Acked(i), granted # {} \/ welcomes > 0
      PROVE  Acked(i)'
  <2>1. welcomes > 0
    BY <1>1, <1>2 DEF AckInv
  <2>2. welcomes' = welcomes \/ welcomes' > 1
    BY <1>1, <2>1
  <2> QED
    BY <1>2, <2>2, AckedStays
<1>3. (\A t \in Timer : handler[t].pc = "send" =>
          /\ handler[t].packet.kind = "probe"
          /\ handler[t].packet.id \in granted
          /\ Acked(handler[t].packet.id))'
  <2> SUFFICES ASSUME NEW t \in Timer, handler'[t].pc = "send"
               PROVE  /\ handler'[t].packet.kind = "probe"
                      /\ handler'[t].packet.id \in granted'
                      /\ \A i : i = handler'[t].packet.id => Acked(i)'
    BY DEF Acked
  <2>1. CASE Tick(t)
    <3>0. handler'[t] = [pc |-> "send", packet |-> Pkt("probe", clientID, seqNum), tmp |-> handler[t].tmp]
          /\ t \in live
      BY <2>1, HandlerSteps
    <3>1. handler'[t].packet = Pkt("probe", clientID, seqNum) /\ t \in live
      BY <3>0
    <3>2. Pkt("probe", clientID, seqNum).kind = "probe" /\ Pkt("probe", clientID, seqNum).id = clientID
      BY PacketType DEF TypeOK
    <3>3. welcomes > 0 /\ clientID \in granted /\ \A i : i = clientID => Acked(i)
      BY <3>1 DEF AckInv
    <3> QED
      BY <1>1, <1>2, <3>1, <3>2, <3>3
  <2>2. CASE ~Tick(t)
    <3>1. handler'[t] = handler[t]
      BY <2>2, HandlerStays
    <3>2. /\ handler[t].packet.kind = "probe" /\ handler[t].packet.id \in granted
          /\ \A i : i = handler[t].packet.id => Acked(i)
      BY <3>1 DEF AckInv
    <3> QED
      BY <1>1, <1>2, <3>1, <3>2
  <2> QED
    BY <2>1, <2>2
<1>4. (welcomes > 0 => clientID \in granted)' /\ (welcomes = 0 => granted = {})'
  <2>1. CASE HandleWelcome
    BY <1>1, <2>1 DEF HandleWelcome
  <2>2. CASE ~HandleWelcome
    BY <2>2, WelcomesGrow DEF AckInv
  <2> QED
    BY <2>1, <2>2
<1>5. (loop \in {"start", "keep"} \/ live # {} => welcomes > 0 /\ Acked(clientID))'
  <2> SUFFICES ASSUME loop' \in {"start", "keep"} \/ live' # {}
               PROVE  welcomes' > 0 /\ \A i : i = clientID' => Acked(i)'
    BY DEF Acked
  <2>1. ASSUME loop \in {"start", "keep"} \/ live # {}
        PROVE  welcomes' > 0 /\ \A i : i = clientID' => Acked(i)'
    <3>1. welcomes > 0 /\ \A i : i = clientID => Acked(i)
      BY <2>1 DEF AckInv
    <3>2. welcomes' > 0
      BY <1>1, <3>1
    <3>3. CASE HandleWelcome
      <4>1. welcomes' > 1
        BY <1>1, <3>1, <3>3 DEF HandleWelcome
      <4> QED
        BY <3>1, <3>2, <4>1, AckedStays
    <3>4. CASE ~HandleWelcome
      BY <1>2, <3>1, <3>2, <3>4, WelcomesGrow
    <3> QED
      BY <3>3, <3>4
  <2>2. CASE SendAck
    <3>1. welcomes' = welcomes /\ clientID' = clientID /\ welcomes > 0
      BY <1>1, <2>2 DEF SendAck, countVars, WelcomeInv, Timer
    <3>2. Pkt("ack", clientID, 0) \in Packet /\ Pkt("ack", clientID, 0).kind = "ack" /\ Pkt("ack", clientID, 0).id = clientID
      BY PacketType DEF TypeOK
    <3>3. Tried(Pkt("ack", clientID, 0))
      BY <2>2, <3>2, Sends DEF SendAck
    <3>4. Len(tries) + 1 \in 1 .. Len(tries') /\ tries'[Len(tries) + 1].packet = Pkt("ack", clientID, 0)
      BY <3>3 DEF Tried
    <3>5. \A i : i = clientID' => Acked(i)'
      BY <3>1, <3>2, <3>4 DEF Acked
    <3> QED
      BY <3>1, <3>5
  <2>3. CASE Ready \/ Failed \/ ReceiveFails \/ HandleWelcome \/ StartTimer \/ KeepTimer \/ HandleRefused \/ HandleEcho
             \/ HandleBye \/ UNCHANGED vars
    <3>1. loop \in {"start", "keep"} \/ live # {}
      BY <2>3 DEF Ready, Failed, ReceiveFails, HandleWelcome, StartTimer, KeepTimer, HandleRefused, HandleEcho, HandleBye,
                  vars, mainVars, timerVars
    <3> QED
      BY <2>1, <3>1
  <2>4. ASSUME NEW m \in Receivable, Receive(m) PROVE loop \in {"start", "keep"} \/ live # {}
    BY <2>4 DEF Receive, timerVars
  <2>5. ASSUME NEW t \in Timer, Handler(t) PROVE loop \in {"start", "keep"} \/ live # {}
    BY <2>5 DEF Handler, Tick, SendProbe, LoadSeq, StoreSeq, mainVars
  <2> QED
    BY <2>1, <2>2, <2>3, <2>4, <2>5 DEF Next, MainQueue
<1>6. ProbesAcknowledged'
  <2>1. ASSUME NEW n \in 1 .. Len(tries), ProbeAt(n)
        PROVE  /\ tries'[n] = tries[n] /\ tries[n].packet.id \in granted'
               /\ \E k \in 1 .. n - 1 :
                    /\ tries'[k].packet.kind = "ack"
                    /\ welcomes' <= 1 => tries'[k].packet.id = tries'[n].packet.id
    <3>1. tries[n].packet.id \in granted
      BY <2>1 DEF AckInv, ProbesAcknowledged
    <3>2. PICK k \in 1 .. n - 1 : /\ tries[k].packet.kind = "ack"
                                  /\ welcomes <= 1 => tries[k].packet.id = tries[n].packet.id
      BY <2>1 DEF AckInv, ProbesAcknowledged
    <3>3. k \in 1 .. Len(tries)
      BY Places
    <3>4. tries'[k] = tries[k] /\ tries'[n] = tries[n]
      BY <3>3, TriesGrow
    <3>5. welcomes # 0
      BY <3>1 DEF AckInv
    <3>6. welcomes' <= 1 => welcomes' = welcomes
      BY <1>1, <3>5
    <3> QED
      BY <1>1, <3>1, <3>2, <3>4, <3>6
  <2>2. CASE UNCHANGED tries
    BY <2>1, <2>2 DEF ProbesAcknowledged, ProbeAt
  <2>3. ASSUME NEW p \in Packet, Tried(p),
               p.kind = "probe" => p.id \in granted' /\ Acked(p.id) /\ welcomes' = welcomes
        PROVE  ProbesAcknowledged'
    <3> SUFFICES ASSUME NEW n \in 1 .. Len(tries'), tries'[n].packet.kind = "probe"
                 PROVE  /\ tries'[n].packet.id \in granted'
                        /\ \E k \in 1 .. n - 1 :
                            /\ tries'[k].packet.kind = "ack"
                            /\ welcomes' <= 1 => tries'[k].packet.id = tries'[n].packet.id
      BY DEF ProbesAcknowledged, ProbeAt
    <3>1. /\ Len(tries) \in Nat /\ Len(tries') = Len(tries) + 1
          /\ \A m \in 1 .. Len(tries) : tries'[m] = tries[m]
          /\ tries'[Len(tries) + 1].packet = p
      BY <2>3 DEF Tried
    <3>2. CASE n \in 1 .. Len(tries)
      BY <2>1, <3>1, <3>2 DEF ProbeAt
    <3>3. CASE n = Len(tries) + 1
      <4>1. p.kind = "probe" /\ tries'[n].packet = p /\ n - 1 = Len(tries)
        BY <3>1, <3>3
      <4>2. p.id \in granted' /\ Acked(p.id) /\ welcomes' = welcomes
        BY <2>3, <4>1
      <4>3. PICK k \in 1 .. Len(tries) : tries[k].packet.kind = "ack" /\ (welcomes <= 1 => tries[k].packet.id = p.id)
        BY <4>2 DEF Acked
      <4>4. tries'[k] = tries[k] /\ k \in 1 .. n - 1
        BY <3>1, <4>1
      <4> QED
        BY <4>1, <4>2, <4>3, <4>4
    <3> QED
      BY <3>1, <3>2, <3>3
  <2>4. ASSUME NEW t \in Timer, SendProbe(t)
        PROVE  /\ handler[t].packet.id \in granted' /\ Acked(handler[t].packet.id) /\ welcomes' = welcomes
    <3>1. handler[t].pc = "send" /\ welcomes' = welcomes
      BY <2>4 DEF SendProbe, countVars
    <3> QED
      BY <1>1, <3>1 DEF AckInv
  <2> QED
    BY <2>2, <2>3, <2>4, StepTries DEF TriesStep
<1> QED
  BY <1>3, <1>4, <1>5, <1>6 DEF AckInv

\* Probe n was sent.
Probed(n) == \E k \in 1 .. Len(tries) : ProbeAt(k) /\ tries[k].ok /\ tries[k].packet.seq = n

\* An echo that is being handled has the number of a probe sent.
ReportInv ==
    /\ ReportsMatchProbe
    /\ loop = "handle" /\ datagram.type = "echo" => Probed(datagram.seq)

\* What a handler is about to send is a probe.
ProbesBuilt == \A t \in Timer : handler[t].pc = "send" => handler[t].packet.kind = "probe"

LEMMA ReportInductive == TypeOK /\ ProbesBuilt /\ ReportInv /\ [Next]_vars => ReportInv'
<1> SUFFICES ASSUME TypeOK, ProbesBuilt, ReportInv, [Next]_vars PROVE ReportInv'
  OBVIOUS
<1>1. \A n : Probed(n) => Probed(n)'
  BY TriesGrow DEF Probed, ProbeAt
<1>2. ReportsMatchProbe'
  <2>1. ASSUME NEW n \in 1 .. Len(tries), tries[n].packet.kind = "report"
        PROVE  \E k \in 1 .. n - 1 : ProbeAt(k)' /\ tries'[k].ok /\ tries'[k].packet.seq = tries'[n].packet.seq
    <3>1. PICK k \in 1 .. n - 1 : ProbeAt(k) /\ tries[k].ok /\ tries[k].packet.seq = tries[n].packet.seq
      BY <2>1 DEF ReportInv, ReportsMatchProbe
    <3>2. k \in 1 .. Len(tries)
      BY Places
    <3>3. tries'[k] = tries[k] /\ tries'[n] = tries[n]
      BY <3>2, TriesGrow
    <3> QED
      BY <3>1, <3>3 DEF ProbeAt
  <2>2. CASE UNCHANGED tries
    BY <2>2 DEF ReportInv, ReportsMatchProbe, ProbeAt
  <2>3. ASSUME NEW p \in Packet, Tried(p), p.kind = "report" => Probed(p.seq)
        PROVE  ReportsMatchProbe'
    <3> SUFFICES ASSUME NEW n \in 1 .. Len(tries'), tries'[n].packet.kind = "report"
                 PROVE  \E k \in 1 .. n - 1 :
                            ProbeAt(k)' /\ tries'[k].ok /\ tries'[k].packet.seq = tries'[n].packet.seq
      BY DEF ReportsMatchProbe
    <3>1. /\ Len(tries) \in Nat /\ Len(tries') = Len(tries) + 1
          /\ \A m \in 1 .. Len(tries) : tries'[m] = tries[m]
          /\ tries'[Len(tries) + 1].packet = p
      BY <2>3 DEF Tried
    <3>2. CASE n \in 1 .. Len(tries)
      BY <2>1, <3>1, <3>2
    <3>3. CASE n = Len(tries) + 1
      <4>1. Probed(p.seq) /\ tries'[n].packet = p /\ n - 1 = Len(tries)
        BY <2>3, <3>1, <3>3
      <4>2. PICK k \in 1 .. Len(tries) : ProbeAt(k) /\ tries[k].ok /\ tries[k].packet.seq = p.seq
        BY <4>1 DEF Probed
      <4>3. tries'[k] = tries[k] /\ k \in 1 .. n - 1
        BY <3>1, <4>1
      <4> QED
        BY <4>1, <4>2, <4>3 DEF ProbeAt
    <3> QED
      BY <3>1, <3>2, <3>3
  <2>4. ASSUME NEW t \in Timer, SendProbe(t) PROVE handler[t].packet.kind = "probe"
    BY <2>4 DEF SendProbe, ProbesBuilt
  <2> QED
    BY <2>2, <2>3, <2>4, StepTries DEF TriesStep, ReportInv
<1> SUFFICES ASSUME loop' = "handle", datagram'.type = "echo"
             PROVE  \A n : n = datagram'.seq => Probed(n)'
  BY <1>2 DEF ReportInv, Probed
<1>3. ASSUME NEW m \in Receivable, Receive(m) PROVE \A n : n = datagram'.seq => Probed(n)'
  <2>1. datagram' = m /\ m.type = "echo"
    BY <1>3 DEF Receive
  <2>2. \E n \in 1 .. Len(tries) : ProbeAt(n) /\ tries[n].ok /\ m.seq = tries[n].packet.seq
    BY <2>1 DEF Receivable, Sent, ProbeAt
  <2>3. Probed(m.seq)
    BY <2>2 DEF Probed
  <2> QED
    BY <1>1, <2>1, <2>3
<1>4. CASE ~ \E m \in Receivable : Receive(m)
  <2>1. loop = "handle" /\ datagram' = datagram
    BY <1>4 DEF Next, MainQueue, Ready, HandleWelcome, SendAck, StartTimer, KeepTimer, HandleRefused, HandleEcho, HandleBye,
                Failed, ReceiveFails, Handler, Tick, SendProbe, LoadSeq, StoreSeq, vars, mainVars
  <2> QED
    BY <1>1, <2>1 DEF ReportInv
<1> QED
  BY <1>3, <1>4

-----------------------------------------------------------------------------
(* How probes are numbered.                                                *)

Probes == {k \in 1 .. Len(tries) : ProbeAt(k)}

Numbered == \A n \in 1 .. Len(tries) : ProbeAt(n) => tries[n].packet.seq = Cardinality(ProbesBefore(n))

\* The handler of a timer has sent its probe and not counted it.
Uncounted == {t \in Timer : handler[t].pc \in {"load", "store"}}

\* One timer works for each init response.  With one of them, seqNum is the
\* number of probes, except that a handler may not have counted its own yet.
SeqInv ==
    /\ live \subseteq 1 .. welcomes
    /\ \A t \in Timer : handler[t].pc # "idle" => t \in 1 .. welcomes
    /\ welcomes <= 1 =>
        /\ Numbered
        /\ \A t \in Timer :
            /\ handler[t].pc = "send" => handler[t].packet.seq = seqNum
            /\ handler[t].pc = "store" => handler[t].tmp = seqNum
        /\ Cardinality(Probes) = IF Uncounted = {} THEN seqNum ELSE seqNum + 1

\* The probes before an old place are the same, and those before the new one
\* are all there were.
LEMMA ProbesOf ==
    ASSUME TypeOK, NEW p \in Packet, Tried(p)
    PROVE  /\ \A n \in 1 .. Len(tries) : ProbesBefore(n)' = ProbesBefore(n) /\ (ProbeAt(n)' <=> ProbeAt(n))
           /\ \A n : n = Len(tries) + 1 => ProbesBefore(n)' = Probes
           /\ Probes' = IF p.kind = "probe" THEN Probes \union {Len(tries) + 1} ELSE Probes
           /\ Len(tries) + 1 \notin Probes
           /\ IsFiniteSet(Probes)
<1>1. /\ Len(tries) \in Nat /\ Len(tries') = Len(tries) + 1
      /\ \A n \in 1 .. Len(tries) : tries'[n] = tries[n]
      /\ tries'[Len(tries) + 1].packet = p
  BY DEF Tried
<1>2. \A n \in 1 .. Len(tries) : (ProbeAt(n)' <=> ProbeAt(n))
  BY <1>1 DEF ProbeAt
<1>3. \A n \in 1 .. Len(tries) : 1 .. n - 1 \subseteq 1 .. Len(tries)
  BY <1>1
<1>4. \A n \in 1 .. Len(tries) : ProbesBefore(n)' = ProbesBefore(n)
  BY <1>2, <1>3 DEF ProbesBefore
<1>5. \A n : n = Len(tries) + 1 => ProbesBefore(n)' = Probes
  <2> SUFFICES ASSUME NEW n, n = Len(tries) + 1 PROVE ProbesBefore(n)' = Probes
    OBVIOUS
  <2>1. n - 1 = Len(tries)
    BY <1>1
  <2> QED
    BY <1>2, <2>1 DEF ProbesBefore, Probes
<1>6. /\ \A n : n \in 1 .. Len(tries') <=> n \in 1 .. Len(tries) \/ n = Len(tries) + 1
      /\ Len(tries) + 1 \notin 1 .. Len(tries)
  BY <1>1
<1>7. Probes' = IF p.kind = "probe" THEN Probes \union {Len(tries) + 1} ELSE Probes
  <2>1. \A n : n \in Probes' <=> n \in Probes \/ (n = Len(tries) + 1 /\ p.kind = "probe")
    BY <1>1, <1>2, <1>6 DEF Probes, ProbeAt
  <2> QED
    BY <2>1
<1>8. IsFiniteSet(Probes)
  <2>1. IsFiniteSet(1 .. Len(tries)) /\ Probes \subseteq 1 .. Len(tries)
    BY <1>1, FS_Interval DEF Probes
  <2> QED
    BY <2>1, FS_Subset
<1> QED
  BY <1>2, <1>4, <1>5, <1>6, <1>7, <1>8 DEF Probes

\* Numbering holds on if a step sends no probe, or sends the next one.
LEMMA NumberedOn ==
    ASSUME TypeOK, NEW p \in Packet, Tried(p), Numbered,
           p.kind = "probe" => p.seq = Cardinality(Probes)
    PROVE  /\ Numbered'
           /\ Cardinality(Probes') = IF p.kind = "probe" THEN Cardinality(Probes) + 1 ELSE Cardinality(Probes)
           /\ Cardinality(Probes) \in Nat
<1>1. /\ \A n \in 1 .. Len(tries) : ProbesBefore(n)' = ProbesBefore(n) /\ (ProbeAt(n)' <=> ProbeAt(n))
      /\ \A n : n = Len(tries) + 1 => ProbesBefore(n)' = Probes
      /\ Probes' = IF p.kind = "probe" THEN Probes \union {Len(tries) + 1} ELSE Probes
      /\ Len(tries) + 1 \notin Probes
      /\ IsFiniteSet(Probes)
  BY ProbesOf
<1>2. /\ Len(tries) \in Nat /\ Len(tries') = Len(tries) + 1
      /\ \A n \in 1 .. Len(tries) : tries'[n] = tries[n]
      /\ tries'[Len(tries) + 1].packet = p
  BY DEF Tried
<1>3. Numbered'
  <2> SUFFICES ASSUME NEW n \in 1 .. Len(tries'), ProbeAt(n)'
               PROVE  tries'[n].packet.seq = Cardinality(ProbesBefore(n)')
    BY DEF Numbered
  <2>1. CASE n \in 1 .. Len(tries)
    BY <1>1, <1>2, <2>1 DEF Numbered
  <2>2. CASE n = Len(tries) + 1
    <3>1. p.kind = "probe" /\ tries'[n].packet = p /\ ProbesBefore(n)' = Probes
      BY <1>1, <1>2, <2>2 DEF ProbeAt
    <3> QED
      BY <3>1
  <2> QED
    BY <1>2, <2>1, <2>2
<1>4. Cardinality(Probes \union {Len(tries) + 1}) = Cardinality(Probes) + 1
  BY <1>1, FS_AddElement
<1>5. Cardinality(Probes) \in Nat
  BY <1>1, FS_CardinalityType
<1> QED
  BY <1>1, <1>3, <1>4, <1>5

LEMMA SeqInductive == Typed /\ AckInv /\ SeqInv /\ [Next]_vars => SeqInv'
<1> SUFFICES ASSUME TypeOK, WelcomeInv, AckInv, SeqInv, [Next]_vars PROVE SeqInv'
  BY DEF Typed
<1>1. welcomes \in Nat /\ welcomes' \in Nat /\ welcomes <= welcomes' /\ 1 .. welcomes \subseteq 1 .. welcomes'
      /\ (welcomes' <= 1 => welcomes <= 1)
  <2>1. welcomes \in Nat /\ (welcomes' = welcomes \/ welcomes' = welcomes + 1)
    BY WelcomesGrow DEF TypeOK
  <2> QED
    BY <2>1
<1>2. live' \subseteq 1 .. welcomes'
  <2>1. CASE StartTimer
    BY <1>1, <2>1 DEF StartTimer, countVars, SeqInv, WelcomeInv, Timer
  <2>2. CASE ~StartTimer
    <3>1. live' \subseteq live
      BY <2>2 DEF Next, MainQueue, Ready, Receive, HandleWelcome, SendAck, KeepTimer, HandleRefused, HandleEcho,
                  HandleBye, Failed, ReceiveFails, Handler, Tick, SendProbe, LoadSeq, StoreSeq, vars, timerVars
    <3> QED
      BY <1>1, <3>1 DEF SeqInv
  <2> QED
    BY <2>1, <2>2
<1>3. ASSUME NEW t \in Timer, handler'[t].pc # "idle" PROVE t \in 1 .. welcomes'
  <2>1. CASE handler[t].pc # "idle"
    BY <1>1, <2>1 DEF SeqInv
  <2>2. CASE handler[t].pc = "idle"
    <3>1. Tick(t)
      BY <1>3, <2>2, HandlerSteps, OthersKeepHandlers DEF Handler
    <3> QED
      BY <1>1, <3>1 DEF Tick, SeqInv
  <2> QED
    BY <2>1, <2>2
<1> SUFFICES ASSUME welcomes' <= 1
             PROVE  /\ Numbered'
                    /\ \A t \in Timer :
                        /\ handler'[t].pc = "send" => handler'[t].packet.seq = seqNum'
                        /\ handler'[t].pc = "store" => handler'[t].tmp = seqNum'
                    /\ Cardinality(Probes') = IF Uncounted' = {} THEN seqNum' ELSE seqNum' + 1
  BY <1>2, <1>3 DEF SeqInv
<1>4. /\ welcomes <= 1 /\ Numbered
      /\ \A t \in Timer :
            /\ handler[t].pc = "send" => handler[t].packet.seq = seqNum
            /\ handler[t].pc = "store" => handler[t].tmp = seqNum
      /\ Cardinality(Probes) = IF Uncounted = {} THEN seqNum ELSE seqNum + 1
  BY <1>1 DEF SeqInv
<1>5. seqNum \in Nat /\ 1 .. welcomes \subseteq {1}
  <2>1. seqNum \in Nat
    BY DEF TypeOK
  <2>2. \A n \in 1 .. welcomes : n = 1
    BY <1>1, <1>4
  <2> QED
    BY <2>1, <2>2
<1>6. CASE ~ \E t \in Timer : Handler(t)
  <2>1. UNCHANGED <<handler, seqNum>>
    BY <1>6, OthersKeepHandlers
  <2>2. Uncounted' = Uncounted
    BY <2>1 DEF Uncounted
  <2>3. Numbered' /\ Cardinality(Probes') = Cardinality(Probes)
    <3>1. CASE UNCHANGED tries
      BY <1>4, <3>1 DEF Numbered, Probes, ProbeAt, ProbesBefore
    <3>2. ASSUME NEW p \in Packet, Tried(p), p.kind # "probe" PROVE Numbered' /\ Cardinality(Probes') = Cardinality(Probes)
      BY <1>4, <3>2, NumberedOn
    <3>3. \A t \in Timer : ~SendProbe(t)
      BY <1>6 DEF Handler
    <3> QED
      BY <3>1, <3>2, <3>3, StepTries DEF TriesStep
  <2> QED
    BY <1>4, <2>1, <2>2, <2>3
<1>7. ASSUME NEW t \in Timer, Handler(t)
      PROVE  /\ Numbered'
             /\ \A u \in Timer :
                    /\ handler'[u].pc = "send" => handler'[u].packet.seq = seqNum'
                    /\ handler'[u].pc = "store" => handler'[u].tmp = seqNum'
             /\ Cardinality(Probes') = IF Uncounted' = {} THEN seqNum' ELSE seqNum' + 1
  <2>1. t = 1 /\ \A u \in Timer : u # t => handler[u].pc = "idle" /\ handler'[u].pc = "idle"
    <3>1. t \in 1 .. welcomes
      <4>1. CASE Tick(t)
        BY <4>1 DEF Tick, SeqInv
      <4>2. CASE ~Tick(t)
        <5>1. handler[t].pc # "idle"
          BY <1>7, <4>2 DEF Handler, SendProbe, LoadSeq, StoreSeq
        <5> QED
          BY <5>1 DEF SeqInv
      <4> QED
        BY <4>1, <4>2
    <3>2. \A u \in Timer : u # 1 => handler[u].pc = "idle"
      BY <1>5 DEF SeqInv
    <3>3. \A u \in Timer : u # t => handler'[u] = handler[u]
      BY <1>7, HandlerSteps
    <3> QED
      BY <1>5, <3>1, <3>2, <3>3
  <2>2. /\ Uncounted = IF handler[t].pc \in {"load", "store"} THEN {t} ELSE {}
        /\ Uncounted' = IF handler'[t].pc \in {"load", "store"} THEN {t} ELSE {}
    BY <2>1 DEF Uncounted
  <2>3. ASSUME UNCHANGED tries
        PROVE  Numbered' /\ Probes' = Probes
    BY <1>4, <2>3 DEF Numbered, Probes, ProbeAt, ProbesBefore
  <2>4. CASE Tick(t)
    <3>1. handler[t].pc = "idle"
          /\ handler'[t] = [pc |-> "send", packet |-> Pkt("probe", clientID, seqNum), tmp |-> handler[t].tmp]
      BY <2>4, HandlerSteps
    <3>2. handler'[t].pc = "send" /\ handler'[t].packet = Pkt("probe", clientID, seqNum)
      BY <3>1
    <3>3. Pkt("probe", clientID, seqNum).seq = seqNum
      BY PacketType DEF TypeOK
    <3>4. UNCHANGED <<tries, seqNum>>
      BY <2>4 DEF Tick
    <3> QED
      BY <1>4, <2>1, <2>2, <2>3, <3>1, <3>2, <3>3, <3>4
  <2>5. CASE SendProbe(t)
    <3>1. handler[t].pc = "send"
          /\ handler'[t] = [pc |-> "load", packet |-> handler[t].packet, tmp |-> handler[t].tmp]
      BY <2>5, HandlerSteps
    <3>2. handler'[t].pc = "load"
      BY <3>1
    <3>3. /\ handler[t].packet \in Packet /\ handler[t].packet.kind = "probe"
          /\ handler[t].packet.seq = seqNum /\ Cardinality(Probes) = seqNum
      BY <1>4, <2>2, <3>1 DEF TypeOK, AckInv
    <3>4. Tried(handler[t].packet)
      BY <2>5, <3>3, Sends DEF SendProbe
    <3>5. Numbered' /\ Cardinality(Probes') = seqNum + 1
      BY <1>4, <3>3, <3>4, NumberedOn
    <3>6. UNCHANGED seqNum
      BY <2>5 DEF SendProbe
    <3> QED
      BY <2>1, <2>2, <3>2, <3>5, <3>6
  <2>6. CASE LoadSeq(t)
    <3>1. handler[t].pc = "load"
          /\ handler'[t] = [pc |-> "store", packet |-> handler[t].packet, tmp |-> seqNum]
      BY <2>6, HandlerSteps
    <3>2. handler'[t].pc = "store" /\ handler'[t].tmp = seqNum
      BY <3>1
    <3>3. UNCHANGED <<tries, seqNum>>
      BY <2>6 DEF LoadSeq
    <3> QED
      BY <1>4, <2>1, <2>2, <2>3, <3>1, <3>2, <3>3
  <2>7. CASE StoreSeq(t)
    <3>1. handler[t].pc = "store" /\ handler'[t] = Idle
      BY <2>7, HandlerSteps
    <3>2. handler'[t].pc = "idle"
      BY <3>1 DEF Idle
    <3>3. UNCHANGED tries /\ seqNum' = seqNum + 1
      BY <1>4, <2>7 DEF StoreSeq
    <3> QED
      BY <1>4, <2>1, <2>2, <2>3, <3>1, <3>2, <3>3
  <2> QED
    BY <1>7, <2>4, <2>5, <2>6, <2>7 DEF Handler
<1> QED
  BY <1>6, <1>7

\* However datagrams are repeated, lost and reordered: with one init response the
\* probes are numbered 0, 1, 2, ...; a probe carries a granted id and follows an
\* acknowledgement; a report speaks of a probe that was sent.
THEOREM PacketsAreInOrder == Spec => []PacketsInOrder
<1>1. Init => AckInv /\ ReportInv /\ SeqInv
  <2> SUFFICES ASSUME Init PROVE AckInv /\ ReportInv /\ SeqInv
    OBVIOUS
  <2>1. tries = <<>> /\ Len(tries) = 0 /\ 1 .. Len(tries) = {}
    BY DEF Init
  <2>2. \A t \in Timer : handler[t].pc = "idle"
    BY DEF Init, Idle
  <2>3. AckInv /\ ReportInv
    BY <2>1, <2>2 DEF Init, AckInv, ProbesAcknowledged, ReportInv, ReportsMatchProbe
  <2>4. Probes = {} /\ Cardinality(Probes) = 0 /\ Uncounted = {} /\ Numbered
    BY <2>1, <2>2, FS_EmptySet DEF Probes, Uncounted, Numbered
  <2>5. SeqInv
    BY <2>2, <2>4 DEF Init, SeqInv
  <2> QED
    BY <2>3, <2>5
<1>2. AckInv => ProbesBuilt
  BY DEF AckInv, ProbesBuilt
<1>3. Spec => []AckInv
  BY <1>1, TypedAlways, AckInductive, PTL DEF Spec
<1>4. Spec => []ReportInv
  BY <1>1, <1>2, <1>3, TypeCorrect, ReportInductive, PTL DEF Spec
<1>5. Spec => []SeqInv
  BY <1>1, <1>3, TypedAlways, SeqInductive, PTL DEF Spec
<1>6. TypeOK /\ AckInv /\ ReportInv /\ SeqInv => PacketsInOrder
  BY DEF AckInv, ReportInv, SeqInv, Numbered, NumberedUntilSecondWelcome, PacketsInOrder
<1> QED
  BY <1>3, <1>4, <1>5, <1>6, TypeCorrect, PTL
=============================================================================
