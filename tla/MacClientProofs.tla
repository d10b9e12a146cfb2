--------------------------- MODULE MacClientProofs ---------------------------
(***************************************************************************)
(* Proofs about MacClient for any number of sessions, probes, datagrams    *)
(* and failures, and any set of client_ids.                                *)
(***************************************************************************)
EXTENDS MacClient, SequenceTheorems, TLAPS

Try == [packet: Packet, ok: BOOLEAN]

\* An element of a sequence.
LEMMA ElementType ==
    ASSUME NEW S, NEW q \in Seq(S), NEW n \in 1 .. Len(q)
    PROVE  q[n] \in S
  OBVIOUS

\* What Append does to the places of a sequence.
LEMMA AppendElements ==
    ASSUME NEW S, NEW q \in Seq(S), NEW e \in S
    PROVE  /\ Append(q, e) \in Seq(S)
           /\ Len(Append(q, e)) = Len(q) + 1
           /\ \A n \in 1 .. Len(q) : Append(q, e)[n] = q[n]
           /\ Append(q, e)[Len(q) + 1] = e
  OBVIOUS

\* RemoveAt leaves a sequence with one element less, and none of a single one.
LEMMA RemoveAtType ==
    ASSUME NEW S, NEW q \in Seq(S), NEW n \in 1 .. Len(q)
    PROVE  /\ RemoveAt(q, n) \in Seq(S)
           /\ Len(RemoveAt(q, n)) = Len(q) - 1
<1>1. Len(q) \in Nat /\ \A k \in 1 .. Len(q) : q[k] \in S
  BY ElementType
<1>2. /\ SubSeq(q, 1, n - 1) \in Seq(S)
      /\ Len(SubSeq(q, 1, n - 1)) = n - 1
  <2>1. 1 \in Int /\ n - 1 \in Int /\ \A k \in 1 .. n - 1 : q[k] \in S
    BY <1>1
  <2>2. Len(SubSeq(q, 1, n - 1)) = IF 1 <= n - 1 THEN n - 1 - 1 + 1 ELSE 0
    BY <2>1, SubSeqProperties
  <2>3. SubSeq(q, 1, n - 1) \in Seq(S)
    BY <2>1, SubSeqProperties
  <2> QED
    BY <1>1, <2>2, <2>3
<1>3. /\ SubSeq(q, n + 1, Len(q)) \in Seq(S)
      /\ Len(SubSeq(q, n + 1, Len(q))) = Len(q) - n
  <2>1. n + 1 \in Int /\ Len(q) \in Int /\ \A k \in n + 1 .. Len(q) : q[k] \in S
    BY <1>1
  <2>2. Len(SubSeq(q, n + 1, Len(q))) = IF n + 1 <= Len(q) THEN Len(q) - (n + 1) + 1 ELSE 0
    BY <2>1, SubSeqProperties
  <2>3. SubSeq(q, n + 1, Len(q)) \in Seq(S)
    BY <2>1, SubSeqProperties
  <2> QED
    BY <1>1, <2>2, <2>3
<1> DEFINE a == SubSeq(q, 1, n - 1)
           b == SubSeq(q, n + 1, Len(q))
<1>4. a \o b \in Seq(S) /\ Len(a \o b) = Len(a) + Len(b)
  BY <1>2, <1>3, ConcatProperties
<1>5. RemoveAt(q, n) = a \o b
  BY DEF RemoveAt
<1>6. Len(a) = n - 1 /\ Len(b) = Len(q) - n
  BY <1>2, <1>3
<1> HIDE DEF a, b
<1>7. Len(a) + Len(b) = Len(q) - 1
  BY <1>1, <1>6
<1> QED
  BY <1>4, <1>5, <1>7

\* What handing p to sendto does, whether or not it is taken.
Tried(s, p) ==
    /\ tries' \in [Session -> Seq(Try)]
    /\ failures' \in Nat /\ (failures' = 0 => failures = 0)
    /\ \A r \in Session : r # s => tries'[r] = tries[r]
    /\ Len(tries'[s]) = Len(tries[s]) + 1
    /\ \A n \in 1 .. Len(tries[s]) : tries'[s][n] = tries[s][n]
    /\ tries'[s][Len(tries[s]) + 1].packet = p

LEMMA Sends ==
    ASSUME TypeOK, NEW s \in Session, NEW p \in Packet, Send(s, p)
    PROVE  Tried(s, p)
<1>1. PICK ok \in BOOLEAN :
        /\ failures' = IF ~ok /\ s \in open THEN failures + 1 ELSE failures
        /\ tries' = [tries EXCEPT ![s] = Append(@, [packet |-> p, ok |-> ok])]
  BY DEF Send
<1>2. [packet |-> p, ok |-> ok] \in Try /\ tries \in [Session -> Seq(Try)] /\ failures \in Nat
  BY DEF Try, TypeOK
<1>3. tries'[s] = Append(tries[s], [packet |-> p, ok |-> ok]) /\ tries[s] \in Seq(Try)
  BY <1>1, <1>2
<1>4. /\ tries' \in [Session -> Seq(Try)]
      /\ \A r \in Session : r # s => tries'[r] = tries[r]
  BY <1>1, <1>2, AppendElements
<1>5. failures' \in Nat /\ (failures' = 0 => failures = 0)
  BY <1>1, <1>2
<1>6. /\ Len(tries'[s]) = Len(tries[s]) + 1
      /\ \A n \in 1 .. Len(tries[s]) : tries'[s][n] = tries[s][n]
      /\ tries'[s][Len(tries[s]) + 1] = [packet |-> p, ok |-> ok]
  BY <1>2, <1>3, AppendElements
<1> QED
  BY <1>4, <1>5, <1>6 DEF Tried

-----------------------------------------------------------------------------
\* A datagram for a session is a message.
LEMMA ReceivableType ==
    ASSUME TypeOK, NEW s \in Session, NEW m \in Receivable(s)
    PROVE  m \in Message
<1>1. \A n \in 1 .. Len(tries[s]) : tries[s][n].packet.seq \in Nat
  <2> SUFFICES ASSUME NEW n \in 1 .. Len(tries[s]) PROVE tries[s][n].packet.seq \in Nat
    OBVIOUS
  <2>1. tries[s] \in Seq(Try)
    BY DEF TypeOK, Try
  <2>2. tries[s][n] \in Try
    BY <2>1, ElementType
  <2> QED
    BY <2>2 DEF Try, Packet
<1> QED
  BY <1>1 DEF Receivable, Message

\* Each step of main() that goes on to the next session finds one.
LEMMA NextSession ==
    ASSUME next \in Session
    PROVE  (IF next = SessionCount THEN 1 ELSE next + 1) \in Session
  BY MacAssumption DEF Session

\* Every variable keeps its type, whatever the threads, the calls and the network do.
THEOREM TypeCorrect == Spec => []TypeOK
<1>1. Init => TypeOK
  <2> SUFFICES ASSUME Init PROVE TypeOK
    OBVIOUS
  <2>1. next \in Session
    BY MacAssumption DEF Init, Session
  <2>2. /\ client_id \in [Session -> Nat] /\ seq_num \in [Session -> Nat]
        /\ is_connected \in [Session -> BOOLEAN] /\ delay_thread \in [Session -> Nat]
        /\ recv_pc \in [Session -> {"off", "call", "blocked", "handle", "ack", "spawn"}]
    BY DEF Init
  <2>3. [type |-> "none"] \in Message
    BY DEF Message
  <2>4. /\ buffer \in [Session -> Message] /\ built \in [Session -> Seq(Packet)]
        /\ tries \in [Session -> Seq([packet: Packet, ok: BOOLEAN])]
    BY <2>3 DEF Init
  <2> QED
    BY <2>1, <2>2, <2>4 DEF Init, TypeOK
<1>2. TypeOK /\ [Next]_vars => TypeOK'
  <2> SUFFICES ASSUME TypeOK, [Next]_vars PROVE TypeOK'
    OBVIOUS
  <2>0. \A k \in {"hello", "ack", "probe", "bye", "report"}, i \in Nat, n \in Nat : Pkt(k, i, n) \in Packet
    BY DEF Pkt, Packet
  <2>1. CASE SendInit
    <3>1. Tried(next, Pkt("hello", 0, 0))
      BY <2>0, <2>1, Sends DEF SendInit, TypeOK
    <3> QED
      BY <2>1, <3>1 DEF SendInit, TypeOK, Tried, Try, sessionVars
  <2>2. CASE StartReceive
    <3>1. next' \in Session /\ main' \in {"start", "wait"}
      BY <2>2, NextSession DEF StartReceive, Advance, TypeOK
    <3>2. recv_pc' \in [Session -> {"off", "call", "blocked", "handle", "ack", "spawn"}]
      BY <2>2 DEF StartReceive, TypeOK
    <3>3. failures' \in Nat
      <4>1. failures \in Nat /\ failures' \in {failures, failures + 1}
        BY <2>2 DEF StartReceive, TypeOK
      <4> QED
        BY <4>1
    <3> QED
      BY <2>2, <3>1, <3>2, <3>3 DEF StartReceive, TypeOK, sessionVars
  <2>3. CASE Exit
    BY <2>3 DEF Exit, TypeOK, sessionVars, countVars
  <2>4. CASE Disconnect
    <3>1. client_id[next] \in Nat /\ next \in Session
      BY DEF TypeOK
    <3>2. Tried(next, Pkt("bye", client_id[next], 0))
      BY <2>0, <2>4, <3>1, Sends DEF Disconnect
    <3> QED
      BY <2>4, <3>2 DEF Disconnect, TypeOK, Tried, Try, sessionVars
  <2>5. CASE Close
    BY <2>5, NextSession DEF Close, Advance, TypeOK, sessionVars, countVars
  <2>6. CASE Free \/ Return
    BY <2>6 DEF Free, Return, TypeOK, sessionVars, countVars
  <2>7. ASSUME NEW s \in Session, CallReceive(s) \/ ReceiveFails(s) \/ HandleRefusal(s) \/ HandleBye(s)
        PROVE  TypeOK'
    <3>1. CASE CallReceive(s)
      BY <3>1 DEF CallReceive, Goto, TypeOK, mainVars, sessionVars, countVars
    <3>2. CASE ReceiveFails(s)
      <4>1. failures' \in Nat
        BY <3>2 DEF ReceiveFails, TypeOK
      <4> QED
        BY <3>2, <4>1 DEF ReceiveFails, Goto, TypeOK, mainVars, sessionVars
    <3>3. CASE HandleRefusal(s)
      <4>1. (IF RetriesSpawn /\ is_connected[s] THEN "spawn" ELSE "call") \in {"spawn", "call"}
        OBVIOUS
      <4> QED
        BY <3>3, <4>1 DEF HandleRefusal, Goto, TypeOK, mainVars, sessionVars, countVars
    <3>4. CASE HandleBye(s)
      BY <3>4 DEF HandleBye, Goto, TypeOK, mainVars, sessionVars, countVars
    <3> QED
      BY <2>7, <3>1, <3>2, <3>3, <3>4
  <2>8. ASSUME NEW s \in Session, NEW m \in Receivable(s), Receive(s, m) PROVE TypeOK'
    <3>1. m \in Message
      BY <2>8, ReceivableType
    <3>2. buffer' \in [Session -> Message] /\ receives' \in Nat
      BY <2>8, <3>1 DEF Receive, TypeOK
    <3> QED
      BY <2>8, <3>2 DEF Receive, Goto, TypeOK, mainVars, sessionVars
  <2>9. ASSUME NEW s \in Session, HandleWelcome(s) PROVE TypeOK'
    <3>1. buffer[s].id \in Nat
      BY <2>9, MacAssumption DEF HandleWelcome, TypeOK, Message
    <3> QED
      BY <2>9, <3>1 DEF HandleWelcome, Goto, TypeOK, mainVars, countVars
  <2>10. ASSUME NEW s \in Session, SendAck(s) PROVE TypeOK'
    <3>1. Tried(s, Pkt("ack", client_id[s], 0))
      BY <2>0, <2>10, Sends DEF SendAck, TypeOK
    <3> QED
      BY <2>10, <3>1 DEF SendAck, Goto, TypeOK, Tried, Try, mainVars, sessionVars
  <2>11. ASSUME NEW s \in Session, Spawn(s) PROVE TypeOK'
    <3>1. delay_thread' \in [Session -> Nat]
      BY <2>11 DEF Spawn, TypeOK
    <3>2. failures' \in Nat
      <4>1. failures \in Nat /\ failures' \in {failures, failures + 1}
        BY <2>11 DEF Spawn, TypeOK
      <4> QED
        BY <4>1
    <3> QED
      BY <2>11, <3>1, <3>2 DEF Spawn, Goto, TypeOK, mainVars, sessionVars
  <2>12. ASSUME NEW s \in Session, HandleEcho(s) PROVE TypeOK'
    <3>1. buffer[s].seq \in Nat
      BY <2>12 DEF HandleEcho, TypeOK, Message
    <3>2. Tried(s, Pkt("report", client_id[s], buffer[s].seq))
      BY <2>0, <2>12, <3>1, Sends DEF HandleEcho, TypeOK
    <3> QED
      BY <2>12, <3>2 DEF HandleEcho, Goto, TypeOK, Tried, Try, mainVars, sessionVars
  <2>13. ASSUME NEW s \in Session, BuildProbe(s) PROVE TypeOK'
    <3>1. Pkt("probe", client_id[s], seq_num[s]) \in Packet /\ built[s] \in Seq(Packet)
      BY <2>0 DEF TypeOK
    <3>2. built' \in [Session -> Seq(Packet)]
      BY <2>13, <3>1, AppendElements DEF BuildProbe, TypeOK
    <3>3. seq_num' \in [Session -> Nat] /\ probes' \in Nat
      BY <2>13 DEF BuildProbe, TypeOK
    <3> QED
      BY <2>13, <3>2, <3>3 DEF BuildProbe, TypeOK, mainVars
  <2>14. ASSUME NEW s \in Session, SendProbe(s) PROVE TypeOK'
    <3>1. built[s] \in Seq(Packet)
      BY DEF TypeOK
    <3>2. PICK n \in 1 .. Len(built[s]) :
            Send(s, built[s][n]) /\ built' = [built EXCEPT ![s] = RemoveAt(@, n)]
      BY <2>14 DEF SendProbe
    <3>3. built[s][n] \in Packet /\ RemoveAt(built[s], n) \in Seq(Packet)
      BY <3>1, ElementType, RemoveAtType
    <3>4. built' \in [Session -> Seq(Packet)]
      BY <3>2, <3>3 DEF TypeOK
    <3>5. Tried(s, built[s][n])
      BY <3>2, <3>3, Sends
    <3> QED
      BY <2>14, <3>4, <3>5 DEF SendProbe, TypeOK, Tried, Try, mainVars, sessionVars
  <2>15. ASSUME NEW s \in Session, UseFreed(s) PROVE TypeOK'
    BY <2>15 DEF UseFreed, TypeOK, sessionVars, countVars
  <2>16. CASE UNCHANGED vars
    BY <2>16 DEF vars, TypeOK, mainVars, sessionVars, countVars
  <2> QED
    BY <2>1, <2>2, <2>3, <2>4, <2>5, <2>6, <2>7, <2>8, <2>9, <2>10, <2>11, <2>12, <2>13, <2>14, <2>15, <2>16
       DEF Next, Main, ReceiveThread
<1> QED
  BY <1>1, <1>2, PTL DEF Spec

-----------------------------------------------------------------------------
(* The exit command.                                                       *)

\* main() closes the sockets in the order of the array and frees it last.
OpenInv ==
    /\ main = "wait" => next = 1
    /\ main \in {"disconnect", "close"} => \A s \in open : s >= next
    /\ main \in {"free", "return", "gone"} \/ freed => open = {}
    /\ stray # "sent"

LEMMA OpenInductive == TypeOK /\ OpenInv /\ [Next]_vars => OpenInv'
<1> SUFFICES ASSUME TypeOK, OpenInv, [Next]_vars PROVE OpenInv'
  OBVIOUS
<1>1. /\ \A s \in Session : s \in Nat /\ s >= 1 /\ s <= SessionCount
      /\ next \in Session /\ open \subseteq Session /\ SessionCount \in Nat
  BY MacAssumption DEF Session, TypeOK
<1>2. CASE SendInit
  BY <1>2 DEF SendInit, OpenInv
<1>3. CASE StartReceive
  BY <1>3 DEF StartReceive, Advance, OpenInv
<1>4. CASE Exit
  <2>1. \A s \in open : s >= next
    BY <1>1, <1>4 DEF Exit, OpenInv
  <2> QED
    BY <1>4, <2>1 DEF Exit, OpenInv
<1>5. CASE Disconnect
  BY <1>5 DEF Disconnect, OpenInv
<1>6. CASE Close
  <2>1. /\ main = "close" /\ open' = open \ {next} /\ UNCHANGED <<freed, stray>>
        /\ next' = IF next = SessionCount THEN 1 ELSE next + 1
        /\ main' = IF next = SessionCount THEN "free" ELSE "disconnect"
    BY <1>6 DEF Close, Advance
  <2>2. \A s \in open' : s \in Session /\ s >= next /\ s # next
    BY <1>1, <2>1 DEF OpenInv
  <2>3. CASE next = SessionCount
    <3>1. open' = {}
      <4> SUFFICES ASSUME NEW s \in open' PROVE FALSE
        OBVIOUS
      <4>1. s \in Session /\ s >= SessionCount /\ s # SessionCount
        BY <2>2, <2>3
      <4> QED
        BY <1>1, <4>1
    <3> QED
      BY <2>1, <2>3, <3>1 DEF OpenInv
  <2>4. CASE next # SessionCount
    <3>1. \A s \in open' : s >= next + 1
      BY <1>1, <2>2
    <3> QED
      BY <2>1, <2>4, <3>1 DEF OpenInv
  <2> QED
    BY <2>3, <2>4
<1>7. CASE Free \/ Return
  BY <1>7 DEF Free, Return, OpenInv
<1>8. ASSUME NEW s \in Session, ReceiveThread(s) \/ BuildProbe(s) \/ SendProbe(s) PROVE OpenInv'
  <2>1. open' \subseteq open /\ UNCHANGED <<main, next, freed, stray>>
    BY <1>8 DEF ReceiveThread, CallReceive, Receive, ReceiveFails, HandleWelcome, SendAck, HandleRefusal, Spawn,
                HandleEcho, HandleBye, BuildProbe, SendProbe, mainVars
  <2> QED
    BY <2>1 DEF OpenInv
<1>9. ASSUME NEW s \in Session, UseFreed(s) PROVE OpenInv'
  BY <1>9 DEF UseFreed, OpenInv
<1>10. CASE UNCHANGED vars
  BY <1>10 DEF vars, mainVars, OpenInv
<1> QED
  BY <1>2, <1>3, <1>4, <1>5, <1>6, <1>7, <1>8, <1>9, <1>10 DEF Next, Main

\* No thread sends from the freed array, because no socket is open by then.
THEOREM SilentFromFreed == Spec => []SilentOnceFreed
<1>1. Init => OpenInv
  BY DEF Init, OpenInv
<1>2. OpenInv => SilentOnceFreed
  BY DEF OpenInv, SilentOnceFreed
<1> QED
  BY <1>1, <1>2, OpenInductive, TypeCorrect, PTL DEF Spec

-----------------------------------------------------------------------------
(* From packet_1 to the delay thread.                                      *)

\* Sessions main() has not come to have no receive thread and no connection.
StartInv ==
    main \in {"start", "thread"} =>
        \A s \in Session : s >= next => recv_pc[s] = "off" /\ ~is_connected[s]

LEMMA StartInductive == TypeOK /\ StartInv /\ [Next]_vars => StartInv'
<1> SUFFICES ASSUME TypeOK, StartInv, [Next]_vars PROVE StartInv'
  OBVIOUS
<1>1. next \in Session /\ \A s \in Session : s \in Nat
  BY DEF TypeOK, Session
<1>2. CASE StartReceive
  <2>1. \A s \in Session : s # next => recv_pc'[s] = recv_pc[s]
    BY <1>2 DEF StartReceive, TypeOK
  <2>2. main = "thread" /\ UNCHANGED is_connected
    BY <1>2 DEF StartReceive, sessionVars
  <2>3. main' \in {"start", "thread"} => next' = next + 1
    BY <1>2 DEF StartReceive, Advance
  <2>4. \A s \in Session : s >= next + 1 => s >= next /\ s # next
    BY <1>1
  <2> QED
    BY <2>1, <2>2, <2>3, <2>4 DEF StartInv
<1>3. CASE SendInit \/ Exit \/ Disconnect \/ Close \/ Free \/ Return \/ \E s \in Session : UseFreed(s)
  BY <1>3 DEF SendInit, Exit, Disconnect, Close, Advance, Free, Return, UseFreed, StartInv, sessionVars
<1>4. ASSUME NEW s \in Session, ReceiveThread(s) PROVE StartInv'
  <2>1. /\ recv_pc[s] # "off" /\ UNCHANGED <<main, next>>
        /\ \A r \in Session : r # s => recv_pc'[r] = recv_pc[r] /\ is_connected'[r] = is_connected[r]
    <3>1. recv_pc[s] # "off" /\ UNCHANGED <<main, next>>
      BY <1>4 DEF ReceiveThread, CallReceive, Receive, ReceiveFails, HandleWelcome, SendAck, HandleRefusal, Spawn,
                  HandleEcho, HandleBye, At, mainVars
    <3>2. ASSUME NEW r \in Session, r # s
          PROVE  recv_pc'[r] = recv_pc[r] /\ is_connected'[r] = is_connected[r]
      <4>1. CASE HandleWelcome(s)
        BY <3>2, <4>1 DEF HandleWelcome, Goto, TypeOK
      <4>2. CASE HandleRefusal(s)
        BY <3>2, <4>2 DEF HandleRefusal, Goto, TypeOK, sessionVars
      <4>3. CASE CallReceive(s) \/ ReceiveFails(s) \/ \E m \in Receivable(s) : Receive(s, m)
        BY <3>2, <4>3 DEF CallReceive, ReceiveFails, Receive, Goto, TypeOK, sessionVars
      <4>4. CASE SendAck(s) \/ Spawn(s) \/ HandleEcho(s) \/ HandleBye(s)
        BY <3>2, <4>4 DEF SendAck, Spawn, HandleEcho, HandleBye, Goto, TypeOK, sessionVars
      <4> QED
        BY <1>4, <4>1, <4>2, <4>3, <4>4 DEF ReceiveThread
    <3> QED
      BY <3>1, <3>2
  <2> QED
    BY <2>1 DEF StartInv
<1>5. ASSUME NEW s \in Session, BuildProbe(s) \/ SendProbe(s) PROVE StartInv'
  BY <1>5 DEF BuildProbe, SendProbe, mainVars, sessionVars, StartInv
<1>6. CASE UNCHANGED vars
  BY <1>6 DEF vars, mainVars, sessionVars, StartInv
<1> QED
  BY <1>2, <1>3, <1>4, <1>5, <1>6 DEF Next, Main

\* Once a call has failed, one has failed.
LEMMA FailuresStay == TypeOK /\ [Next]_vars => (failures' = 0 => failures = 0)
<1> SUFFICES ASSUME TypeOK, [Next]_vars, failures' = 0 PROVE failures = 0
  OBVIOUS
<1>0. failures \in Nat
  BY DEF TypeOK
<1>1. ASSUME NEW s \in Session, NEW p, Send(s, p) PROVE failures = 0
  <2>1. failures' = failures \/ failures' = failures + 1
    BY <1>1 DEF Send
  <2> QED
    BY <1>0, <2>1
<1>2. CASE SendInit \/ Disconnect
  <2>1. next \in Session
    BY DEF TypeOK
  <2> QED
    BY <1>1, <1>2, <2>1 DEF SendInit, Disconnect
<1>3. ASSUME NEW s \in Session, SendAck(s) \/ HandleEcho(s) \/ SendProbe(s) PROVE failures = 0
  BY <1>1, <1>3 DEF SendAck, HandleEcho, SendProbe
<1>4. ASSUME failures' = failures \/ failures' = failures + 1 PROVE failures = 0
  BY <1>0, <1>4
<1>5. CASE StartReceive \/ Exit \/ Close \/ Free \/ Return
  BY <1>4, <1>5 DEF StartReceive, Exit, Close, Free, Return, countVars
<1>6. ASSUME NEW s \in Session,
             CallReceive(s) \/ HandleWelcome(s) \/ HandleRefusal(s) \/ HandleBye(s) \/ BuildProbe(s) \/ UseFreed(s)
      PROVE  failures = 0
  BY <1>4, <1>6 DEF CallReceive, HandleWelcome, HandleRefusal, HandleBye, BuildProbe, UseFreed, countVars
<1>7. ASSUME NEW s \in Session, ReceiveFails(s) \/ Spawn(s) \/ \E m \in Receivable(s) : Receive(s, m)
      PROVE  failures = 0
  BY <1>4, <1>7 DEF ReceiveFails, Spawn, Receive
<1>8. CASE UNCHANGED vars
  BY <1>8 DEF vars, countVars
<1> QED
  BY <1>2, <1>3, <1>5, <1>6, <1>7, <1>8 DEF Next, Main, ReceiveThread

\* A session whose receive thread is done with its packet_1 has a delay thread.
MeasureInv ==
    \A s \in Session :
        is_connected[s] /\ recv_pc[s] \notin {"ack", "spawn"} /\ failures = 0 => delay_thread[s] > 0

LEMMA MeasureInductive == TypeOK /\ StartInv /\ MeasureInv /\ [Next]_vars => MeasureInv'
<1> SUFFICES ASSUME TypeOK, StartInv, MeasureInv, [Next]_vars, NEW r \in Session, failures' = 0,
                    is_connected'[r], recv_pc'[r] \notin {"ack", "spawn"}
             PROVE  delay_thread'[r] > 0
  BY DEF MeasureInv
<1>1. failures = 0 /\ delay_thread[r] \in Nat
  BY FailuresStay DEF TypeOK
<1>2. ASSUME is_connected[r], recv_pc[r] \notin {"ack", "spawn"}, delay_thread'[r] = delay_thread[r]
      PROVE  delay_thread'[r] > 0
  BY <1>1, <1>2 DEF MeasureInv
<1>3. CASE StartReceive
  <2>1. main = "thread" /\ next \in Session /\ UNCHANGED <<is_connected, delay_thread>>
        /\ \A s \in Session : s # next => recv_pc'[s] = recv_pc[s]
    BY <1>3 DEF StartReceive, TypeOK, sessionVars
  <2>2. r # next
    <3>1. next >= next
      BY <2>1 DEF Session
    <3> QED
      BY <2>1, <3>1 DEF StartInv
  <2> QED
    BY <1>2, <2>1, <2>2
<1>4. CASE SendInit \/ Exit \/ Disconnect \/ Close \/ Free \/ Return
           \/ \E s \in Session : BuildProbe(s) \/ SendProbe(s) \/ UseFreed(s)
  BY <1>2, <1>4 DEF SendInit, Exit, Disconnect, Close, Free, Return, BuildProbe, SendProbe, UseFreed, sessionVars
<1>5. ASSUME NEW s \in Session, CallReceive(s) \/ ReceiveFails(s) \/ HandleEcho(s) \/ HandleBye(s)
                                \/ \E m \in Receivable(s) : Receive(s, m)
      PROVE  delay_thread'[r] > 0
  <2>1. recv_pc[s] \notin {"ack", "spawn"} /\ UNCHANGED <<is_connected, delay_thread>>
        /\ (r # s => recv_pc'[r] = recv_pc[r])
    BY <1>5 DEF CallReceive, ReceiveFails, HandleEcho, HandleBye, Receive, At, Goto, TypeOK, sessionVars
  <2> QED
    BY <1>2, <2>1
<1>6. ASSUME NEW s \in Session, HandleRefusal(s) PROVE delay_thread'[r] > 0
  <2>1. recv_pc[s] \notin {"ack", "spawn"} /\ UNCHANGED <<is_connected, delay_thread>>
        /\ (r # s => recv_pc'[r] = recv_pc[r])
    BY <1>6 DEF HandleRefusal, At, Goto, TypeOK, sessionVars
  <2> QED
    BY <1>2, <2>1
<1>7. ASSUME NEW s \in Session, HandleWelcome(s) \/ SendAck(s) PROVE delay_thread'[r] > 0
  <2>1. /\ recv_pc'[s] \in {"ack", "spawn"}
        /\ r # s => recv_pc'[r] = recv_pc[r] /\ is_connected'[r] = is_connected[r]
        /\ UNCHANGED delay_thread
    BY <1>7 DEF HandleWelcome, SendAck, Goto, TypeOK, sessionVars
  <2> QED
    BY <1>2, <2>1
<1>8. ASSUME NEW s \in Session, Spawn(s) PROVE delay_thread'[r] > 0
  <2>1. CASE r # s
    <3>1. UNCHANGED is_connected /\ recv_pc'[r] = recv_pc[r] /\ delay_thread'[r] = delay_thread[r]
      BY <1>8, <2>1 DEF Spawn, Goto, TypeOK, sessionVars
    <3> QED
      BY <1>2, <3>1
  <2>2. CASE r = s
    <3>1. \/ delay_thread'[s] = delay_thread[s] /\ delay_thread[s] # 0
          \/ delay_thread'[s] = 1
          \/ failures' = failures + 1
      BY <1>8 DEF Spawn, TypeOK
    <3> QED
      BY <1>1, <2>2, <3>1
  <2> QED
    BY <2>1, <2>2
<1>9. CASE UNCHANGED vars
  BY <1>2, <1>9 DEF vars, sessionVars
<1> QED
  BY <1>3, <1>4, <1>5, <1>6, <1>7, <1>8, <1>9 DEF Next, Main, ReceiveThread

\* A connected session that waits for datagrams measures, unless a call failed.
THEOREM Measures == Spec => []ConnectedMeasures
<1>1. Init => StartInv /\ MeasureInv
  BY DEF Init, StartInv, MeasureInv
<1>2. MeasureInv => ConnectedMeasures
  BY DEF MeasureInv, ConnectedMeasures
<1> QED
  BY <1>1, <1>2, StartInductive, MeasureInductive, TypeCorrect, PTL DEF Spec

-----------------------------------------------------------------------------
(* What is sent, and in which order.                                       *)

\* The delay threads at work: at most one for each session, with at most one
\* probe built and not sent, numbered just below seq_num.
BuiltInv ==
    \A s \in Session :
        /\ delay_thread[s] <= 1
        /\ Len(built[s]) <= delay_thread[s]
        /\ built[s] # <<>> => built[s][1].kind = "probe" /\ built[s][1].seq + 1 = seq_num[s]

\* Nothing but session_delay() touches what it builds and numbers.
LEMMA OthersKeepBuilt ==
    ASSUME TypeOK, [Next]_vars, ~ \E s \in Session : BuildProbe(s) \/ SendProbe(s)
    PROVE  UNCHANGED <<built, seq_num>>
<1>1. CASE Main
  BY <1>1 DEF Main, SendInit, StartReceive, Exit, Disconnect, Close, Free, Return, sessionVars
<1>2. ASSUME NEW s \in Session, ReceiveThread(s) PROVE UNCHANGED <<built, seq_num>>
  BY <1>2 DEF ReceiveThread, CallReceive, Receive, ReceiveFails, HandleWelcome, SendAck, HandleRefusal, Spawn,
              HandleEcho, HandleBye, sessionVars
<1>3. CASE UNCHANGED vars \/ \E s \in Session : UseFreed(s)
  BY <1>3 DEF UseFreed, vars, sessionVars
<1> QED
  BY <1>1, <1>2, <1>3 DEF Next

\* Nothing but Spawn changes the number of delay threads.
LEMMA OthersKeepThreads ==
    ASSUME TypeOK, [Next]_vars, ~ \E s \in Session : Spawn(s)
    PROVE  UNCHANGED delay_thread
<1>1. CASE Main
  BY <1>1 DEF Main, SendInit, StartReceive, Exit, Disconnect, Close, Free, Return
<1>2. ASSUME NEW s \in Session, ReceiveThread(s) PROVE UNCHANGED delay_thread
  BY <1>2 DEF ReceiveThread, CallReceive, Receive, ReceiveFails, HandleWelcome, SendAck, HandleRefusal,
              HandleEcho, HandleBye
<1>3. CASE UNCHANGED vars \/ \E s \in Session : BuildProbe(s) \/ SendProbe(s) \/ UseFreed(s)
  BY <1>3 DEF BuildProbe, SendProbe, UseFreed, vars
<1> QED
  BY <1>1, <1>2, <1>3 DEF Next

\* The only probe of a session is the one its delay thread has just built.
LEMMA Builds ==
    ASSUME TypeOK, BuiltInv, NEW s \in Session, BuildProbe(s)
    PROVE  /\ built[s] = <<>> /\ Len(built'[s]) = 1 /\ delay_thread[s] = 1
           /\ built'[s][1] = Pkt("probe", client_id[s], seq_num[s])
           /\ seq_num'[s] = seq_num[s] + 1
           /\ \A r \in Session : r # s => built'[r] = built[r] /\ seq_num'[r] = seq_num[r]
           /\ UNCHANGED <<tries, delay_thread>>
<1>1. /\ Len(built[s]) < delay_thread[s] /\ delay_thread[s] <= 1 /\ delay_thread[s] \in Nat
      /\ built[s] \in Seq(Packet) /\ Len(built[s]) \in Nat
  BY DEF BuildProbe, TypeOK, BuiltInv
<1>2. Len(built[s]) = 0 /\ delay_thread[s] = 1
  BY <1>1
<1>3. built[s] = <<>>
  BY <1>1, <1>2
<1>4. /\ built' = [built EXCEPT ![s] = Append(@, Pkt("probe", client_id[s], seq_num[s]))]
      /\ seq_num' = [seq_num EXCEPT ![s] = @ + 1]
      /\ UNCHANGED <<tries, delay_thread>>
  BY DEF BuildProbe
<1>5. built'[s] = <<Pkt("probe", client_id[s], seq_num[s])>>
  BY <1>3, <1>4 DEF TypeOK
<1> QED
  BY <1>2, <1>3, <1>4, <1>5 DEF TypeOK

\* It is the one that is sent, and then there is none.
LEMMA SendsBuilt ==
    ASSUME TypeOK, BuiltInv, NEW s \in Session, SendProbe(s)
    PROVE  /\ built[s] # <<>> /\ delay_thread[s] = 1 /\ built[s][1] \in Packet
           /\ built'[s] = <<>>
           /\ \A r \in Session : r # s => built'[r] = built[r]
           /\ UNCHANGED <<seq_num, delay_thread>>
           /\ Tried(s, built[s][1])
<1>1. PICK n \in 1 .. Len(built[s]) :
        Send(s, built[s][n]) /\ built' = [built EXCEPT ![s] = RemoveAt(@, n)]
  BY DEF SendProbe
<1>2. /\ Len(built[s]) <= delay_thread[s] /\ delay_thread[s] <= 1 /\ delay_thread[s] \in Nat
      /\ built[s] \in Seq(Packet) /\ Len(built[s]) \in Nat
  BY DEF TypeOK, BuiltInv
<1>3. n = 1 /\ Len(built[s]) = 1 /\ delay_thread[s] = 1
  <2> DEFINE l == Len(built[s])
             d == delay_thread[s]
  <2>1. l \in Nat /\ d \in Nat /\ n \in 1 .. l /\ l <= d /\ d <= 1
    BY <1>2
  <2> HIDE DEF l, d
  <2>2. n = 1 /\ l = 1 /\ d = 1
    BY <2>1
  <2> QED
    BY <2>2 DEF l, d
<1>4. built[s][1] \in Packet
  BY <1>2, <1>3, ElementType
<1>5. RemoveAt(built[s], n) \in Seq(Packet) /\ Len(RemoveAt(built[s], n)) = Len(built[s]) - 1
  BY <1>2, RemoveAtType
<1>6. RemoveAt(built[s], n) = <<>>
  BY <1>3, <1>5
<1>7. built'[s] = <<>> /\ \A r \in Session : r # s => built'[r] = built[r]
  BY <1>1, <1>6 DEF TypeOK
<1>8. UNCHANGED <<seq_num, delay_thread>>
  BY DEF SendProbe, sessionVars
<1>9. Tried(s, built[s][1])
  BY <1>1, <1>3, <1>4, Sends
<1> QED
  BY <1>3, <1>4, <1>7, <1>8, <1>9

LEMMA BuiltInductive == TypeOK /\ BuiltInv /\ [Next]_vars => BuiltInv'
<1> SUFFICES ASSUME TypeOK, BuiltInv, [Next]_vars PROVE BuiltInv'
  OBVIOUS
<1>1. ASSUME NEW s \in Session, BuildProbe(s) PROVE BuiltInv'
  <2>1. Pkt("probe", client_id[s], seq_num[s]).kind = "probe"
        /\ Pkt("probe", client_id[s], seq_num[s]).seq = seq_num[s]
    BY DEF Pkt
  <2> SUFFICES ASSUME NEW r \in Session
               PROVE  /\ delay_thread'[r] <= 1
                      /\ Len(built'[r]) <= delay_thread'[r]
                      /\ built'[r] # <<>> => built'[r][1].kind = "probe" /\ built'[r][1].seq + 1 = seq_num'[r]
    BY DEF BuiltInv
  <2>2. CASE r = s
    <3>1. delay_thread'[s] = 1 /\ Len(built'[s]) = 1
      BY <1>1, Builds
    <3>2. built'[s][1] = Pkt("probe", client_id[s], seq_num[s]) /\ seq_num'[s] = seq_num[s] + 1
      BY <1>1, Builds
    <3>3. built'[s][1].kind = "probe" /\ built'[s][1].seq + 1 = seq_num'[s]
      BY <2>1, <3>2
    <3> QED
      BY <2>2, <3>1, <3>3
  <2>3. CASE r # s
    <3>1. built'[r] = built[r] /\ seq_num'[r] = seq_num[r] /\ delay_thread'[r] = delay_thread[r]
      BY <1>1, <2>3, Builds
    <3> QED
      BY <3>1 DEF BuiltInv
  <2> QED
    BY <2>2, <2>3
<1>2. ASSUME NEW s \in Session, SendProbe(s) PROVE BuiltInv'
  BY <1>2, SendsBuilt DEF BuiltInv
<1>3. ASSUME NEW s \in Session, Spawn(s) PROVE BuiltInv'
  <2>1. UNCHANGED <<built, seq_num>>
    BY <1>3 DEF Spawn, sessionVars
  <2>2. \/ UNCHANGED delay_thread
        \/ delay_thread[s] = 0 /\ delay_thread' = [delay_thread EXCEPT ![s] = 1]
    BY <1>3 DEF Spawn
  <2>3. \A r \in Session : delay_thread[r] <= delay_thread'[r] /\ delay_thread'[r] <= 1
                           /\ delay_thread[r] \in Nat /\ delay_thread'[r] \in Nat /\ Len(built[r]) \in Nat
    <3> SUFFICES ASSUME NEW r \in Session
                 PROVE  /\ delay_thread[r] <= delay_thread'[r] /\ delay_thread'[r] <= 1
                        /\ delay_thread[r] \in Nat /\ delay_thread'[r] \in Nat /\ Len(built[r]) \in Nat
      OBVIOUS
    <3>1. delay_thread[r] \in Nat /\ delay_thread[r] <= 1
      BY DEF TypeOK, BuiltInv
    <3>2. built[r] \in Seq(Packet)
      BY DEF TypeOK
    <3>3. delay_thread'[r] = delay_thread[r] \/ (delay_thread[r] = 0 /\ delay_thread'[r] = 1)
      <4>1. delay_thread \in [Session -> Nat]
        BY DEF TypeOK
      <4>2. CASE UNCHANGED delay_thread
        BY <4>2
      <4>3. CASE delay_thread[s] = 0 /\ delay_thread' = [delay_thread EXCEPT ![s] = 1]
        BY <4>1, <4>3
      <4> QED
        BY <2>2, <4>2, <4>3
    <3> QED
      BY <3>1, <3>2, <3>3
  <2> QED
    BY <2>1, <2>3 DEF BuiltInv
<1>4. CASE ~ \E s \in Session : BuildProbe(s) \/ SendProbe(s) \/ Spawn(s)
  BY <1>4, OthersKeepBuilt, OthersKeepThreads DEF BuiltInv
<1> QED
  BY <1>1, <1>2, <1>3, <1>4

\* Every packet that is handed to sendto is an announcement, a report on the
\* datagram in the buffer, or the probe that was built.
TriesStep ==
    \/ UNCHANGED tries
    \/ \E s \in Session : \E p \in Packet :
        /\ Tried(s, p)
        /\ \/ p.kind \in {"hello", "ack", "bye"}
           \/ p.kind = "report" /\ recv_pc[s] = "handle" /\ buffer[s].type = "echo" /\ p.seq = buffer[s].seq
           \/ SendProbe(s) /\ p = built[s][1]

LEMMA StepTries == TypeOK /\ BuiltInv /\ [Next]_vars => TriesStep
<1> SUFFICES ASSUME TypeOK, BuiltInv, [Next]_vars PROVE TriesStep
  OBVIOUS
<1>0. \A k \in {"hello", "ack", "probe", "bye", "report"}, i \in Nat, n \in Nat :
        Pkt(k, i, n) \in Packet /\ Pkt(k, i, n).kind = k /\ Pkt(k, i, n).seq = n
  BY DEF Pkt, Packet
<1>1. next \in Session /\ \A s \in Session : client_id[s] \in Nat
  BY DEF TypeOK
<1>2. CASE SendInit
  BY <1>0, <1>1, <1>2, Sends DEF SendInit, TriesStep
<1>3. CASE Disconnect
  BY <1>0, <1>1, <1>3, Sends DEF Disconnect, TriesStep
<1>4. ASSUME NEW s \in Session, SendAck(s) PROVE TriesStep
  BY <1>0, <1>1, <1>4, Sends DEF SendAck, TriesStep
<1>5. ASSUME NEW s \in Session, HandleEcho(s) PROVE TriesStep
  <2>1. recv_pc[s] = "handle" /\ buffer[s].type = "echo" /\ buffer[s].seq \in Nat
    BY <1>5 DEF HandleEcho, At, TypeOK, Message
  <2>2. Tried(s, Pkt("report", client_id[s], buffer[s].seq))
    BY <1>0, <1>1, <1>5, <2>1, Sends DEF HandleEcho
  <2> QED
    BY <1>0, <1>1, <2>1, <2>2 DEF TriesStep
<1>6. ASSUME NEW s \in Session, SendProbe(s) PROVE TriesStep
  BY <1>6, SendsBuilt DEF TriesStep
<1>7. CASE StartReceive \/ Exit \/ Close \/ Free \/ Return \/ UNCHANGED vars
           \/ \E s \in Session : BuildProbe(s) \/ UseFreed(s)
  BY <1>7 DEF StartReceive, Exit, Close, Free, Return, vars, BuildProbe, UseFreed, TriesStep
<1>8. ASSUME NEW s \in Session, CallReceive(s) \/ ReceiveFails(s) \/ HandleWelcome(s) \/ HandleRefusal(s) \/ Spawn(s)
                                \/ HandleBye(s) \/ \E m \in Receivable(s) : Receive(s, m)
      PROVE  TriesStep
  BY <1>8 DEF CallReceive, ReceiveFails, HandleWelcome, HandleRefusal, Spawn, HandleBye, Receive, TriesStep
<1> QED
  BY <1>2, <1>3, <1>4, <1>5, <1>6, <1>7, <1>8 DEF Next, Main, ReceiveThread

\* Entries of a history, their length and the next place.
LEMMA Places ==
    ASSUME TypeOK, NEW s \in Session
    PROVE  /\ Len(tries[s]) \in Nat
           /\ \A n \in 1 .. Len(tries[s]) : n \in Nat /\ tries[s][n] \in Try /\ tries[s][n].packet.seq \in Nat
           /\ seq_num[s] \in Nat
           /\ built[s] # <<>> => built[s][1] \in Packet /\ built[s][1].seq \in Nat
<1>1. tries[s] \in Seq(Try) /\ built[s] \in Seq(Packet) /\ seq_num[s] \in Nat
  BY DEF TypeOK, Try
<1>2. \A n \in 1 .. Len(tries[s]) : tries[s][n] \in Try
  BY <1>1, ElementType
<1>3. \A n \in 1 .. Len(tries[s]) : tries[s][n].packet.seq \in Nat
  BY <1>2 DEF Try, Packet
<1>4. built[s] # <<>> => built[s][1] \in Packet
  BY <1>1
<1>5. built[s] # <<>> => built[s][1].seq \in Nat
  BY <1>4 DEF Packet
<1> QED
  BY <1>1, <1>2, <1>3, <1>4, <1>5

\* The number of the next probe to be sent.
NextNumber(s) == IF built[s] = <<>> THEN seq_num[s] ELSE built[s][1].seq

\* The probes sent are numbered below it, one of them just below it.
Numbered(s) ==
    /\ \A n \in 1 .. Len(tries[s]) : ProbeAt(s, n) => tries[s][n].packet.seq < NextNumber(s)
    /\ \/ NextNumber(s) = 0
       \/ \E n \in 1 .. Len(tries[s]) : ProbeAt(s, n) /\ tries[s][n].packet.seq + 1 = NextNumber(s)

InOrder(s) ==
    \A n \in 1 .. Len(tries[s]) : ProbeAt(s, n) =>
        LET before == {k \in 1 .. n - 1 : ProbeAt(s, k)} IN
        /\ before = {} => tries[s][n].packet.seq = 0
        /\ before # {} => \E k \in before : tries[s][n].packet.seq = tries[s][k].packet.seq + 1
        /\ \A k \in before : tries[s][k].packet.seq < tries[s][n].packet.seq

SeqInv == \A s \in Session : Numbered(s) /\ InOrder(s)

\* Sending anything but a probe keeps the order.
LEMMA NoProbe ==
    ASSUME TypeOK, TypeOK', NEW s \in Session, NEW p \in Packet, Tried(s, p), p.kind # "probe",
           UNCHANGED <<built, seq_num>>, Numbered(s), InOrder(s)
    PROVE  Numbered(s)' /\ InOrder(s)'
<1>1. /\ Len(tries[s]) \in Nat /\ Len(tries'[s]) = Len(tries[s]) + 1
      /\ \A n \in 1 .. Len(tries[s]) : tries'[s][n] = tries[s][n]
      /\ tries'[s][Len(tries[s]) + 1].packet = p
  BY Places DEF Tried
<1>2. \A n \in 1 .. Len(tries'[s]) : n \in 1 .. Len(tries[s]) \/ n = Len(tries[s]) + 1
  BY <1>1
<1>3. \A n \in 1 .. Len(tries'[s]) : ProbeAt(s, n)' =>
        /\ n \in 1 .. Len(tries[s]) /\ ProbeAt(s, n)
        /\ {k \in 1 .. n - 1 : ProbeAt(s, k)'} = {k \in 1 .. n - 1 : ProbeAt(s, k)}
        /\ \A k \in 1 .. n - 1 : k \in 1 .. Len(tries[s]) /\ tries'[s][k] = tries[s][k]
  <2> SUFFICES ASSUME NEW n \in 1 .. Len(tries'[s]), ProbeAt(s, n)'
               PROVE  /\ n \in 1 .. Len(tries[s]) /\ ProbeAt(s, n)
                      /\ {k \in 1 .. n - 1 : ProbeAt(s, k)'} = {k \in 1 .. n - 1 : ProbeAt(s, k)}
                      /\ \A k \in 1 .. n - 1 : k \in 1 .. Len(tries[s]) /\ tries'[s][k] = tries[s][k]
    OBVIOUS
  <2>1. n \in 1 .. Len(tries[s])
    BY <1>1, <1>2 DEF ProbeAt
  <2>2. \A k \in 1 .. n - 1 : k \in 1 .. Len(tries[s])
    BY <1>1, <2>1
  <2> QED
    BY <1>1, <2>1, <2>2 DEF ProbeAt
<1>4. InOrder(s)'
  <2> SUFFICES ASSUME NEW n \in 1 .. Len(tries'[s]), ProbeAt(s, n)'
               PROVE  LET before == {k \in 1 .. n - 1 : ProbeAt(s, k)'} IN
                      /\ before = {} => tries'[s][n].packet.seq = 0
                      /\ before # {} => \E k \in before : tries'[s][n].packet.seq = tries'[s][k].packet.seq + 1
                      /\ \A k \in before : tries'[s][k].packet.seq < tries'[s][n].packet.seq
    BY DEF InOrder
  <2>1. n \in 1 .. Len(tries[s]) /\ ProbeAt(s, n) /\ tries'[s][n] = tries[s][n]
    BY <1>1, <1>3
  <2>2. {k \in 1 .. n - 1 : ProbeAt(s, k)'} = {k \in 1 .. n - 1 : ProbeAt(s, k)}
    BY <1>3
  <2>3. \A k \in 1 .. n - 1 : tries'[s][k] = tries[s][k]
    BY <1>3
  <2>4. LET before == {k \in 1 .. n - 1 : ProbeAt(s, k)} IN
        /\ before = {} => tries[s][n].packet.seq = 0
        /\ before # {} => \E k \in before : tries[s][n].packet.seq = tries[s][k].packet.seq + 1
        /\ \A k \in before : tries[s][k].packet.seq < tries[s][n].packet.seq
    BY <2>1 DEF InOrder
  <2> QED
    BY <2>1, <2>2, <2>3, <2>4
<1>5. \A n \in 1 .. Len(tries[s]) : n \in 1 .. Len(tries'[s])
  BY <1>1
<1>6. Numbered(s)'
  BY <1>1, <1>3, <1>5 DEF Numbered, NextNumber, ProbeAt
<1> QED
  BY <1>4, <1>6

\* The probe that was built comes next.
LEMMA NextProbe ==
    ASSUME TypeOK, BuiltInv, NEW s \in Session, SendProbe(s), Numbered(s), InOrder(s)
    PROVE  Numbered(s)' /\ InOrder(s)'
<1> DEFINE l == Len(tries[s])
           p == built[s][1]
<1>1. /\ l \in Nat /\ Len(tries'[s]) = l + 1
      /\ \A n \in 1 .. l : tries'[s][n] = tries[s][n] /\ tries[s][n].packet.seq \in Nat
      /\ tries'[s][l + 1].packet = p
  BY SendsBuilt, Places DEF Tried
<1>2. p.kind = "probe" /\ p.seq = NextNumber(s) /\ p.seq \in Nat /\ NextNumber(s)' = p.seq + 1
  <2>1. built[s] # <<>> /\ built'[s] = <<>> /\ seq_num'[s] = p.seq + 1
    BY SendsBuilt DEF BuiltInv
  <2> QED
    BY <2>1, Places DEF BuiltInv, NextNumber
<1> HIDE DEF l, p
<1>3. \A n \in 1 .. l + 1 : n \in 1 .. l \/ n = l + 1
  BY <1>1
<1>4. \A n \in 1 .. l : n \in 1 .. l + 1 /\ (ProbeAt(s, n)' <=> ProbeAt(s, n))
  BY <1>1 DEF ProbeAt
<1>5. \A n : n = l + 1 => ProbeAt(s, n)' /\ n \in 1 .. l + 1
  BY <1>1, <1>2 DEF ProbeAt
<1>6. \A n \in 1 .. l : ProbeAt(s, n) => tries[s][n].packet.seq < p.seq
  BY <1>2 DEF Numbered, l
<1>7. Numbered(s)'
  <2>1. \A n \in 1 .. l + 1 : ProbeAt(s, n)' => tries'[s][n].packet.seq < p.seq + 1
    <3> SUFFICES ASSUME NEW n \in 1 .. l + 1, ProbeAt(s, n)'
                 PROVE  tries'[s][n].packet.seq < p.seq + 1
      OBVIOUS
    <3>1. CASE n \in 1 .. l
      <4>1. tries'[s][n] = tries[s][n] /\ tries[s][n].packet.seq \in Nat
        BY <1>1, <3>1
      <4>2. tries[s][n].packet.seq < p.seq
        BY <1>4, <1>6, <3>1
      <4> QED
        BY <1>2, <4>1, <4>2
    <3>2. CASE n = l + 1
      BY <1>1, <1>2, <3>2
    <3> QED
      BY <1>3, <3>1, <3>2
  <2>2. \A n : n = l + 1 => tries'[s][n].packet.seq + 1 = p.seq + 1
    BY <1>1
  <2>3. \E n \in 1 .. l + 1 : ProbeAt(s, n)' /\ tries'[s][n].packet.seq + 1 = p.seq + 1
    BY <1>5, <2>2
  <2> QED
    BY <1>1, <1>2, <2>1, <2>3 DEF Numbered
<1>8. ASSUME NEW n \in 1 .. l, ProbeAt(s, n)'
      PROVE  LET before == {k \in 1 .. n - 1 : ProbeAt(s, k)'} IN
             /\ before = {} => tries'[s][n].packet.seq = 0
             /\ before # {} => \E k \in before : tries'[s][n].packet.seq = tries'[s][k].packet.seq + 1
             /\ \A k \in before : tries'[s][k].packet.seq < tries'[s][n].packet.seq
  <2>1. \A k \in 1 .. n - 1 : k \in 1 .. l
    BY <1>1
  <2>2. {k \in 1 .. n - 1 : ProbeAt(s, k)'} = {k \in 1 .. n - 1 : ProbeAt(s, k)}
    BY <1>4, <2>1
  <2>3. ProbeAt(s, n)
    BY <1>4, <1>8
  <2> QED
    BY <1>1, <2>1, <2>2, <2>3 DEF InOrder, l
<1>9. LET before == {k \in 1 .. l + 1 - 1 : ProbeAt(s, k)'} IN
      /\ before = {} => p.seq = 0
      /\ before # {} => \E k \in before : p.seq = tries'[s][k].packet.seq + 1
      /\ \A k \in before : tries'[s][k].packet.seq < p.seq
  <2>1. {k \in 1 .. l + 1 - 1 : ProbeAt(s, k)'} = {k \in 1 .. l : ProbeAt(s, k)}
    BY <1>1, <1>4
  <2>2. p.seq = 0 \/ \E n \in 1 .. l : ProbeAt(s, n) /\ tries[s][n].packet.seq + 1 = p.seq
    BY <1>2 DEF Numbered, l
  <2>3. \A k \in 1 .. l : ProbeAt(s, k) => p.seq # 0
    BY <1>1, <1>2, <1>6
  <2>4. {k \in 1 .. l : ProbeAt(s, k)} # {} => \E k \in 1 .. l : ProbeAt(s, k) /\ tries[s][k].packet.seq + 1 = p.seq
    BY <2>2, <2>3
  <2> QED
    BY <1>1, <1>6, <2>1, <2>2, <2>4
<1>10. InOrder(s)'
  BY <1>1, <1>3, <1>8, <1>9 DEF InOrder
<1> QED
  BY <1>7, <1>10

LEMMA SeqInductive == TypeOK /\ TypeOK' /\ BuiltInv /\ SeqInv /\ [Next]_vars => SeqInv'
<1> SUFFICES ASSUME TypeOK, TypeOK', BuiltInv, SeqInv, [Next]_vars, NEW r \in Session
             PROVE  Numbered(r)' /\ InOrder(r)'
  BY DEF SeqInv
<1>1. Numbered(r) /\ InOrder(r)
  BY DEF SeqInv
<1>2. ASSUME tries'[r] = tries[r], NextNumber(r)' = NextNumber(r) PROVE Numbered(r)' /\ InOrder(r)'
  BY <1>1, <1>2 DEF Numbered, InOrder, ProbeAt
<1>3. ASSUME NEW s \in Session, BuildProbe(s) PROVE Numbered(r)' /\ InOrder(r)'
  <2>1. CASE r = s
    <3>1. built[r] = <<>> /\ Len(built'[r]) = 1 /\ built'[r][1] = Pkt("probe", client_id[r], seq_num[r])
      BY <1>3, <2>1, Builds
    <3>2. built'[r] # <<>>
      BY <3>1
    <3>3. Pkt("probe", client_id[r], seq_num[r]).seq = seq_num[r]
      BY DEF Pkt
    <3>4. NextNumber(r)' = NextNumber(r) /\ tries' = tries
      BY <1>3, <3>1, <3>2, <3>3, Builds DEF NextNumber
    <3> QED
      BY <1>2, <3>4
  <2>2. CASE r # s
    <3>1. built'[r] = built[r] /\ seq_num'[r] = seq_num[r] /\ tries' = tries
      BY <1>3, <2>2, Builds
    <3> QED
      BY <1>2, <3>1 DEF NextNumber
  <2> QED
    BY <2>1, <2>2
<1>4. ASSUME NEW s \in Session, SendProbe(s) PROVE Numbered(r)' /\ InOrder(r)'
  <2>1. CASE r = s
    BY <1>1, <1>4, <2>1, NextProbe
  <2>2. CASE r # s
    <3>1. built'[r] = built[r] /\ seq_num'[r] = seq_num[r] /\ tries'[r] = tries[r]
      BY <1>4, <2>2, SendsBuilt DEF Tried
    <3> QED
      BY <1>2, <3>1 DEF NextNumber
  <2> QED
    BY <2>1, <2>2
<1>5. CASE ~ \E s \in Session : BuildProbe(s) \/ SendProbe(s)
  <2>1. UNCHANGED <<built, seq_num>>
    BY <1>5, OthersKeepBuilt
  <2>2. NextNumber(r)' = NextNumber(r)
    BY <2>1 DEF NextNumber
  <2>3. CASE UNCHANGED tries
    BY <1>2, <2>2, <2>3
  <2>4. ASSUME NEW s \in Session, NEW p \in Packet, Tried(s, p), p.kind # "probe"
        PROVE  Numbered(r)' /\ InOrder(r)'
    <3>1. CASE r = s
      BY <1>1, <2>1, <2>4, <3>1, NoProbe
    <3>2. CASE r # s
      BY <1>2, <2>2, <2>4, <3>2 DEF Tried
    <3> QED
      BY <3>1, <3>2
  <2> QED
    BY <1>5, <2>3, <2>4, StepTries DEF TriesStep
<1> QED
  BY <1>3, <1>4, <1>5

\* What was handed to sendto stays in the history.
LEMMA TriesGrow ==
    TypeOK /\ BuiltInv /\ [Next]_vars =>
        \A s \in Session :
            /\ \A n \in 1 .. Len(tries[s]) : n \in 1 .. Len(tries'[s]) /\ tries'[s][n] = tries[s][n]
            /\ Len(tries[s]) \in Nat
<1> SUFFICES ASSUME TypeOK, BuiltInv, [Next]_vars, NEW s \in Session
             PROVE  /\ \A n \in 1 .. Len(tries[s]) : n \in 1 .. Len(tries'[s]) /\ tries'[s][n] = tries[s][n]
                    /\ Len(tries[s]) \in Nat
  OBVIOUS
<1>1. Len(tries[s]) \in Nat
  BY Places
<1>2. CASE UNCHANGED tries
  BY <1>1, <1>2
<1>3. ASSUME NEW r \in Session, NEW p \in Packet, Tried(r, p)
      PROVE  \A n \in 1 .. Len(tries[s]) : n \in 1 .. Len(tries'[s]) /\ tries'[s][n] = tries[s][n]
  <2>1. CASE r = s
    <3>1. Len(tries'[s]) = Len(tries[s]) + 1 /\ \A n \in 1 .. Len(tries[s]) : tries'[s][n] = tries[s][n]
      BY <1>3, <2>1 DEF Tried
    <3> QED
      BY <1>1, <3>1
  <2>2. CASE r # s
    BY <1>3, <2>2 DEF Tried
  <2> QED
    BY <2>1, <2>2
<1> QED
  BY <1>1, <1>2, <1>3, StepTries DEF TriesStep

Acked(s) == \E k \in 1 .. Len(tries[s]) : tries[s][k].packet.kind = "ack"

\* A delay thread, running or about to start, implies a packet_2 sent; a session
\* that is connected and not about to send one has sent one.
AckInv ==
    /\ AckBeforeProbe
    /\ \A s \in Session :
        delay_thread[s] > 0 \/ recv_pc[s] = "spawn" \/ (is_connected[s] /\ recv_pc[s] # "ack") => Acked(s)

LEMMA AckInductive == TypeOK /\ BuiltInv /\ StartInv /\ AckInv /\ [Next]_vars => AckInv'
<1> SUFFICES ASSUME TypeOK, BuiltInv, StartInv, AckInv, [Next]_vars PROVE AckInv'
  OBVIOUS
<1>1. \A s \in Session : Acked(s) => Acked(s)'
  BY TriesGrow DEF Acked
<1>2. AckBeforeProbe'
  <2>1. CASE UNCHANGED tries
    BY <2>1 DEF AckInv, AckBeforeProbe, ProbeAt
  <2>2. ASSUME NEW s \in Session, NEW p \in Packet, Tried(s, p),
               p.kind = "probe" => Acked(s)
        PROVE  AckBeforeProbe'
    <3> SUFFICES ASSUME NEW r \in Session, NEW n \in 1 .. Len(tries'[r]), ProbeAt(r, n)'
                 PROVE  \E k \in 1 .. n - 1 : tries'[r][k].packet.kind = "ack"
      BY DEF AckBeforeProbe
    <3>1. Len(tries[s]) \in Nat /\ Len(tries'[s]) = Len(tries[s]) + 1
          /\ (\A m \in 1 .. Len(tries[s]) : tries'[s][m] = tries[s][m])
          /\ tries'[s][Len(tries[s]) + 1].packet = p
          /\ (r # s => tries'[r] = tries[r])
      BY <2>2, Places DEF Tried
    <3>2. CASE r # s
      BY <3>1, <3>2 DEF AckInv, AckBeforeProbe, ProbeAt
    <3>3. CASE r = s /\ n \in 1 .. Len(tries[s])
      <4>1. ProbeAt(s, n) /\ \A k \in 1 .. n - 1 : k \in 1 .. Len(tries[s])
        BY <3>1, <3>3 DEF ProbeAt
      <4> QED
        BY <3>1, <3>3, <4>1 DEF AckInv, AckBeforeProbe
    <3>4. CASE r = s /\ n = Len(tries[s]) + 1
      <4>1. p.kind = "probe"
        BY <3>1, <3>4 DEF ProbeAt
      <4>2. n - 1 = Len(tries[s])
        BY <3>1, <3>4
      <4> QED
        BY <2>2, <3>1, <3>4, <4>1, <4>2 DEF Acked
    <3> QED
      BY <3>1, <3>2, <3>3, <3>4
  <2>3. ASSUME NEW s \in Session, SendProbe(s) PROVE Acked(s)
    <3>1. delay_thread[s] > 0
      BY <2>3, SendsBuilt
    <3> QED
      BY <3>1 DEF AckInv
  <2> QED
    BY <2>1, <2>2, <2>3, StepTries DEF TriesStep
<1> SUFFICES ASSUME NEW r \in Session,
                    delay_thread'[r] > 0 \/ recv_pc'[r] = "spawn" \/ (is_connected'[r] /\ recv_pc'[r] # "ack")
             PROVE  Acked(r)'
  BY <1>2 DEF AckInv
<1>3. ASSUME delay_thread'[r] > 0, UNCHANGED delay_thread PROVE Acked(r)'
  BY <1>1, <1>3 DEF AckInv
<1>4. ASSUME recv_pc'[r] = recv_pc[r], is_connected'[r] = is_connected[r], delay_thread'[r] = delay_thread[r]
      PROVE  Acked(r)'
  BY <1>1, <1>4 DEF AckInv
<1>5. CASE StartReceive
  <2>1. main = "thread" /\ next \in Session /\ UNCHANGED <<is_connected, delay_thread>>
        /\ (r # next => recv_pc'[r] = recv_pc[r]) /\ (recv_pc'[next] = "call" \/ UNCHANGED recv_pc)
    BY <1>5 DEF StartReceive, TypeOK, sessionVars
  <2>2. ~is_connected[next]
    <3>1. next >= next
      BY <2>1 DEF Session
    <3> QED
      BY <2>1, <3>1 DEF StartInv
  <2> QED
    BY <1>3, <1>4, <2>1, <2>2
<1>6. CASE SendInit \/ Exit \/ Disconnect \/ Close \/ Free \/ Return \/ UNCHANGED vars
           \/ \E s \in Session : BuildProbe(s) \/ SendProbe(s) \/ UseFreed(s)
  BY <1>4, <1>6 DEF SendInit, Exit, Disconnect, Close, Free, Return, BuildProbe, SendProbe, UseFreed, sessionVars, vars
<1>7. ASSUME NEW s \in Session, CallReceive(s) \/ ReceiveFails(s) \/ HandleEcho(s) \/ HandleBye(s)
                                \/ \E m \in Receivable(s) : Receive(s, m)
      PROVE  Acked(r)'
  <2>1. recv_pc[s] # "ack" /\ recv_pc'[s] # "spawn" /\ UNCHANGED <<is_connected, delay_thread>>
        /\ (r # s => recv_pc'[r] = recv_pc[r])
    BY <1>7 DEF CallReceive, ReceiveFails, HandleEcho, HandleBye, Receive, At, Goto, TypeOK, sessionVars
  <2> QED
    BY <1>1, <1>4, <2>1 DEF AckInv
<1>8. ASSUME NEW s \in Session, HandleRefusal(s) PROVE Acked(r)'
  <2>1. recv_pc[s] # "ack" /\ (recv_pc'[s] = "spawn" => is_connected[s]) /\ UNCHANGED <<is_connected, delay_thread>>
        /\ (r # s => recv_pc'[r] = recv_pc[r])
    BY <1>8 DEF HandleRefusal, At, Goto, TypeOK, sessionVars
  <2> QED
    BY <1>1, <1>4, <2>1 DEF AckInv
<1>9. ASSUME NEW s \in Session, HandleWelcome(s) PROVE Acked(r)'
  <2>1. recv_pc'[s] = "ack" /\ UNCHANGED delay_thread
        /\ (r # s => recv_pc'[r] = recv_pc[r] /\ is_connected'[r] = is_connected[r])
    BY <1>9 DEF HandleWelcome, Goto, TypeOK
  <2> QED
    BY <1>3, <1>4, <2>1
<1>10. ASSUME NEW s \in Session, SendAck(s) PROVE Acked(r)'
  <2>1. UNCHANGED <<is_connected, delay_thread>> /\ (r # s => recv_pc'[r] = recv_pc[r])
    BY <1>10 DEF SendAck, Goto, TypeOK, sessionVars
  <2>2. Pkt("ack", client_id[s], 0) \in Packet /\ Pkt("ack", client_id[s], 0).kind = "ack"
    BY DEF Pkt, Packet, TypeOK
  <2>3. Tried(s, Pkt("ack", client_id[s], 0))
    BY <1>10, <2>2, Sends DEF SendAck
  <2>4. /\ Len(tries[s]) \in Nat /\ Len(tries'[s]) = Len(tries[s]) + 1
        /\ tries'[s][Len(tries[s]) + 1].packet.kind = "ack"
    BY <2>2, <2>3, Places DEF Tried
  <2>5. Len(tries[s]) + 1 \in 1 .. Len(tries'[s])
    BY <2>4
  <2>6. Acked(s)'
    BY <2>4, <2>5 DEF Acked
  <2> QED
    BY <1>4, <2>1, <2>6
<1>11. ASSUME NEW s \in Session, Spawn(s) PROVE Acked(r)'
  <2>1. recv_pc[s] = "spawn" /\ UNCHANGED is_connected
        /\ (r # s => recv_pc'[r] = recv_pc[r] /\ delay_thread'[r] = delay_thread[r])
    BY <1>11 DEF Spawn, At, Goto, TypeOK, sessionVars
  <2> QED
    BY <1>1, <1>4, <2>1 DEF AckInv
<1> QED
  BY <1>5, <1>6, <1>7, <1>8, <1>9, <1>10, <1>11 DEF Next, Main, ReceiveThread

\* Session s has sent probe n.
Probed(s, n) ==
    \E k \in 1 .. Len(tries[s]) : ProbeAt(s, k) /\ tries[s][k].ok /\ tries[s][k].packet.seq = n

\* An echo that is being handled has the number of a probe sent.
ReportInv ==
    /\ ReportsMatchProbe
    /\ \A s \in Session : recv_pc[s] = "handle" /\ buffer[s].type = "echo" => Probed(s, buffer[s].seq)

LEMMA ReportInductive == TypeOK /\ BuiltInv /\ ReportInv /\ [Next]_vars => ReportInv'
<1> SUFFICES ASSUME TypeOK, BuiltInv, ReportInv, [Next]_vars PROVE ReportInv'
  OBVIOUS
<1>1. \A s \in Session : \A n : Probed(s, n) =>
        \E k \in 1 .. Len(tries'[s]) : ProbeAt(s, k)' /\ tries'[s][k].ok /\ tries'[s][k].packet.seq = n
  BY TriesGrow DEF Probed, ProbeAt
<1>2. ReportsMatchProbe'
  <2>1. CASE UNCHANGED tries
    BY <2>1 DEF ReportInv, ReportsMatchProbe, ProbeAt
  <2>2. ASSUME NEW s \in Session, NEW p \in Packet, Tried(s, p),
               p.kind = "report" => Probed(s, p.seq)
        PROVE  ReportsMatchProbe'
    <3> SUFFICES ASSUME NEW r \in Session, NEW n \in 1 .. Len(tries'[r]), tries'[r][n].packet.kind = "report"
                 PROVE  \E k \in 1 .. n - 1 : ProbeAt(r, k)' /\ tries'[r][k].ok
                                              /\ tries'[r][k].packet.seq = tries'[r][n].packet.seq
      BY DEF ReportsMatchProbe
    <3>1. Len(tries[s]) \in Nat /\ Len(tries'[s]) = Len(tries[s]) + 1
          /\ (\A m \in 1 .. Len(tries[s]) : tries'[s][m] = tries[s][m])
          /\ tries'[s][Len(tries[s]) + 1].packet = p
          /\ (r # s => tries'[r] = tries[r])
      BY <2>2, Places DEF Tried
    <3>2. CASE r # s
      <4>1. tries'[r] = tries[r] /\ n \in 1 .. Len(tries[r]) /\ tries[r][n].packet.kind = "report"
        BY <3>1, <3>2
      <4>2. \E k \in 1 .. n - 1 : ProbeAt(r, k) /\ tries[r][k].ok
                                   /\ tries[r][k].packet.seq = tries[r][n].packet.seq
        BY <4>1 DEF ReportInv, ReportsMatchProbe
      <4> QED
        BY <4>1, <4>2 DEF ProbeAt
    <3>3. CASE r = s /\ n \in 1 .. Len(tries[s])
      <4>1. \A k \in 1 .. n - 1 : k \in 1 .. Len(tries[s])
        BY <3>1, <3>3
      <4>2. tries'[s][n] = tries[s][n] /\ tries[s][n].packet.kind = "report"
        BY <3>1, <3>3
      <4>3. PICK k \in 1 .. n - 1 : ProbeAt(s, k) /\ tries[s][k].ok
                                    /\ tries[s][k].packet.seq = tries[s][n].packet.seq
        BY <3>3, <4>2 DEF ReportInv, ReportsMatchProbe
      <4>4. tries'[s][k] = tries[s][k]
        BY <3>1, <4>1
      <4> QED
        BY <3>3, <4>2, <4>3, <4>4 DEF ProbeAt
    <3>4. CASE r = s /\ n = Len(tries[s]) + 1
      <4>1. Probed(s, p.seq) /\ tries'[r][n].packet = p
        BY <2>2, <3>1, <3>4
      <4>2. n - 1 = Len(tries[s])
        BY <3>1, <3>4
      <4>3. PICK k \in 1 .. Len(tries[s]) : ProbeAt(s, k) /\ tries[s][k].ok /\ tries[s][k].packet.seq = p.seq
        BY <4>1 DEF Probed
      <4>4. tries'[s][k] = tries[s][k] /\ k \in 1 .. n - 1
        BY <3>1, <4>2
      <4> QED
        BY <3>4, <4>1, <4>3, <4>4 DEF ProbeAt
    <3> QED
      BY <3>1, <3>2, <3>3, <3>4
  <2>3. ASSUME NEW s \in Session, SendProbe(s) PROVE built[s][1].kind = "probe"
    BY <2>3, SendsBuilt DEF BuiltInv
  <2> QED
    BY <2>1, <2>2, <2>3, StepTries DEF TriesStep, ReportInv
<1> SUFFICES ASSUME NEW r \in Session, recv_pc'[r] = "handle", buffer'[r].type = "echo"
             PROVE  Probed(r, buffer[r].seq)'
  BY <1>2 DEF ReportInv
<1>3. ASSUME recv_pc[r] = "handle", buffer'[r] = buffer[r] PROVE Probed(r, buffer[r].seq)'
  <2>1. Probed(r, buffer[r].seq)
    BY <1>3 DEF ReportInv
  <2>2. \E k \in 1 .. Len(tries'[r]) :
            ProbeAt(r, k)' /\ tries'[r][k].ok /\ tries'[r][k].packet.seq = buffer[r].seq
    BY <1>1, <2>1
  <2> QED
    BY <1>3, <2>2 DEF Probed
<1>4. ASSUME NEW s \in Session, NEW m \in Receivable(s), Receive(s, m) PROVE Probed(r, buffer[r].seq)'
  <2>1. /\ r # s => recv_pc'[r] = recv_pc[r] /\ buffer'[r] = buffer[r]
        /\ r = s => buffer'[r] = m
        /\ UNCHANGED tries
    BY <1>4 DEF Receive, Goto, TypeOK
  <2>2. CASE r = s
    <3>1. \E n \in 1 .. Len(tries[s]) : ProbeAt(s, n) /\ tries[s][n].ok /\ m.seq = tries[s][n].packet.seq
      BY <2>1, <2>2 DEF Receivable, ProbeAt
    <3>2. Probed(s, m.seq)
      BY <3>1 DEF Probed
    <3> QED
      BY <2>1, <2>2, <3>2 DEF Probed, ProbeAt
  <2>3. CASE r # s
    BY <1>3, <2>1, <2>3
  <2> QED
    BY <2>2, <2>3
<1>5. CASE Main \/ UNCHANGED vars \/ \E s \in Session : BuildProbe(s) \/ SendProbe(s) \/ UseFreed(s)
  <2>1. UNCHANGED buffer /\ (recv_pc'[r] = recv_pc[r] \/ recv_pc'[r] = "call")
    BY <1>5 DEF Main, SendInit, StartReceive, Exit, Disconnect, Close, Free, Return, vars, BuildProbe, SendProbe,
                UseFreed, TypeOK
  <2> QED
    BY <1>3, <2>1
<1>6. ASSUME NEW s \in Session, CallReceive(s) \/ ReceiveFails(s) \/ HandleWelcome(s) \/ SendAck(s) \/ Spawn(s)
                                \/ HandleEcho(s) \/ HandleBye(s)
      PROVE  Probed(r, buffer[r].seq)'
  <2>1. UNCHANGED buffer /\ recv_pc'[s] # "handle" /\ (r # s => recv_pc'[r] = recv_pc[r])
    BY <1>6 DEF CallReceive, ReceiveFails, HandleWelcome, SendAck, Spawn, HandleEcho, HandleBye, Goto, TypeOK
  <2> QED
    BY <1>3, <2>1
<1>7. ASSUME NEW s \in Session, HandleRefusal(s) PROVE Probed(r, buffer[r].seq)'
  <2>1. UNCHANGED buffer /\ recv_pc'[s] # "handle" /\ (r # s => recv_pc'[r] = recv_pc[r])
    BY <1>7 DEF HandleRefusal, Goto, TypeOK
  <2> QED
    BY <1>3, <2>1
<1> QED
  BY <1>4, <1>5, <1>6, <1>7 DEF Next, ReceiveThread

\* However often and in whatever order datagrams are delivered and whatever calls
\* fail, probes are numbered in order, follow a packet_2, and reports speak of
\* probes that were sent.
THEOREM PacketsAreInOrder == Spec => []PacketsInOrder
<1>1. Init => BuiltInv /\ StartInv /\ SeqInv /\ AckInv /\ ReportInv
  <2> SUFFICES ASSUME Init PROVE BuiltInv /\ StartInv /\ SeqInv /\ AckInv /\ ReportInv
    OBVIOUS
  <2>1. \A s \in Session : /\ tries[s] = <<>> /\ built[s] = <<>> /\ delay_thread[s] = 0 /\ seq_num[s] = 0
                           /\ recv_pc[s] = "off" /\ ~is_connected[s]
    BY DEF Init
  <2>2. \A s \in Session : Len(tries[s]) = 0 /\ Len(built[s]) = 0 /\ 1 .. Len(tries[s]) = {}
    BY <2>1
  <2>3. BuiltInv /\ StartInv
    BY <2>1, <2>2 DEF BuiltInv, StartInv
  <2>4. SeqInv
    BY <2>1, <2>2 DEF SeqInv, Numbered, InOrder, NextNumber
  <2>5. AckInv /\ ReportInv
    BY <2>1, <2>2 DEF AckInv, AckBeforeProbe, ReportInv, ReportsMatchProbe
  <2> QED
    BY <2>3, <2>4, <2>5
<1>2. Spec => [](TypeOK /\ StartInv)
  BY <1>1, TypeCorrect, StartInductive, PTL DEF Spec
<1>3. Spec => []BuiltInv
  BY <1>1, <1>2, BuiltInductive, PTL DEF Spec
<1>4. Spec => []SeqInv
  BY <1>1, <1>2, <1>3, SeqInductive, PTL DEF Spec
<1>5. Spec => []AckInv
  BY <1>1, <1>2, <1>3, AckInductive, PTL DEF Spec
<1>6. Spec => []ReportInv
  BY <1>1, <1>2, <1>3, ReportInductive, PTL DEF Spec
<1>7. TypeOK /\ SeqInv /\ AckInv /\ ReportInv => PacketsInOrder
  <2>1. SeqInv => ProbesInOrder
    BY DEF SeqInv, InOrder, ProbesInOrder
  <2> QED
    BY <2>1 DEF AckInv, ReportInv, PacketsInOrder
<1> QED
  BY <1>2, <1>4, <1>5, <1>6, <1>7, PTL
=============================================================================
