---------------------------- MODULE ServerProofs ----------------------------
(***************************************************************************)
(* Proofs about Server for any number of threads, clients, datagrams,      *)
(* failures and restarts: its types, the ids it hands out, that no         *)
(* datagram is answered twice, that a receive slot is lost only to a       *)
(* failure, and that it implements Responder.                              *)
(***************************************************************************)
EXTENDS ServerRefinement, FiniteSetTheorems, TLAPS

\* What can arrive is a datagram: the bytes read as a client_id are a number.
LEMMA IncomingType ==
    ASSUME TypeOK, NEW d \in Incoming
    PROVE  d \in Datagram
  BY ServerAssumption DEF TypeOK, Incoming, Datagram, GarbageId, Kind

\* A queue of the model with an element less or more is still a queue.
LEMMA QueueType ==
    ASSUME NEW S, NEW q \in Seq(S)
    PROVE  /\ q # <<>> => Head(q) \in S /\ Tail(q) \in Seq(S)
           /\ \A e \in S : Append(q, e) \in Seq(S)
  OBVIOUS

\* The slot a thread holds and the datagram in it are well formed.
LEMMA HeldType ==
    ASSUME TypeOK, NEW t \in Thread
    PROVE  slot[t] \in Slot /\ buf[slot[t]] \in Datagram
  BY DEF TypeOK

\* Setting the flag of one session changes nothing else in the table.
LEMMA Connected ==
    ASSUME NEW q \in Seq(Session), NEW i \in Nat, i < Len(q)
    PROVE  LET r == [q EXCEPT ![i + 1].connected = TRUE] IN
           /\ Len(r) = Len(q)
           /\ \A k \in 1 .. Len(q) : r[k].c_id = q[k].c_id /\ r[k].c_name = q[k].c_name
<1> DEFINE row == [q[i + 1] EXCEPT !.connected = TRUE]
           r == [q EXCEPT ![i + 1].connected = TRUE]
<1>1. i + 1 \in 1 .. Len(q) /\ q[i + 1] \in Session
  OBVIOUS
<1>2. row.c_id = q[i + 1].c_id /\ row.c_name = q[i + 1].c_name
  BY <1>1 DEF Session
<1>3. r = [q EXCEPT ![i + 1] = row]
  OBVIOUS
<1>4. Len(r) = Len(q) /\ \A k \in 1 .. Len(q) : r[k] = IF k = i + 1 THEN row ELSE q[k]
  BY <1>1, <1>3
<1> QED
  BY <1>2, <1>4

\* A step of the process, its kernel or its restart keeps the types.
LEMMA TypeInductive == TypeOK /\ [Next]_vars => TypeOK'
<1> SUFFICES ASSUME TypeOK, [Next]_vars PROVE TypeOK'
  OBVIOUS
<1> USE ServerAssumption
<1>1. CASE InitPending
  BY <1>1 DEF TypeOK, InitPending, Slot, threadVars, tableVars, outVars, countVars
<1>2. ASSUME NEW d \in Incoming, InitImmediate(d) PROVE TypeOK'
  <2>0. started \in 0 .. N /\ started < N
    BY <1>2 DEF TypeOK, InitImmediate
  <2>1. d \in Datagram /\ started + 1 \in Slot /\ [slot |-> started + 1, ok |-> TRUE] \in Completion
    BY <2>0, IncomingType DEF Slot, Completion
  <2>2. buf' \in [Slot -> Datagram] /\ cq' \in Seq(Completion)
    BY <1>2, <2>1, QueueType DEF TypeOK, InitImmediate
  <2>3. early' \in Nat /\ arrivals' \in Nat
    BY <1>2 DEF TypeOK, InitImmediate
  <2> QED
    BY <1>2, <2>2, <2>3 DEF TypeOK, InitImmediate, threadVars, tableVars, outVars
<1>3. ASSUME NEW s \in Slot, NEW d \in Incoming, Deliver(s, d) PROVE TypeOK'
  <2>1. d \in Datagram /\ [slot |-> s, ok |-> TRUE] \in Completion
    BY IncomingType DEF Completion
  <2>2. buf' \in [Slot -> Datagram] /\ cq' \in Seq(Completion)
    BY <1>3, <2>1, QueueType DEF TypeOK, Deliver
  <2>3. ops' \in [Slot -> Nat] /\ arrivals' \in Nat
    BY <1>3 DEF TypeOK, Deliver
  <2> QED
    BY <1>3, <2>2, <2>3 DEF TypeOK, Deliver, threadVars, tableVars, outVars
<1>4. ASSUME NEW s \in Slot, FailReceive(s) PROVE TypeOK'
  BY <1>4, QueueType
     DEF TypeOK, FailReceive, Completion, threadVars, tableVars, outVars
<1>5. ASSUME NEW t \in Thread, Take(t) PROVE TypeOK'
  <2>1. Head(cq) \in Completion /\ Tail(cq) \in Seq(Completion)
    BY <1>5, QueueType DEF TypeOK, Take
  <2>2. slot' \in [Thread -> Slot] /\ pc' \in [Thread -> Loc] /\ cq' \in Seq(Completion)
    BY <1>5, <2>1 DEF TypeOK, Take, Goto, Loc, Completion
  <2> QED
    BY <1>5, <2>2 DEF TypeOK, Take, tableVars, outVars, countVars
<1>6. ASSUME NEW t \in Thread, TakeFailed(t) PROVE TypeOK'
  BY <1>6, QueueType DEF TypeOK, TakeFailed, threadVars, tableVars, outVars, countVars
<1>7. ASSUME NEW t \in Thread, Dispatch(t) PROVE TypeOK'
  BY <1>7, HeldType
     DEF TypeOK, Dispatch, Goto, CaseOf, Loc, Datagram, Kind, portVars, tableVars, outVars, countVars
<1>8. ASSUME NEW t \in Thread, Lock(t) PROVE TypeOK'
  <2>1. Len(sessions) \in Nat /\ t \in 0 .. N
    BY DEF TypeOK, Thread
  <2>2. id' \in [Thread -> Nat] /\ mutex' \in 0 .. N /\ pc' \in [Thread -> Loc]
    BY <1>8, <2>1 DEF TypeOK, Lock, Goto, Loc
  <2> QED
    BY <1>8, <2>2 DEF TypeOK, Lock, portVars, outVars, countVars
<1>9. ASSUME NEW t \in Thread, PushSession(t) PROVE TypeOK'
  <2>1. [c_name |-> NameIn(buf[slot[t]]), c_id |-> id[t], connected |-> FALSE] \in Session
    BY HeldType DEF TypeOK, NameIn, Datagram, Session
  <2>2. sessions' \in Seq(Session)
    BY <1>9, <2>1, QueueType DEF TypeOK, PushSession
  <2> QED
    BY <1>9, <2>2 DEF TypeOK, PushSession, Goto, Loc, portVars, outVars, countVars
<1>10. ASSUME NEW t \in Thread, PushWelcome(t) PROVE TypeOK'
  <2>1. [kind |-> "welcome", id |-> id[t], addr |-> buf[slot[t]].addr, tag |-> buf[slot[t]].tag] \in Reply
    BY HeldType DEF TypeOK, Datagram, Reply
  <2>2. sendq' \in Seq(Reply)
    BY <1>10, <2>1, QueueType DEF TypeOK, PushWelcome
  <2> QED
    BY <1>10, <2>2 DEF TypeOK, PushWelcome, Goto, Loc, portVars, tableVars, countVars
<1>11. ASSUME NEW t \in Thread, Ack(t) PROVE TypeOK'
  <2> DEFINE i == buf[slot[t]].id
  <2>1. i \in Nat
    BY HeldType DEF Datagram
  <2>2. sessions' \in Seq(Session)
    <3>1. CASE Live(i)
      <4>1. i + 1 \in 1 .. Len(sessions) /\ sessions[i + 1] \in Session
        BY <2>1, <3>1 DEF Live, TypeOK
      <4>2. [sessions[i + 1] EXCEPT !.connected = TRUE] \in Session
        BY <4>1 DEF Session
      <4>3. sessions' = [sessions EXCEPT ![i + 1] = [sessions[i + 1] EXCEPT !.connected = TRUE]]
        BY <1>11, <3>1 DEF Ack
      <4> QED
        BY <4>1, <4>2, <4>3 DEF TypeOK
    <3>2. CASE ~Live(i)
      BY <1>11, <3>2 DEF Ack, TypeOK
    <3> QED
      BY <3>1, <3>2
  <2>3. up' \in BOOLEAN /\ wild' \in BOOLEAN
    BY <1>11 DEF Ack, Index, TypeOK
  <2>4. pc' \in [Thread -> Loc]
    BY <1>11 DEF Ack, Goto, Loc, TypeOK
  <2> QED
    BY <1>11, <2>2, <2>3, <2>4 DEF TypeOK, Ack, portVars, outVars, countVars
<1>12. ASSUME NEW t \in Thread, PushEcho(t) PROVE TypeOK'
  <2>1. [kind |-> "echo", id |-> buf[slot[t]].id, addr |-> buf[slot[t]].addr, tag |-> buf[slot[t]].tag] \in Reply
    BY HeldType DEF TypeOK, Datagram, Reply
  <2>2. sendq' \in Seq(Reply)
    BY <1>12, <2>1, QueueType DEF TypeOK, PushEcho
  <2> QED
    BY <1>12, <2>2 DEF TypeOK, PushEcho, Goto, Loc, portVars, tableVars, countVars
<1>13. ASSUME NEW t \in Thread, Rearm(t) PROVE TypeOK'
  BY <1>13, HeldType DEF TypeOK, Rearm, Goto, Loc, tableVars, outVars, countVars
<1>14. ASSUME NEW t \in Thread, RearmFails(t) PROVE TypeOK'
  BY <1>14 DEF TypeOK, RearmFails, Goto, Loc, portVars, tableVars, outVars
<1>15. CASE SendOne
  <2> DEFINE j == Head(sendq)
  <2>1. j \in Reply /\ Tail(sendq) \in Seq(Reply)
    BY <1>15, QueueType DEF TypeOK, SendOne
  <2>2. up' \in BOOLEAN /\ wild' \in BOOLEAN
    BY <1>15 DEF SendOne, Index, TypeOK
  <2>3. <<j.addr, j.id>> \in (Addr \union {NoName}) \X Nat
    BY <2>1 DEF Reply
  <2>4. sent' \in SUBSET (sent \union {j})
    BY <1>15 DEF SendOne
  <2>5. granted' \in SUBSET (granted \union {<<j.addr, j.id>>})
    BY <1>15 DEF SendOne
  <2> QED
    BY <1>15, <2>1, <2>2, <2>3, <2>4, <2>5
       DEF TypeOK, SendOne, portVars, threadVars, tableVars, countVars
<1>16. CASE Restart
  BY <1>16 DEF TypeOK, Restart, Loc, Blank, Datagram, Kind, Slot, Thread
<1>17. CASE UNCHANGED vars
  BY <1>17 DEF TypeOK, vars, portVars, threadVars, tableVars, outVars, countVars
<1> QED
  BY <1>1, <1>2, <1>3, <1>4, <1>5, <1>6, <1>7, <1>8, <1>9, <1>10, <1>11, <1>12,
     <1>13, <1>14, <1>15, <1>16, <1>17 DEF Next, Kernel, ThreadStep

\* A process that has just been started.
LEMMA TypeInit == Init => TypeOK
<1> SUFFICES ASSUME Init PROVE TypeOK
  OBVIOUS
<1>1. Blank \in Datagram
  BY DEF Blank, Datagram, Kind
<1>2. /\ started \in 0 .. N /\ mutex \in 0 .. N
      /\ arrivals \in Nat /\ early \in Nat /\ failures \in Nat /\ restarts \in Nat
  BY ServerAssumption DEF Init, Boot
<1>5. up \in BOOLEAN /\ wild \in BOOLEAN
  BY DEF Init, Boot
<1>3. /\ ops \in [Slot -> Nat] /\ buf \in [Slot -> Datagram]
      /\ pc \in [Thread -> Loc] /\ slot \in [Thread -> Slot] /\ id \in [Thread -> Nat]
  BY <1>1 DEF Init, Boot, Loc, Slot, Thread
<1>4. /\ cq \in Seq(Completion) /\ sessions \in Seq(Session) /\ sendq \in Seq(Reply)
      /\ sent \subseteq Reply /\ granted \subseteq (Addr \union {NoName}) \X Nat
  BY DEF Init, Boot
<1> QED
  BY <1>2, <1>3, <1>4, <1>5 DEF TypeOK

\* Every variable keeps its type in every step: init(), the receive threads,
\* the send loop and a restart.
THEOREM TypeCorrect == Spec => []TypeOK
  BY TypeInit, TypeInductive, PTL DEF Spec

-----------------------------------------------------------------------------
(* The session table: session_mutex makes size() and push_back one step.   *)

\* IdMatchesIndex, with what the holder of session_mutex knows (its client_id
\* is still the size of the table) and what remains true after the unlock
\* (its client_id is an index of the table).
TableInv ==
    /\ IdMatchesIndex
    /\ \A t \in Thread : pc[t] = "push" <=> mutex = t
    /\ \A t \in Thread : pc[t] = "push" => id[t] = Len(sessions)
    /\ \A t \in Thread : pc[t] = "welcome" => id[t] < Len(sessions)

\* "switch" leads to one of its cases or past it.
LEMMA CaseOfType ==
    ASSUME NEW k \in Kind
    PROVE  CaseOf(k) \in {"lock", "ack", "echo", "rearm"}
  BY DEF CaseOf, Kind

\* A thread that neither holds session_mutex nor takes it leaves TableInv true.
LEMMA TableFrame ==
    ASSUME TypeOK, TableInv, NEW t \in Thread, NEW loc \in Loc \ {"push", "welcome"},
           pc[t] # "push", Goto(t, loc), UNCHANGED <<id, mutex, sessions>>
    PROVE  TableInv'
  BY DEF TypeOK, TableInv, IdMatchesIndex, Goto, Thread, Loc

LEMMA TableInductive == TypeOK /\ TableInv /\ [Next]_vars => TableInv'
<1> SUFFICES ASSUME TypeOK, TableInv, [Next]_vars PROVE TableInv'
  OBVIOUS
<1>1. ASSUME UNCHANGED <<pc, id, mutex, sessions>> PROVE TableInv'
  BY <1>1 DEF TableInv, IdMatchesIndex
<1>2. CASE InitPending \/ Kernel \/ SendOne \/ UNCHANGED vars
  BY <1>1, <1>2 DEF InitPending, Kernel, InitImmediate, Deliver, FailReceive, SendOne,
                    vars, threadVars, tableVars
<1>3. ASSUME NEW t \in Thread, TakeFailed(t) PROVE TableInv'
  BY <1>1, <1>3 DEF TakeFailed, threadVars, tableVars
<1>4. ASSUME NEW t \in Thread, Take(t) PROVE TableInv'
  BY <1>4, TableFrame DEF Loc, Take, At, tableVars
<1>5. ASSUME NEW t \in Thread, Dispatch(t) PROVE TableInv'
  <2>1. CaseOf(buf[slot[t]].kind) \in {"lock", "ack", "echo", "rearm"}
    BY CaseOfType, HeldType DEF Datagram
  <2> QED
    BY <1>5, <2>1, TableFrame DEF Loc, Dispatch, At, tableVars
<1>6. ASSUME NEW t \in Thread, Lock(t) PROVE TableInv'
  <2>1. /\ mutex = 0 /\ mutex' = t /\ sessions' = sessions
        /\ pc' = [pc EXCEPT ![t] = "push"] /\ id' = [id EXCEPT ![t] = Len(sessions)]
    BY <1>6 DEF Lock, Goto
  <2>2. \A u \in Thread : pc[u] # "push"
    BY <2>1 DEF TableInv, Thread
  <2>3. \A u \in Thread : u # t => pc'[u] = pc[u] /\ id'[u] = id[u]
    BY <2>1 DEF TypeOK
  <2>4. pc'[t] = "push" /\ id'[t] = Len(sessions)
    BY <2>1 DEF TypeOK
  <2> QED
    BY <2>1, <2>2, <2>3, <2>4 DEF TableInv, IdMatchesIndex
<1>7. ASSUME NEW t \in Thread, PushSession(t) PROVE TableInv'
  <2> DEFINE row == [c_name |-> NameIn(buf[slot[t]]), c_id |-> id[t], connected |-> FALSE]
  <2>1. /\ pc[t] = "push" /\ mutex = t /\ id[t] = Len(sessions)
        /\ sessions' = Append(sessions, row) /\ mutex' = 0
        /\ pc' = [pc EXCEPT ![t] = "welcome"] /\ id' = id
    BY <1>7 DEF PushSession, At, Goto, TableInv
  <2>2. /\ Len(sessions') = Len(sessions) + 1 /\ Len(sessions) \in Nat
        /\ \A i \in 1 .. Len(sessions) : sessions'[i] = sessions[i]
        /\ sessions'[Len(sessions) + 1] = row
    BY <2>1 DEF TypeOK
  <2>3. IdMatchesIndex'
    BY <2>1, <2>2 DEF TableInv, IdMatchesIndex
  <2>4. \A u \in Thread : pc'[u] # "push" /\ mutex' # u
    BY <2>1 DEF TableInv, TypeOK, Thread
  <2>5. \A u \in Thread : pc'[u] = "welcome" => id'[u] < Len(sessions')
    BY <2>1, <2>2 DEF TableInv, TypeOK
  <2> QED
    BY <2>3, <2>4, <2>5 DEF TableInv
<1>8. ASSUME NEW t \in Thread, PushWelcome(t) PROVE TableInv'
  BY <1>8, TableFrame DEF Loc, PushWelcome, At, tableVars
<1>9. ASSUME NEW t \in Thread, Ack(t) PROVE TableInv'
  <2> DEFINE i == buf[slot[t]].id
  <2>1. /\ Len(sessions') = Len(sessions)
        /\ \A k \in 1 .. Len(sessions) : sessions'[k].c_id = sessions[k].c_id
    <3>1. CASE Live(i)
      <4>1. sessions' = [sessions EXCEPT ![i + 1].connected = TRUE]
        BY <1>9, <3>1 DEF Ack
      <4>2. sessions \in Seq(Session) /\ i \in Nat /\ i < Len(sessions)
        BY <3>1, HeldType DEF TypeOK, Live, Datagram
      <4> QED
        BY <4>1, <4>2, Connected
    <3>2. CASE ~Live(i)
      BY <1>9, <3>2 DEF Ack
    <3> QED
      BY <3>1, <3>2
  <2>2. pc' = [pc EXCEPT ![t] = "rearm"] /\ pc[t] = "ack" /\ UNCHANGED <<id, mutex>>
    BY <1>9 DEF Ack, At, Goto
  <2> QED
    BY <2>1, <2>2 DEF TypeOK, TableInv, IdMatchesIndex
<1>10. ASSUME NEW t \in Thread, PushEcho(t) PROVE TableInv'
  BY <1>10, TableFrame DEF Loc, PushEcho, At, tableVars
<1>11. ASSUME NEW t \in Thread, Rearm(t) \/ RearmFails(t) PROVE TableInv'
  BY <1>11, TableFrame DEF Loc, Rearm, RearmFails, At, tableVars
<1>12. CASE Restart
  BY <1>12 DEF Restart, TableInv, IdMatchesIndex, Thread
<1> QED
  BY <1>2, <1>3, <1>4, <1>5, <1>6, <1>7, <1>8, <1>9, <1>10, <1>11, <1>12
     DEF Next, ThreadStep

\* A session's c_id is its index in the table, however the receive threads
\* interleave in handle_packet, case 0.
THEOREM IdsMatchTable == Spec => []IdMatchesIndex
<1>1. Init => TableInv
  BY DEF Init, Boot, TableInv, IdMatchesIndex, Thread
<1>2. TableInv => IdMatchesIndex
  BY DEF TableInv
<1> QED
  BY <1>1, <1>2, TypeCorrect, TableInductive, PTL DEF Spec

-----------------------------------------------------------------------------
(* Announced ids: a client_id is in one packet_1 only.                     *)

\* UniqueIds, extended to the ids that threads are about to announce: those
\* are different from one another and from the ids already announced, and
\* every one of them is an index of the table.
AnnounceInv ==
    /\ UniqueIds
    /\ \A t, u \in Thread : pc[t] = "welcome" /\ pc[u] = "welcome" /\ id[t] = id[u] => t = u
    /\ \A t \in Thread, m \in 1 .. Len(sendq) :
        pc[t] = "welcome" /\ Welcome(sendq[m]) => id[t] # sendq[m].id
    /\ \A t \in Thread, j \in sent : pc[t] = "welcome" /\ Welcome(j) => id[t] # j.id
    /\ \A m \in 1 .. Len(sendq) : Welcome(sendq[m]) => sendq[m].id < Len(sessions)
    /\ \A j \in sent : Welcome(j) => j.id < Len(sessions)

\* A thread that announces nothing, before or after, leaves it true.
LEMMA AnnounceFrame ==
    ASSUME TypeOK, AnnounceInv, Len(sessions') = Len(sessions),
           UNCHANGED <<id, sendq, sent>>,
           \A t \in Thread : pc'[t] = "welcome" => pc[t] = "welcome"
    PROVE  AnnounceInv'
  BY DEF AnnounceInv, UniqueIds, Welcome

\* Where Goto leads.
LEMMA GotoElsewhere ==
    ASSUME TypeOK, NEW t \in Thread, NEW loc \in Loc, loc # "welcome", Goto(t, loc)
    PROVE  \A u \in Thread : pc'[u] = "welcome" => pc[u] = "welcome" /\ u # t
  BY DEF TypeOK, Goto, Loc

\* Append adds one element at the end, Tail moves the others down by one.
LEMMA QueueElements ==
    ASSUME NEW S, NEW q \in Seq(S)
    PROVE  /\ Len(q) \in Nat
           /\ \A e : /\ Len(Append(q, e)) = Len(q) + 1
                    /\ Append(q, e)[Len(q) + 1] = e
                    /\ \A m \in 1 .. Len(q) : Append(q, e)[m] = q[m]
           /\ q # <<>> => /\ Len(Tail(q)) = Len(q) - 1
                         /\ Head(q) = q[1] /\ 1 \in 1 .. Len(q)
                         /\ \A m \in 1 .. Len(Tail(q)) : m + 1 \in 1 .. Len(q) /\ Tail(q)[m] = q[m + 1]
  OBVIOUS

LEMMA AnnounceInductive ==
    TypeOK /\ TableInv /\ AnnounceInv /\ [Next]_vars => AnnounceInv'
<1> SUFFICES ASSUME TypeOK, TableInv, AnnounceInv, [Next]_vars PROVE AnnounceInv'
  OBVIOUS
<1>1. ASSUME UNCHANGED <<pc, id, sessions, sendq, sent>> PROVE AnnounceInv'
  BY <1>1, AnnounceFrame
<1>2. CASE InitPending \/ Kernel \/ UNCHANGED vars
  BY <1>1, <1>2 DEF InitPending, Kernel, InitImmediate, Deliver, FailReceive,
                    vars, threadVars, tableVars, outVars
<1>3. ASSUME NEW t \in Thread, TakeFailed(t) PROVE AnnounceInv'
  BY <1>1, <1>3 DEF TakeFailed, threadVars, tableVars, outVars
<1>4. ASSUME NEW t \in Thread, Take(t) PROVE AnnounceInv'
  BY <1>4, AnnounceFrame, GotoElsewhere DEF Take, Loc, tableVars, outVars
<1>5. ASSUME NEW t \in Thread, Dispatch(t) PROVE AnnounceInv'
  <2>1. CaseOf(buf[slot[t]].kind) \in {"lock", "ack", "echo", "rearm"}
    BY CaseOfType, HeldType DEF Datagram
  <2> QED
    BY <1>5, <2>1, AnnounceFrame, GotoElsewhere DEF Dispatch, Loc, tableVars, outVars
<1>6. ASSUME NEW t \in Thread, Lock(t) PROVE AnnounceInv'
  <2>1. \A u \in Thread : pc'[u] = "welcome" => pc[u] = "welcome" /\ id'[u] = id[u]
    BY <1>6, GotoElsewhere DEF Lock, Loc, TypeOK
  <2>2. UNCHANGED <<sessions, sendq, sent>>
    BY <1>6 DEF Lock, outVars
  <2> QED
    BY <2>1, <2>2 DEF AnnounceInv, UniqueIds, Welcome
<1>7. ASSUME NEW t \in Thread, PushSession(t) PROVE AnnounceInv'
  <2>1. /\ id[t] = Len(sessions) /\ Len(sessions') = Len(sessions) + 1 /\ Len(sessions) \in Nat
        /\ UNCHANGED <<id, sendq, sent>>
    BY <1>7, QueueElements DEF PushSession, At, TableInv, TypeOK, outVars
  <2>2. \A u \in Thread : u # t => pc'[u] = pc[u]
    BY <1>7 DEF PushSession, Goto, TypeOK
  <2>3. \A u \in Thread : pc[u] = "welcome" => id[u] \in Nat /\ id[u] < Len(sessions)
    BY DEF TableInv, TypeOK
  <2>4. /\ \A m \in 1 .. Len(sendq) : sendq[m].id \in Nat
        /\ \A j \in sent : j.id \in Nat
    <3>1. /\ \A m \in 1 .. Len(sendq) : sendq[m] \in Reply
          /\ \A j \in sent : j \in Reply
      BY DEF TypeOK
    <3> QED
      BY <3>1 DEF Reply
  <2>5. UniqueIds'
    BY <2>1 DEF AnnounceInv, UniqueIds, Welcome
  <2>6. \A u, v \in Thread : pc'[u] = "welcome" /\ pc'[v] = "welcome" /\ id'[u] = id'[v] => u = v
    BY <2>1, <2>2, <2>3 DEF AnnounceInv
  <2>7. \A u \in Thread : pc'[u] = "welcome" => u = t \/ pc[u] = "welcome"
    BY <2>2
  <2>8. /\ \A u \in Thread, m \in 1 .. Len(sendq') :
            pc'[u] = "welcome" /\ Welcome(sendq'[m]) => id'[u] # sendq'[m].id
        /\ \A m \in 1 .. Len(sendq') : Welcome(sendq'[m]) => sendq'[m].id < Len(sessions')
    BY <2>1, <2>4, <2>7 DEF AnnounceInv
  <2>9. /\ \A u \in Thread, j \in sent' :
            pc'[u] = "welcome" /\ Welcome(j) => id'[u] # j.id
        /\ \A j \in sent' : Welcome(j) => j.id < Len(sessions')
    BY <2>1, <2>4, <2>7 DEF AnnounceInv
  <2> QED
    BY <2>5, <2>6, <2>8, <2>9 DEF AnnounceInv, Welcome
<1>8. ASSUME NEW t \in Thread, PushWelcome(t) PROVE AnnounceInv'
  <2> DEFINE j == [kind |-> "welcome", id |-> id[t],
                   addr |-> buf[slot[t]].addr, tag |-> buf[slot[t]].tag]
  <2>1. /\ pc[t] = "welcome" /\ sendq' = Append(sendq, j) /\ UNCHANGED <<id, sessions, sent>>
    BY <1>8 DEF PushWelcome, At, tableVars
  <2>2. /\ Len(sendq') = Len(sendq) + 1 /\ Len(sendq) \in Nat
        /\ sendq'[Len(sendq) + 1] = j
        /\ \A m \in 1 .. Len(sendq) : sendq'[m] = sendq[m]
    BY <2>1, QueueElements DEF TypeOK
  <2>3. \A u \in Thread : pc'[u] = "welcome" => pc[u] = "welcome" /\ u # t
    BY <1>8, GotoElsewhere DEF PushWelcome, Loc
  <2>4. \A m \in 1 .. Len(sendq') : m \in 1 .. Len(sendq) \/ m = Len(sendq) + 1
    BY <2>2
  <2>5. id[t] < Len(sessions)
    BY <2>1 DEF TableInv
  <2> QED
    BY <2>1, <2>2, <2>3, <2>4, <2>5 DEF AnnounceInv, UniqueIds, Welcome
<1>9. ASSUME NEW t \in Thread, Ack(t) PROVE AnnounceInv'
  <2>1. Len(sessions') = Len(sessions)
    BY <1>9 DEF Ack, TypeOK
  <2> QED
    BY <1>9, <2>1, AnnounceFrame, GotoElsewhere DEF Ack, Loc, outVars
<1>10. ASSUME NEW t \in Thread, PushEcho(t) PROVE AnnounceInv'
  <2> DEFINE d == buf[slot[t]]
             j == [kind |-> "echo", id |-> d.id, addr |-> d.addr, tag |-> d.tag]
  <2>1. sendq' = Append(sendq, j) /\ UNCHANGED <<id, sessions, sent>>
    BY <1>10 DEF PushEcho, tableVars
  <2>2. /\ Len(sendq') = Len(sendq) + 1 /\ Len(sendq) \in Nat
        /\ sendq'[Len(sendq) + 1] = j
        /\ \A m \in 1 .. Len(sendq) : sendq'[m] = sendq[m]
    BY <2>1, QueueElements DEF TypeOK
  <2>3. \A u \in Thread : pc'[u] = "welcome" => pc[u] = "welcome"
    BY <1>10, GotoElsewhere DEF PushEcho, Loc
  <2>4. \A m \in 1 .. Len(sendq') : Welcome(sendq'[m]) => m \in 1 .. Len(sendq)
    BY <2>2 DEF Welcome
  <2> QED
    BY <2>1, <2>2, <2>3, <2>4 DEF AnnounceInv, UniqueIds, Welcome
<1>11. ASSUME NEW t \in Thread, Rearm(t) \/ RearmFails(t) PROVE AnnounceInv'
  BY <1>11, AnnounceFrame, GotoElsewhere DEF Rearm, RearmFails, Loc, tableVars, outVars
<1>12. CASE SendOne
  <2>1. /\ sendq # <<>> /\ sendq' = Tail(sendq) /\ UNCHANGED <<pc, id, sessions>>
        /\ sent' \in SUBSET (sent \union {Head(sendq)})
    BY <1>12 DEF SendOne, threadVars, tableVars
  <2>2. /\ Head(sendq) = sendq[1] /\ 1 \in 1 .. Len(sendq) /\ Len(sendq) \in Nat
        /\ Len(sendq') = Len(sendq) - 1
        /\ \A m \in 1 .. Len(sendq') : m + 1 \in 1 .. Len(sendq) /\ sendq'[m] = sendq[m + 1]
    BY <2>1, QueueElements DEF TypeOK
  <2>3. /\ \A m, n \in 1 .. Len(sendq') : m + 1 = n + 1 => m = n
        /\ \A m \in 1 .. Len(sendq') : m + 1 # 1
    BY <2>2
  <2>4. \A m, n \in 1 .. Len(sendq') :
            Welcome(sendq'[m]) /\ Welcome(sendq'[n]) /\ sendq'[m].id = sendq'[n].id => m = n
    <3>1. \A m, n \in 1 .. Len(sendq) :
            Welcome(sendq[m]) /\ Welcome(sendq[n]) /\ sendq[m].id = sendq[n].id => m = n
      BY DEF AnnounceInv, UniqueIds
    <3> SUFFICES ASSUME NEW m \in 1 .. Len(sendq'), NEW n \in 1 .. Len(sendq'),
                        Welcome(sendq'[m]), Welcome(sendq'[n]), sendq'[m].id = sendq'[n].id
                 PROVE  m = n
      OBVIOUS
    <3>2. /\ m + 1 \in 1 .. Len(sendq) /\ n + 1 \in 1 .. Len(sendq)
          /\ sendq'[m] = sendq[m + 1] /\ sendq'[n] = sendq[n + 1]
      BY <2>2
    <3>3. m + 1 = n + 1
      BY <3>1, <3>2
    <3> QED
      BY <2>3, <3>3
  <2>5. \A j \in sent' : j \in sent \/ j = sendq[1]
    BY <2>1, <2>2
  <2>6. \A m \in 1 .. Len(sendq'), j \in sent' :
            Welcome(sendq'[m]) /\ Welcome(j) => sendq'[m].id # j.id
    BY <2>2, <2>3, <2>5 DEF AnnounceInv, UniqueIds
  <2>7. \A j, k \in sent' : Welcome(j) /\ Welcome(k) /\ j.id = k.id => j = k
    BY <2>2, <2>5 DEF AnnounceInv, UniqueIds
  <2>8. UniqueIds'
    BY <2>4, <2>6, <2>7 DEF UniqueIds, Welcome
  <2> QED
    BY <2>1, <2>2, <2>5, <2>8 DEF AnnounceInv, Welcome
<1>13. CASE Restart
  BY <1>13 DEF Restart, AnnounceInv, UniqueIds
<1> QED
  BY <1>2, <1>3, <1>4, <1>5, <1>6, <1>7, <1>8, <1>9, <1>10, <1>11, <1>12, <1>13
     DEF Next, ThreadStep

\* No two packet_1 of one run of the process carry the same client_id, even
\* when receives complete inside init() and two threads handle one buffer.
THEOREM IdsAreUnique == Spec => []UniqueIds
<1>1. Init => TableInv /\ AnnounceInv
  BY DEF Init, Boot, TableInv, AnnounceInv, IdMatchesIndex, UniqueIds, Thread
<1>2. AnnounceInv => UniqueIds
  BY DEF AnnounceInv
<1> QED
  BY <1>1, <1>2, TypeCorrect, TableInductive, AnnounceInductive, PTL DEF Spec

-----------------------------------------------------------------------------
(* Receive slots: one user each.                                           *)

\* ExclusiveSlot, and that a slot init() has not posted yet has no user.
SlotInv ==
    /\ ExclusiveSlot
    /\ early = 0 =>
       \A s \in Slot : s > started =>
           /\ ops[s] = 0
           /\ \A k \in 1 .. Len(cq) : cq[k].slot # s
           /\ \A t \in Thread : ~Holds(t, s)

\* No step takes an early completion back.
LEMMA EarlyGrows == TypeOK /\ [Next]_vars /\ early' = 0 => early = 0
<1> SUFFICES ASSUME TypeOK, [Next]_vars, early' = 0 PROVE early = 0
  OBVIOUS
<1>1. early \in Nat
  BY DEF TypeOK
<1>2. CASE Kernel
  <2>1. ASSUME NEW d \in Incoming, InitImmediate(d) PROVE early = 0
    BY <1>1, <2>1 DEF InitImmediate
  <2>2. ASSUME NEW s \in Slot, NEW d \in Incoming, Deliver(s, d) PROVE early = 0
    BY <2>2 DEF Deliver
  <2>3. ASSUME NEW s \in Slot, FailReceive(s) PROVE early = 0
    BY <2>3 DEF FailReceive
  <2> QED
    BY <1>2, <2>1, <2>2, <2>3 DEF Kernel
<1>3. ASSUME NEW t \in Thread, ThreadStep(t) PROVE early' = early
  BY <1>3 DEF ThreadStep, Take, TakeFailed, Dispatch, Lock, PushSession, PushWelcome, Ack,
              PushEcho, Rearm, RearmFails, countVars
<1>4. CASE InitPending \/ SendOne \/ Restart \/ UNCHANGED vars
  BY <1>4 DEF InitPending, SendOne, Restart, vars, countVars
<1> QED
  BY <1>2, <1>3, <1>4 DEF Next

\* A thread that goes on working on the slot it has leaves SlotInv true.
LEMMA SlotFrame ==
    ASSUME TypeOK, SlotInv, NEW t \in Thread, NEW loc \in Loc, pc[t] # "wait", Goto(t, loc),
           UNCHANGED <<started, ops, cq, slot, early>>
    PROVE  SlotInv'
<1>1. \A u \in Thread, s \in Slot : Holds(u, s)' => Holds(u, s)
  BY DEF Holds, Goto, TypeOK
<1> QED
  BY <1>1 DEF SlotInv, ExclusiveSlot

LEMMA SlotInductive == TypeOK /\ SlotInv /\ [Next]_vars => SlotInv'
<1> SUFFICES ASSUME TypeOK, SlotInv, [Next]_vars, early' = 0, early = 0 PROVE SlotInv'
  BY EarlyGrows DEF SlotInv, ExclusiveSlot
<1>a. \A k \in 1 .. Len(cq) : cq[k].slot \in Slot
  <2>1. \A k \in 1 .. Len(cq) : cq[k] \in Completion
    BY DEF TypeOK
  <2> QED
    BY <2>1 DEF Completion
<1>1. ASSUME UNCHANGED <<started, ops, cq, pc, slot>> PROVE SlotInv'
  BY <1>1 DEF SlotInv, ExclusiveSlot, Holds
<1>2. CASE InitPending
  <2>0. started \in Nat /\ started + 1 \in Slot /\ started + 1 > started
    BY <1>2, ServerAssumption DEF InitPending, TypeOK, Slot
  <2>1. /\ started' = started + 1 /\ ops[started + 1] = 0
        /\ ops' = [ops EXCEPT ![started + 1] = @ + 1]
        /\ UNCHANGED <<cq, pc, slot>>
    BY <1>2, <2>0 DEF InitPending, SlotInv, threadVars
  <2>2. /\ ops'[started + 1] = 1
        /\ \A s \in Slot : s # started + 1 => ops'[s] = ops[s]
    BY <2>0, <2>1 DEF TypeOK
  <2>3. /\ \A k \in 1 .. Len(cq) : cq[k].slot # started + 1
        /\ \A t \in Thread : ~Holds(t, started + 1)
    BY <2>0 DEF SlotInv
  <2>4. \A s \in Slot : s > started' => s > started /\ s # started + 1
    BY <2>0, <2>1 DEF Slot
  <2> QED
    BY <1>a, <2>0, <2>1, <2>2, <2>3, <2>4 DEF SlotInv, ExclusiveSlot, Holds
<1>3. ASSUME NEW d \in Incoming, InitImmediate(d) PROVE SlotInv'
  BY <1>3 DEF InitImmediate, TypeOK
<1>4. ASSUME NEW s \in Slot, NEW ok \in BOOLEAN, ops[s] > 0,
             ops' = [ops EXCEPT ![s] = @ - 1], cq' = Append(cq, [slot |-> s, ok |-> ok]),
             UNCHANGED <<started, pc, slot>>
      PROVE  SlotInv'
  <2>1. ops[s] = 1 /\ ops'[s] = 0 /\ \A r \in Slot : r # s => ops'[r] = ops[r]
    BY <1>4 DEF SlotInv, ExclusiveSlot, TypeOK
  <2>2. /\ Len(cq') = Len(cq) + 1 /\ Len(cq) \in Nat /\ cq'[Len(cq) + 1].slot = s
        /\ \A k \in 1 .. Len(cq) : cq'[k] = cq[k]
    BY <1>4, QueueElements DEF TypeOK
  <2>3. \A k \in 1 .. Len(cq') : k \in 1 .. Len(cq) \/ k = Len(cq) + 1
    BY <2>2
  <2>4. /\ \A k \in 1 .. Len(cq) : cq[k].slot # s
        /\ \A t \in Thread : ~Holds(t, s)
        /\ ~(s > started)
    BY <2>1 DEF SlotInv, ExclusiveSlot
  <2> QED
    BY <1>a, <1>4, <2>1, <2>2, <2>3, <2>4 DEF SlotInv, ExclusiveSlot, Holds
<1>5. ASSUME NEW s \in Slot, NEW d \in Incoming, Deliver(s, d) PROVE SlotInv'
  BY <1>4, <1>5 DEF Deliver, threadVars
<1>6. ASSUME NEW s \in Slot, FailReceive(s) PROVE SlotInv'
  BY <1>4, <1>6 DEF FailReceive, threadVars
<1>7. ASSUME cq # <<>>, cq' = Tail(cq)
      PROVE  /\ 1 \in 1 .. Len(cq) /\ Head(cq) = cq[1]
             /\ \A k \in 1 .. Len(cq') : k + 1 \in 1 .. Len(cq) /\ k + 1 # 1 /\ cq'[k] = cq[k + 1]
             /\ \A k, m \in 1 .. Len(cq') : k + 1 = m + 1 => k = m
  <2>1. /\ 1 \in 1 .. Len(cq) /\ Head(cq) = cq[1] /\ Len(cq) \in Nat /\ Len(cq') = Len(cq) - 1
        /\ \A k \in 1 .. Len(cq') : k + 1 \in 1 .. Len(cq) /\ cq'[k] = cq[k + 1]
    BY <1>7, QueueElements DEF TypeOK
  <2> QED
    BY <2>1
<1>8. ASSUME NEW t \in Thread, Take(t) PROVE SlotInv'
  <2> DEFINE s == Head(cq).slot
  <2>1. /\ pc[t] = "wait" /\ cq # <<>> /\ cq' = Tail(cq)
        /\ slot' = [slot EXCEPT ![t] = s] /\ pc' = [pc EXCEPT ![t] = "dispatch"]
        /\ UNCHANGED <<started, ops>>
    BY <1>8 DEF Take, At, Goto
  <2>2. s = cq[1].slot /\ s \in Slot /\ 1 \in 1 .. Len(cq)
    BY <1>7, <1>a, <2>1
  <2>3. /\ \A u \in Thread, r \in Slot : u # t => (Holds(u, r)' <=> Holds(u, r))
        /\ \A r \in Slot : Holds(t, r)' => r = s
    BY <2>1 DEF Holds, TypeOK
  <2>4. /\ ops[s] = 0 /\ ~(s > started) /\ \A u \in Thread : ~Holds(u, s)
        /\ \A k \in 1 .. Len(cq') : cq'[k].slot # s
    BY <1>7, <2>1, <2>2 DEF SlotInv, ExclusiveSlot
  <2>5. \A u \in Thread, r \in Slot :
            Holds(u, r)' => /\ ops'[r] = 0
                            /\ \A k \in 1 .. Len(cq') : cq'[k].slot # r
                            /\ \A v \in Thread : Holds(v, r)' => v = u
    <3> SUFFICES ASSUME NEW u \in Thread, NEW r \in Slot, Holds(u, r)'
                 PROVE  /\ ops'[r] = 0
                        /\ \A k \in 1 .. Len(cq') : cq'[k].slot # r
                        /\ \A v \in Thread : Holds(v, r)' => v = u
      OBVIOUS
    <3>1. CASE u = t
      BY <3>1, <2>1, <2>3, <2>4
    <3>2. CASE u # t
      BY <3>2, <1>7, <2>1, <2>3, <2>4 DEF SlotInv, ExclusiveSlot
    <3> QED
      BY <3>1, <3>2
  <2>6. ExclusiveSlot'
    BY <1>7, <2>1, <2>5 DEF SlotInv, ExclusiveSlot, Holds
  <2> QED
    BY <1>7, <2>1, <2>3, <2>4, <2>6 DEF SlotInv
<1>9. ASSUME NEW t \in Thread, TakeFailed(t) PROVE SlotInv'
  BY <1>7, <1>9 DEF TakeFailed, threadVars, SlotInv, ExclusiveSlot, Holds
<1>10. ASSUME NEW t \in Thread, Dispatch(t) PROVE SlotInv'
  <2>1. CaseOf(buf[slot[t]].kind) \in {"lock", "ack", "echo", "rearm"}
    BY CaseOfType, HeldType DEF Datagram
  <2> QED
    BY <1>10, <2>1, SlotFrame DEF Dispatch, At, Loc, portVars, countVars
<1>11. ASSUME NEW t \in Thread, Lock(t) \/ PushSession(t) \/ PushWelcome(t) \/ Ack(t) \/ PushEcho(t)
       PROVE  SlotInv'
  BY <1>11, SlotFrame DEF Lock, PushSession, PushWelcome, Ack, PushEcho, At, Loc, portVars, countVars
<1>12. ASSUME NEW t \in Thread, Rearm(t) PROVE SlotInv'
  <2> DEFINE s == slot[t]
  <2>1. /\ pc[t] = "rearm" /\ pc' = [pc EXCEPT ![t] = "wait"] /\ s \in Slot
        /\ ops' = [ops EXCEPT ![s] = @ + 1] /\ UNCHANGED <<started, cq, slot>>
    BY <1>12, HeldType DEF Rearm, At, Goto
  <2>2. /\ \A u \in Thread, r \in Slot : Holds(u, r)' => Holds(u, r) /\ u # t
        /\ Holds(t, s)
    BY <2>1 DEF Holds, TypeOK
  <2>3. /\ ops[s] = 0 /\ ~(s > started)
        /\ \A k \in 1 .. Len(cq) : cq[k].slot # s
        /\ \A u \in Thread : ~Holds(u, s)'
    BY <2>1, <2>2 DEF SlotInv, ExclusiveSlot
  <2>4. ops'[s] = 1 /\ \A r \in Slot : r # s => ops'[r] = ops[r]
    BY <2>1, <2>3 DEF TypeOK
  <2> QED
    BY <1>a, <2>1, <2>2, <2>3, <2>4 DEF SlotInv, ExclusiveSlot
<1>13. ASSUME NEW t \in Thread, RearmFails(t) PROVE SlotInv'
  BY <1>13, SlotFrame DEF RearmFails, At, Loc, portVars
<1>14. CASE SendOne \/ UNCHANGED vars
  BY <1>1, <1>14 DEF SendOne, vars, portVars, threadVars
<1>15. CASE Restart
  <2>1. \A t \in Thread, s \in Slot : ~Holds(t, s)'
    BY <1>15 DEF Restart, Holds
  <2> QED
    BY <1>15, <2>1 DEF Restart, SlotInv, ExclusiveSlot
<1> QED
  BY <1>2, <1>3, <1>5, <1>6, <1>8, <1>9, <1>10, <1>11, <1>12, <1>13, <1>14, <1>15
     DEF Next, Kernel, ThreadStep

\* Unless a receive completes inside init(), a slot is never at once posted,
\* queued at the completion port or in the hands of two threads.
THEOREM SlotsAreExclusive == Spec => []ExclusiveSlot
<1>1. Init => SlotInv
  <2> SUFFICES ASSUME Init PROVE SlotInv
    OBVIOUS
  <2>1. \A t \in Thread, s \in Slot : ~Holds(t, s)
    BY DEF Init, Boot, Holds
  <2> QED
    BY <2>1 DEF Init, Boot, SlotInv, ExclusiveSlot
<1>2. SlotInv => ExclusiveSlot
  BY DEF SlotInv
<1> QED
  BY <1>1, <1>2, TypeCorrect, SlotInductive, PTL DEF Spec

-----------------------------------------------------------------------------
(* Owners: a packet_1 goes to the client its session was made for.         *)

\* sessions[i] was made from a packet_0 of a.
Owner(i, a) == Live(i) /\ sessions[i + 1].c_name = a

\* WelcomeToOwner, and the same of the packet_1 a thread is about to queue:
\* between push_back and send_queue.push the buffer it reads does not change.
OwnerInv ==
    early = 0 =>
    /\ \A t \in Thread : pc[t] \in {"lock", "push", "welcome"} => buf[slot[t]].kind = "hello"
    /\ \A t \in Thread : pc[t] = "welcome" => Owner(id[t], buf[slot[t]].addr)
    /\ \A m \in 1 .. Len(sendq) : Welcome(sendq[m]) => Owner(sendq[m].id, sendq[m].addr)
    /\ \A j \in sent : Welcome(j) => Owner(j.id, j.addr)

\* Within a run of the process a session keeps its owner.
LEMMA OwnerStays ==
    ASSUME TypeOK, [Next]_vars, ~Restart, NEW i \in Nat, NEW a, Owner(i, a)
    PROVE  Owner(i, a)'
<1>0. Len(sessions) \in Nat /\ i + 1 \in 1 .. Len(sessions)
  BY DEF Owner, Live, TypeOK
<1>1. ASSUME UNCHANGED sessions PROVE Owner(i, a)'
  BY <1>1 DEF Owner, Live
<1>2. ASSUME NEW t \in Thread, PushSession(t) PROVE Owner(i, a)'
  BY <1>0, <1>2 DEF PushSession, Owner, Live, TypeOK
<1>3. ASSUME NEW t \in Thread, Ack(t) PROVE Owner(i, a)'
  <2> DEFINE k == buf[slot[t]].id
  <2>1. CASE Live(k)
    <3>1. sessions' = [sessions EXCEPT ![k + 1].connected = TRUE]
      BY <1>3, <2>1 DEF Ack
    <3>2. sessions \in Seq(Session) /\ k \in Nat /\ k < Len(sessions)
      BY <2>1, HeldType DEF TypeOK, Live, Datagram
    <3>3. Len(sessions') = Len(sessions) /\ sessions'[i + 1].c_name = sessions[i + 1].c_name
      BY <1>0, <3>1, <3>2, Connected
    <3> QED
      BY <3>3 DEF Owner, Live
  <2>2. CASE ~Live(k)
    BY <1>1, <1>3, <2>2 DEF Ack
  <2> QED
    BY <2>1, <2>2
<1>4. CASE InitPending \/ Kernel \/ SendOne \/ UNCHANGED vars
  BY <1>1, <1>4 DEF InitPending, Kernel, InitImmediate, Deliver, FailReceive, SendOne, vars, tableVars
<1>5. ASSUME NEW t \in Thread, ThreadStep(t), ~PushSession(t), ~Ack(t) PROVE Owner(i, a)'
  BY <1>1, <1>5 DEF ThreadStep, Take, TakeFailed, Dispatch, Lock, PushWelcome, PushEcho, Rearm,
                    RearmFails, tableVars
<1> QED
  BY <1>2, <1>3, <1>4, <1>5 DEF Next

\* The datagram a thread works on stays in its buffer.
LEMMA HeldStays ==
    ASSUME TypeOK, SlotInv, [Next]_vars, ~Restart, early' = 0, NEW t \in Thread, pc[t] # "wait"
    PROVE  slot'[t] = slot[t] /\ buf'[slot[t]] = buf[slot[t]]
<1>1. ASSUME UNCHANGED <<slot, buf>> PROVE slot'[t] = slot[t] /\ buf'[slot[t]] = buf[slot[t]]
  BY <1>1
<1>2. ASSUME NEW d \in Incoming, InitImmediate(d) PROVE FALSE
  BY <1>2 DEF InitImmediate, TypeOK
<1>3. ASSUME NEW s \in Slot, NEW d \in Incoming, Deliver(s, d)
      PROVE  slot'[t] = slot[t] /\ buf'[slot[t]] = buf[slot[t]]
  <2>1. early = 0 /\ ops[s] > 0 /\ buf' = [buf EXCEPT ![s] = d] /\ slot' = slot
    BY <1>3 DEF Deliver, threadVars
  <2>2. Holds(t, slot[t]) /\ slot[t] \in Slot
    BY HeldType DEF Holds
  <2>3. slot[t] # s
    BY <2>1, <2>2 DEF SlotInv, ExclusiveSlot
  <2> QED
    BY <2>1, <2>2, <2>3 DEF TypeOK
<1>4. ASSUME NEW u \in Thread, Take(u) PROVE slot'[t] = slot[t] /\ buf'[slot[t]] = buf[slot[t]]
  BY <1>4 DEF Take, At, TypeOK
<1>5. ASSUME NEW u \in Thread, ThreadStep(u), ~Take(u)
      PROVE  slot'[t] = slot[t] /\ buf'[slot[t]] = buf[slot[t]]
  BY <1>5 DEF ThreadStep, TakeFailed, Dispatch, Lock, PushSession, PushWelcome, Ack, PushEcho,
              Rearm, RearmFails, portVars, threadVars
<1>6. CASE InitPending \/ SendOne \/ UNCHANGED vars \/ \E s \in Slot : FailReceive(s)
  BY <1>6 DEF InitPending, SendOne, FailReceive, vars, portVars, threadVars
<1> QED
  BY <1>2, <1>3, <1>4, <1>5, <1>6 DEF Next, Kernel

LEMMA OwnerInductive ==
    TypeOK /\ TableInv /\ SlotInv /\ OwnerInv /\ [Next]_vars => OwnerInv'
<1> SUFFICES ASSUME TypeOK, TableInv, SlotInv, OwnerInv, [Next]_vars, early = 0, early' = 0
             PROVE  OwnerInv'
  BY EarlyGrows DEF OwnerInv
<1>1. CASE Restart
  BY <1>1 DEF Restart, OwnerInv
<1> SUFFICES ASSUME ~Restart PROVE OwnerInv'
  BY <1>1
\* What the step leaves alone, whichever it is.
<1>2. \A t \in Thread : pc[t] # "wait" => slot'[t] = slot[t] /\ buf'[slot[t]] = buf[slot[t]]
  BY HeldStays
<1>3. \A i \in Nat : \A a : Owner(i, a) => i < Len(sessions') /\ sessions'[i + 1].c_name = a
  <2> SUFFICES ASSUME NEW i \in Nat, NEW a, Owner(i, a) PROVE Owner(i, a)'
    BY DEF Owner, Live
  <2> QED
    BY OwnerStays
<1>4. /\ \A t \in Thread : id[t] \in Nat
      /\ \A m \in 1 .. Len(sendq) : sendq[m].id \in Nat
      /\ \A j \in sent : j.id \in Nat
  <2>1. /\ \A m \in 1 .. Len(sendq) : sendq[m] \in Reply
        /\ \A j \in sent : j \in Reply
    BY DEF TypeOK
  <2> QED
    BY <2>1 DEF TypeOK, Reply
<1>5. \A m \in 1 .. Len(sendq) : Welcome(sendq[m]) =>
          sendq[m].id < Len(sessions') /\ sessions'[sendq[m].id + 1].c_name = sendq[m].addr
  BY <1>3, <1>4 DEF OwnerInv
<1>6. \A j \in sent : Welcome(j) => j.id < Len(sessions') /\ sessions'[j.id + 1].c_name = j.addr
  BY <1>3, <1>4 DEF OwnerInv
\* A thread that stays where it is.
<1>7. \A t \in Thread : pc'[t] = pc[t] /\ id'[t] = id[t] =>
          /\ pc'[t] \in {"lock", "push", "welcome"} => buf'[slot'[t]].kind = "hello"
          /\ pc'[t] = "welcome" => /\ id'[t] < Len(sessions')
                                  /\ sessions'[id'[t] + 1].c_name = buf'[slot'[t]].addr
  BY <1>2, <1>3, <1>4 DEF OwnerInv
<1>8. ASSUME UNCHANGED <<sendq, sent>>,
             \A t \in Thread : pc'[t] \in {"lock", "push", "welcome"} =>
                                pc'[t] = pc[t] /\ id'[t] = id[t]
      PROVE  OwnerInv'
  BY <1>5, <1>6, <1>7, <1>8 DEF OwnerInv, Owner, Live, Welcome
<1>9. ASSUME NEW t \in Thread, NEW loc \in Loc, Goto(t, loc)
      PROVE  pc'[t] = loc /\ \A u \in Thread : u # t => pc'[u] = pc[u]
  BY <1>9 DEF Goto, TypeOK
<1>10. CASE InitPending \/ Kernel \/ UNCHANGED vars
  BY <1>8, <1>10 DEF InitPending, Kernel, InitImmediate, Deliver, FailReceive, vars, threadVars, outVars
<1>11. ASSUME NEW t \in Thread,
              TakeFailed(t) \/ Take(t) \/ Ack(t) \/ Rearm(t) \/ RearmFails(t)
       PROVE  OwnerInv'
  BY <1>8, <1>9, <1>11 DEF TakeFailed, Take, Ack, Rearm, RearmFails, Loc, threadVars, outVars
<1>12. ASSUME NEW t \in Thread, Dispatch(t) PROVE OwnerInv'
  <2>1. buf[slot[t]].kind \in Kind
    BY HeldType DEF Datagram
  <2>2. CaseOf(buf[slot[t]].kind) \in {"lock", "ack", "echo", "rearm"}
    BY <2>1, CaseOfType
  <2>3. CaseOf(buf[slot[t]].kind) = "lock" => buf[slot[t]].kind = "hello"
    BY <2>1 DEF CaseOf, Kind
  <2>4. /\ pc'[t] = CaseOf(buf[slot[t]].kind)
        /\ \A u \in Thread : u # t => pc'[u] = pc[u]
        /\ UNCHANGED <<slot, buf, id, sendq, sent>>
    BY <1>9, <1>12, <2>2 DEF Dispatch, Loc, portVars, outVars
  <2>5. \A u \in Thread : pc'[u] \in {"lock", "push", "welcome"} => buf'[slot'[u]].kind = "hello"
    BY <1>7, <2>2, <2>3, <2>4
  <2>6. \A u \in Thread : pc'[u] = "welcome" => u # t
    BY <2>2, <2>4
  <2> QED
    BY <1>5, <1>6, <1>7, <2>4, <2>5, <2>6 DEF OwnerInv, Owner, Live, Welcome
<1>13. ASSUME NEW t \in Thread, Lock(t) PROVE OwnerInv'
  <2>1. /\ pc[t] = "lock" /\ pc'[t] = "push"
        /\ \A u \in Thread : u # t => pc'[u] = pc[u] /\ id'[u] = id[u]
        /\ UNCHANGED <<slot, buf, sendq, sent>>
    BY <1>9, <1>13 DEF Lock, At, Loc, TypeOK, portVars, outVars
  <2>2. \A u \in Thread : pc'[u] \in {"lock", "push", "welcome"} => buf'[slot'[u]].kind = "hello"
    BY <1>7, <2>1 DEF OwnerInv
  <2> QED
    BY <1>5, <1>6, <1>7, <2>1, <2>2 DEF OwnerInv, Owner, Live, Welcome
<1>14. ASSUME NEW t \in Thread, PushSession(t) PROVE OwnerInv'
  <2> DEFINE row == [c_name |-> NameIn(buf[slot[t]]), c_id |-> id[t], connected |-> FALSE]
  <2>1. /\ pc[t] = "push" /\ pc'[t] = "welcome"
        /\ \A u \in Thread : u # t => pc'[u] = pc[u]
        /\ UNCHANGED <<slot, buf, id, sendq, sent>>
        /\ sessions' = Append(sessions, row)
    BY <1>9, <1>14 DEF PushSession, At, Loc, portVars, outVars
  <2>2. id[t] = Len(sessions) /\ row.c_name = buf[slot[t]].addr
    BY <2>1 DEF TableInv, OwnerInv, NameIn
  <2>3. id[t] < Len(sessions') /\ sessions'[id[t] + 1] = row
    BY <2>1, <2>2, QueueElements DEF TypeOK
  <2>4. \A u \in Thread : pc'[u] \in {"lock", "push", "welcome"} => buf'[slot'[u]].kind = "hello"
    BY <1>7, <2>1 DEF OwnerInv
  <2>5. \A u \in Thread : pc'[u] = "welcome" =>
            id'[u] < Len(sessions') /\ sessions'[id'[u] + 1].c_name = buf'[slot'[u]].addr
    BY <1>7, <2>1, <2>2, <2>3
  <2> QED
    BY <1>5, <1>6, <2>1, <2>4, <2>5 DEF OwnerInv, Owner, Live, Welcome
<1>15. ASSUME NEW t \in Thread, PushWelcome(t) \/ PushEcho(t) PROVE OwnerInv'
  <2> DEFINE j == sendq'[Len(sendq) + 1]
  <2>1. /\ Len(sendq') = Len(sendq) + 1 /\ Len(sendq) \in Nat
        /\ \A m \in 1 .. Len(sendq) : sendq'[m] = sendq[m]
    BY <1>15, QueueElements DEF PushWelcome, PushEcho, TypeOK
  <2>2. /\ pc'[t] = "rearm" /\ \A u \in Thread : u # t => pc'[u] = pc[u]
        /\ UNCHANGED <<id, sent, sessions>>
    BY <1>9, <1>15 DEF PushWelcome, PushEcho, Loc, tableVars
  <2>3. Welcome(j) => j.id < Len(sessions) /\ sessions[j.id + 1].c_name = j.addr
    <3>1. CASE PushWelcome(t)
      <4>1. pc[t] = "welcome" /\ j.id = id[t] /\ j.addr = buf[slot[t]].addr
        BY <3>1, QueueElements DEF PushWelcome, At, TypeOK
      <4> QED
        BY <4>1 DEF OwnerInv, Owner, Live
    <3>2. CASE PushEcho(t)
      BY <3>2, QueueElements DEF PushEcho, Welcome, TypeOK
    <3> QED
      BY <1>15, <3>1, <3>2
  <2>4. \A m \in 1 .. Len(sendq') : m \in 1 .. Len(sendq) \/ m = Len(sendq) + 1
    BY <2>1
  <2>5. (\A m \in 1 .. Len(sendq) : Welcome(sendq[m]) => Owner(sendq[m].id, sendq[m].addr))'
    BY <1>5, <2>1, <2>2, <2>3, <2>4 DEF Owner, Live, Welcome
  <2> QED
    BY <1>6, <1>7, <2>2, <2>5 DEF OwnerInv, Owner, Live, Welcome
<1>16. CASE SendOne
  <2>1. /\ sendq # <<>> /\ sendq' = Tail(sendq) /\ UNCHANGED <<pc, id, slot, buf, sessions>>
        /\ sent' \in SUBSET (sent \union {Head(sendq)})
    BY <1>16 DEF SendOne, portVars, threadVars, tableVars
  <2>2. /\ Head(sendq) = sendq[1] /\ 1 \in 1 .. Len(sendq)
        /\ \A m \in 1 .. Len(sendq') : m + 1 \in 1 .. Len(sendq) /\ sendq'[m] = sendq[m + 1]
    BY <2>1, QueueElements DEF TypeOK
  <2>3. (\A m \in 1 .. Len(sendq) : Welcome(sendq[m]) => Owner(sendq[m].id, sendq[m].addr))'
    BY <1>5, <2>2 DEF Owner, Live, Welcome
  <2>4. (\A j \in sent : Welcome(j) => Owner(j.id, j.addr))'
    BY <1>5, <1>6, <2>1, <2>2 DEF Owner, Live, Welcome
  <2> QED
    BY <1>7, <2>1, <2>3, <2>4 DEF OwnerInv, Owner, Live
<1> QED
  BY <1>10, <1>11, <1>12, <1>13, <1>14, <1>15, <1>16 DEF Next, ThreadStep

\* The session a packet_1 announces is the one made from the packet_0 of the
\* client it is sent to, unless a receive completes inside init().
THEOREM WelcomesGoToOwners == Spec => []WelcomeToOwner
<1>1. Init => TableInv /\ SlotInv /\ OwnerInv
  <2> SUFFICES ASSUME Init PROVE TableInv /\ SlotInv /\ OwnerInv
    OBVIOUS
  <2>1. \A t \in Thread, s \in Slot : ~Holds(t, s)
    BY DEF Init, Boot, Holds
  <2> QED
    BY <2>1 DEF Init, Boot, TableInv, SlotInv, OwnerInv, IdMatchesIndex, ExclusiveSlot, Thread
<1>2. OwnerInv => WelcomeToOwner
  BY DEF OwnerInv, WelcomeToOwner, Owner
<1> QED
  BY <1>1, <1>2, TypeCorrect, TableInductive, SlotInductive, OwnerInductive, PTL DEF Spec

-----------------------------------------------------------------------------
(* The ids that clients are granted, and the unchecked sessions[client_id].  *)

\* In the first run of the process, with no receive completed inside init():
\* granted ids are owned, and all datagrams and echoes carry granted ids.
GrantInv ==
    early = 0 /\ restarts = 0 =>
    /\ ~wild
    /\ \A g \in granted : Owner(g[2], g[1])
    /\ \A s \in Slot : buf[s].kind \in {"ack", "probe"} => <<buf[s].addr, buf[s].id>> \in granted
    /\ \A t \in Thread : /\ pc[t] = "ack" => buf[slot[t]].kind = "ack"
                         /\ pc[t] = "echo" => buf[slot[t]].kind = "probe"
    /\ \A m \in 1 .. Len(sendq) : ~Welcome(sendq[m]) => <<sendq[m].addr, sendq[m].id>> \in granted
    /\ \A i \in 1 .. Len(sessions) : sessions[i].connected => <<sessions[i].c_name, i - 1>> \in granted

\* What the steps of the invariant start from: the first run goes on.
FirstRun == early = 0 /\ early' = 0 /\ restarts = 0 /\ restarts' = 0 /\ ~Restart

LEMMA RestartsGrow == TypeOK /\ [Next]_vars /\ restarts' = 0 => restarts = 0 /\ ~Restart
<1> SUFFICES ASSUME TypeOK, [Next]_vars, restarts' = 0 PROVE restarts = 0 /\ ~Restart
  OBVIOUS
<1>1. restarts \in Nat
  BY DEF TypeOK
<1>2. CASE Restart
  BY <1>1, <1>2 DEF Restart
<1>3. ASSUME NEW t \in Thread, ThreadStep(t) PROVE restarts' = restarts
  BY <1>3 DEF ThreadStep, Take, TakeFailed, Dispatch, Lock, PushSession, PushWelcome, Ack,
              PushEcho, Rearm, RearmFails, countVars
<1>4. ASSUME InitPending \/ Kernel \/ SendOne \/ UNCHANGED vars PROVE restarts' = restarts
  BY <1>4 DEF InitPending, Kernel, InitImmediate, Deliver, FailReceive, SendOne, vars, countVars
<1>5. Restart => restarts' # 0
  BY <1>1 DEF Restart
<1> QED
  BY <1>2, <1>3, <1>4, <1>5 DEF Next

\* Ids a step grants: SendOne grants that of a packet_1, nothing takes one back.
LEMMA GrantedGrows ==
    ASSUME TypeOK, [Next]_vars
    PROVE  /\ granted \subseteq granted'
           /\ ~SendOne => granted' = granted
<1>1. CASE SendOne
  BY <1>1 DEF SendOne
<1>2. ASSUME NEW t \in Thread, ThreadStep(t) PROVE granted' = granted
  BY <1>2 DEF ThreadStep, Take, TakeFailed, Dispatch, Lock, PushSession, PushWelcome, Ack,
              PushEcho, Rearm, RearmFails, outVars
<1>3. CASE InitPending \/ Kernel \/ Restart \/ UNCHANGED vars
  BY <1>3 DEF InitPending, Kernel, InitImmediate, Deliver, FailReceive, Restart, vars, outVars
<1> QED
  BY <1>1, <1>2, <1>3 DEF Next

\* The head of send_queue is one of its elements, and so are those of the tail.
LEMMA Popped ==
    ASSUME TypeOK, SendOne
    PROVE  /\ Head(sendq) = sendq[1] /\ 1 \in 1 .. Len(sendq) /\ sendq[1] \in Reply
           /\ \A m \in 1 .. Len(sendq') : m + 1 \in 1 .. Len(sendq) /\ sendq'[m] = sendq[m + 1]
<1>1. sendq \in Seq(Reply) /\ sendq # <<>> /\ sendq' = Tail(sendq)
  BY DEF TypeOK, SendOne
<1>2. /\ Head(sendq) = sendq[1] /\ 1 \in 1 .. Len(sendq)
      /\ \A m \in 1 .. Len(sendq') : m + 1 \in 1 .. Len(sendq) /\ sendq'[m] = sendq[m + 1]
  BY <1>1, QueueElements
<1> QED
  BY <1>1, <1>2

\* A granted id is that of a session of the client it was granted to.
LEMMA GrantedOwned ==
    ASSUME TypeOK, OwnerInv, GrantInv, [Next]_vars, FirstRun
    PROVE  \A g \in granted' : g[2] < Len(sessions') /\ sessions'[g[2] + 1].c_name = g[1]
<1>1. ASSUME NEW g \in granted PROVE g[2] < Len(sessions') /\ sessions'[g[2] + 1].c_name = g[1]
  <2>1. g[2] \in Nat
    BY DEF TypeOK
  <2>2. Owner(g[2], g[1])
    BY DEF GrantInv, FirstRun
  <2>3. \A i \in Nat : \A a : Owner(i, a) => Owner(i, a)'
    BY OwnerStays DEF FirstRun
  <2> QED
    BY <2>1, <2>2, <2>3 DEF Owner, Live
<1>2. CASE SendOne
  <2> DEFINE j == sendq[1]
  <2>1. \A g \in granted' : g \in granted \/ (Welcome(j) /\ g = <<j.addr, j.id>>)
    BY <1>2, Popped DEF SendOne, Welcome
  <2>2. sessions' = sessions /\ (Welcome(j) => Owner(j.id, j.addr))
    BY <1>2, Popped DEF SendOne, tableVars, OwnerInv, FirstRun
  <2> QED
    BY <1>1, <2>1, <2>2 DEF Owner, Live
<1> QED
  BY <1>1, <1>2, GrantedGrows

\* A packet 2 or 3 in a receive buffer carries an id granted to its sender.
LEMMA BuffersGranted ==
    ASSUME TypeOK, GrantInv, [Next]_vars, FirstRun
    PROVE  \A s \in Slot : buf'[s].kind \in {"ack", "probe"} => <<buf'[s].addr, buf'[s].id>> \in granted'
<1>1. ASSUME NEW s \in Slot, buf[s].kind \in {"ack", "probe"} PROVE <<buf[s].addr, buf[s].id>> \in granted'
  BY <1>1, GrantedGrows DEF GrantInv, FirstRun
<1>2. ASSUME NEW d \in Incoming, d.kind \in {"ack", "probe"} PROVE <<d.addr, d.id>> \in granted'
  <2>1. \E g \in granted : d.addr = g[1] /\ d.id = g[2]
    BY <1>2 DEF Incoming
  <2>2. \A g \in granted : g = <<g[1], g[2]>>
    BY DEF TypeOK
  <2> QED
    BY <2>1, <2>2, GrantedGrows
<1>3. ASSUME UNCHANGED buf
      PROVE  \A s \in Slot : buf'[s].kind \in {"ack", "probe"} => <<buf'[s].addr, buf'[s].id>> \in granted'
  BY <1>1, <1>3
<1>4. ASSUME NEW s \in Slot, NEW d \in Incoming, Deliver(s, d)
      PROVE  \A r \in Slot : buf'[r] = buf[r] \/ buf'[r] = d
  BY <1>4 DEF Deliver, TypeOK
<1>5. ASSUME NEW d \in Incoming, InitImmediate(d)
      PROVE  \A r \in Slot : buf'[r] = buf[r] \/ buf'[r] = d
  BY <1>5 DEF InitImmediate, TypeOK
<1>6. ASSUME NEW t \in Thread, ThreadStep(t) PROVE UNCHANGED buf
  BY <1>6 DEF ThreadStep, Take, TakeFailed, Dispatch, Lock, PushSession, PushWelcome, Ack,
              PushEcho, Rearm, RearmFails, portVars
<1>7. CASE InitPending \/ SendOne \/ UNCHANGED vars \/ \E s \in Slot : FailReceive(s)
  <2>1. UNCHANGED buf
    BY <1>7 DEF InitPending, FailReceive, SendOne, vars, portVars
  <2> QED
    BY <1>3, <2>1
<1>8. ASSUME NEW d \in Incoming, \A r \in Slot : buf'[r] = buf[r] \/ buf'[r] = d
      PROVE  \A s \in Slot : buf'[s].kind \in {"ack", "probe"} => <<buf'[s].addr, buf'[s].id>> \in granted'
  BY <1>1, <1>2, <1>8
<1> QED
  BY <1>3, <1>4, <1>5, <1>6, <1>7, <1>8 DEF Next, Kernel, FirstRun

\* A thread in case 2 or 3 still has the packet that brought it there.
LEMMA CaseHeld ==
    ASSUME TypeOK, SlotInv, GrantInv, [Next]_vars, FirstRun, NEW t \in Thread
    PROVE  /\ pc'[t] = "ack" => buf'[slot'[t]].kind = "ack"
           /\ pc'[t] = "echo" => buf'[slot'[t]].kind = "probe"
<1>1. pc[t] # "wait" => slot'[t] = slot[t] /\ buf'[slot[t]] = buf[slot[t]]
  BY HeldStays DEF FirstRun
<1>2. CASE pc'[t] = pc[t]
  BY <1>1, <1>2 DEF GrantInv, FirstRun
<1>3. ASSUME NEW u \in Thread, Dispatch(u), pc'[t] # pc[t]
      PROVE  /\ pc'[t] = "ack" => buf'[slot'[t]].kind = "ack"
             /\ pc'[t] = "echo" => buf'[slot'[t]].kind = "probe"
  <2>1. u = t /\ pc'[t] = CaseOf(buf[slot[t]].kind) /\ UNCHANGED <<slot, buf>>
    BY <1>3 DEF Dispatch, Goto, TypeOK, portVars
  <2>2. buf[slot[t]].kind \in Kind
    BY HeldType DEF Datagram
  <2> QED
    BY <2>1, <2>2 DEF CaseOf, Kind
<1>4. ASSUME NEW u \in Thread, ThreadStep(u), ~Dispatch(u), pc'[t] # pc[t]
      PROVE  pc'[t] \notin {"ack", "echo"}
  BY <1>4 DEF ThreadStep, Take, TakeFailed, Lock, PushSession, PushWelcome, Ack,
              PushEcho, Rearm, RearmFails, Goto, TypeOK, threadVars
<1>5. CASE InitPending \/ Kernel \/ SendOne \/ UNCHANGED vars
  BY <1>2, <1>5 DEF InitPending, Kernel, InitImmediate, Deliver, FailReceive, SendOne, vars, threadVars
<1> QED
  BY <1>2, <1>3, <1>4, <1>5 DEF Next, FirstRun

\* An echo in send_queue carries an id granted to the client it goes to.
LEMMA EchoesGranted ==
    ASSUME TypeOK, GrantInv, [Next]_vars, FirstRun
    PROVE  \A m \in 1 .. Len(sendq') : ~Welcome(sendq'[m]) => <<sendq'[m].addr, sendq'[m].id>> \in granted'
<1>1. \A m \in 1 .. Len(sendq) : ~Welcome(sendq[m]) => <<sendq[m].addr, sendq[m].id>> \in granted'
  BY GrantedGrows DEF GrantInv, FirstRun
<1>2. CASE UNCHANGED sendq
  BY <1>1, <1>2
<1>3. CASE SendOne
  BY <1>1, <1>3, Popped
<1>4. ASSUME NEW t \in Thread, NEW j, sendq' = Append(sendq, j), j \in Reply,
             ~Welcome(j) => <<j.addr, j.id>> \in granted'
      PROVE  \A m \in 1 .. Len(sendq') : ~Welcome(sendq'[m]) => <<sendq'[m].addr, sendq'[m].id>> \in granted'
  <2>1. /\ Len(sendq') = Len(sendq) + 1 /\ Len(sendq) \in Nat /\ sendq'[Len(sendq) + 1] = j
        /\ \A m \in 1 .. Len(sendq) : sendq'[m] = sendq[m]
    BY <1>4, QueueElements DEF TypeOK
  <2>2. \A m \in 1 .. Len(sendq') : m \in 1 .. Len(sendq) \/ m = Len(sendq) + 1
    BY <2>1
  <2> QED
    BY <1>1, <1>4, <2>1, <2>2
<1>5. ASSUME NEW t \in Thread, PushWelcome(t)
      PROVE  \E j \in Reply : sendq' = Append(sendq, j) /\ Welcome(j)
  <2> DEFINE j == [kind |-> "welcome", id |-> id[t], addr |-> buf[slot[t]].addr, tag |-> buf[slot[t]].tag]
  <2>1. sendq' = Append(sendq, j) /\ Welcome(j)
    BY <1>5 DEF PushWelcome, Welcome
  <2>2. j \in Reply
    BY HeldType DEF TypeOK, Reply, Datagram
  <2> QED
    BY <2>1, <2>2
<1>6. ASSUME NEW t \in Thread, PushEcho(t)
      PROVE  \E j \in Reply : sendq' = Append(sendq, j) /\ <<j.addr, j.id>> \in granted'
  <2> DEFINE d == buf[slot[t]]
             j == [kind |-> "echo", id |-> d.id, addr |-> d.addr, tag |-> d.tag]
  <2>1. sendq' = Append(sendq, j) /\ pc[t] = "echo"
    BY <1>6 DEF PushEcho, At
  <2>2. j \in Reply /\ slot[t] \in Slot
    BY HeldType DEF TypeOK, Reply, Datagram
  <2>3. <<d.addr, d.id>> \in granted
    BY <2>1, <2>2 DEF GrantInv, FirstRun
  <2> QED
    BY <2>1, <2>2, <2>3, GrantedGrows
<1>7. ASSUME NEW t \in Thread, ThreadStep(t), ~PushWelcome(t), ~PushEcho(t) PROVE UNCHANGED sendq
  BY <1>7 DEF ThreadStep, Take, TakeFailed, Dispatch, Lock, PushSession, Ack, Rearm, RearmFails, outVars
<1>8. CASE InitPending \/ Kernel \/ UNCHANGED vars
  BY <1>2, <1>8 DEF InitPending, Kernel, InitImmediate, Deliver, FailReceive, vars, outVars
<1> QED
  BY <1>2, <1>3, <1>4, <1>5, <1>6, <1>7, <1>8 DEF Next, FirstRun

-----------------------------------------------------------------------------
\* The id that case 2 indexes with is in the table and owned by the sender.
LEMMA AckOwned ==
    ASSUME TypeOK, GrantInv, FirstRun, NEW t \in Thread, pc[t] = "ack"
    PROVE  LET d == buf[slot[t]] IN <<d.addr, d.id>> \in granted /\ Owner(d.id, d.addr) /\ d.id \in Nat
<1>1. buf[slot[t]].kind = "ack" /\ slot[t] \in Slot /\ buf[slot[t]] \in Datagram
  BY HeldType DEF GrantInv, FirstRun
<1>2. <<buf[slot[t]].addr, buf[slot[t]].id>> \in granted
  BY <1>1 DEF GrantInv, FirstRun
<1> QED
  BY <1>1, <1>2 DEF GrantInv, FirstRun, Datagram

\* Sessions become connected only by case 2, with an id that was granted.
LEMMA ConnectedGranted ==
    ASSUME TypeOK, GrantInv, [Next]_vars, FirstRun
    PROVE  \A i \in 1 .. Len(sessions') :
               sessions'[i].connected => <<sessions'[i].c_name, i - 1>> \in granted'
<1>1. \A i \in 1 .. Len(sessions) : sessions[i].connected => <<sessions[i].c_name, i - 1>> \in granted'
  BY GrantedGrows DEF GrantInv, FirstRun
<1>2. CASE UNCHANGED sessions
  BY <1>1, <1>2
<1>3. ASSUME NEW t \in Thread, PushSession(t)
      PROVE  \A i \in 1 .. Len(sessions') :
                 sessions'[i].connected => <<sessions'[i].c_name, i - 1>> \in granted'
  <2> DEFINE row == [c_name |-> NameIn(buf[slot[t]]), c_id |-> id[t], connected |-> FALSE]
  <2>1. sessions' = Append(sessions, row) /\ sessions \in Seq(Session)
    BY <1>3 DEF PushSession, TypeOK
  <2>2. /\ Len(sessions') = Len(sessions) + 1 /\ Len(sessions) \in Nat
        /\ sessions'[Len(sessions) + 1] = row
        /\ \A i \in 1 .. Len(sessions) : sessions'[i] = sessions[i]
    BY <2>1, QueueElements
  <2>3. \A i \in 1 .. Len(sessions') : i \in 1 .. Len(sessions) \/ i = Len(sessions) + 1
    BY <2>2
  <2> QED
    BY <1>1, <2>2, <2>3
<1>4. ASSUME NEW t \in Thread, Ack(t)
      PROVE  \A i \in 1 .. Len(sessions') :
                 sessions'[i].connected => <<sessions'[i].c_name, i - 1>> \in granted'
  <2> DEFINE k == buf[slot[t]].id
             a == buf[slot[t]].addr
  <2>1. <<a, k>> \in granted /\ Owner(k, a) /\ k \in Nat
    BY <1>4, AckOwned DEF Ack, At
  <2>2. sessions' = [sessions EXCEPT ![k + 1].connected = TRUE]
    BY <1>4, <2>1 DEF Ack, Owner
  <2>3. sessions \in Seq(Session) /\ Len(sessions) \in Nat /\ k + 1 \in 1 .. Len(sessions) /\ k < Len(sessions)
    BY <2>1 DEF TypeOK, Owner, Live
  <2>4. sessions' = [sessions EXCEPT ![k + 1] = [sessions[k + 1] EXCEPT !.connected = TRUE]]
    BY <2>2
  <2>5. sessions[k + 1] \in Session /\ sessions[k + 1].c_name = a
    BY <2>1, <2>3 DEF Owner
  <2>6. /\ Len(sessions') = Len(sessions) /\ sessions'[k + 1].c_name = a
        /\ \A i \in 1 .. Len(sessions) : i # k + 1 => sessions'[i] = sessions[i]
    BY <2>3, <2>4, <2>5 DEF Session
  <2>7. (k + 1) - 1 = k
    BY <2>1
  <2>8. <<sessions'[k + 1].c_name, (k + 1) - 1>> = <<a, k>>
    BY <2>6, <2>7
  <2> QED
    BY <1>1, <2>1, <2>6, <2>8, GrantedGrows
<1>5. ASSUME NEW t \in Thread, ThreadStep(t), ~PushSession(t), ~Ack(t) PROVE UNCHANGED sessions
  BY <1>5 DEF ThreadStep, Take, TakeFailed, Dispatch, Lock, PushWelcome, PushEcho, Rearm, RearmFails, tableVars
<1>6. CASE InitPending \/ Kernel \/ SendOne \/ UNCHANGED vars
  BY <1>2, <1>6 DEF InitPending, Kernel, InitImmediate, Deliver, FailReceive, SendOne, vars, tableVars
<1> QED
  BY <1>2, <1>3, <1>4, <1>5, <1>6 DEF Next, FirstRun

\* Both places that index sessions stay inside it.
LEMMA StaysTame ==
    ASSUME TypeOK, OwnerInv, GrantInv, [Next]_vars, FirstRun
    PROVE  ~wild'
<1>1. ~wild
  BY DEF GrantInv, FirstRun
<1>2. ASSUME NEW i, Live(i), Index(i) PROVE wild' = wild
  BY <1>2 DEF Index
<1>3. ASSUME NEW t \in Thread, Ack(t) PROVE wild' = wild
  <2>1. Live(buf[slot[t]].id)
    BY <1>3, AckOwned DEF Ack, At, Owner
  <2> QED
    BY <1>2, <1>3, <2>1 DEF Ack
<1>4. CASE SendOne
  <2>1. sendq[1].kind = "welcome" => Owner(sendq[1].id, sendq[1].addr)
    BY <1>4, Popped DEF OwnerInv, FirstRun, Welcome
  <2>2. ~Welcome(sendq[1]) => Owner(sendq[1].id, sendq[1].addr)
    BY <1>4, Popped DEF GrantInv, FirstRun
  <2>3. Live(Head(sendq).id)
    BY <1>4, <2>1, <2>2, Popped DEF Owner, Welcome
  <2>4. wild' = wild
    BY <1>2, <1>4, <2>3 DEF SendOne
  <2> QED
    BY <1>1, <2>4
<1>5. ASSUME NEW t \in Thread, ThreadStep(t), ~Ack(t) PROVE wild' = wild
  BY <1>5 DEF ThreadStep, Take, TakeFailed, Dispatch, Lock, PushSession, PushWelcome, PushEcho, Rearm, RearmFails
<1>6. CASE InitPending \/ Kernel \/ UNCHANGED vars
  BY <1>1, <1>6 DEF InitPending, Kernel, InitImmediate, Deliver, FailReceive, vars
<1> QED
  BY <1>1, <1>3, <1>4, <1>5, <1>6 DEF Next, FirstRun

LEMMA GrantInductive == TypeOK /\ SlotInv /\ OwnerInv /\ GrantInv /\ [Next]_vars => GrantInv'
<1> SUFFICES ASSUME TypeOK, SlotInv, OwnerInv, GrantInv, [Next]_vars, early' = 0, restarts' = 0
             PROVE  GrantInv'
  BY DEF GrantInv
<1>1. FirstRun
  BY EarlyGrows, RestartsGrow DEF FirstRun
<1>2. (\A g \in granted : Owner(g[2], g[1]))'
  BY <1>1, GrantedOwned DEF Owner, Live
<1>3. (\A t \in Thread : /\ pc[t] = "ack" => buf[slot[t]].kind = "ack"
                         /\ pc[t] = "echo" => buf[slot[t]].kind = "probe")'
  BY <1>1, CaseHeld
<1>4. (\A m \in 1 .. Len(sendq) : ~Welcome(sendq[m]) => <<sendq[m].addr, sendq[m].id>> \in granted)'
  BY <1>1, EchoesGranted DEF Welcome
<1>5. (\A s \in Slot : buf[s].kind \in {"ack", "probe"} => <<buf[s].addr, buf[s].id>> \in granted)'
  BY <1>1, BuffersGranted
<1>6. (\A i \in 1 .. Len(sessions) : sessions[i].connected => <<sessions[i].c_name, i - 1>> \in granted)'
  BY <1>1, ConnectedGranted
<1>7. ~wild'
  BY <1>1, StaysTame
<1> QED
  BY <1>2, <1>3, <1>4, <1>5, <1>6, <1>7 DEF GrantInv

LEMMA GrantInvariant == Spec => [](TypeOK /\ GrantInv)
<1>1. Init => TableInv /\ SlotInv /\ OwnerInv /\ GrantInv
  <2> SUFFICES ASSUME Init PROVE TableInv /\ SlotInv /\ OwnerInv /\ GrantInv
    OBVIOUS
  <2>1. \A t \in Thread, s \in Slot : ~Holds(t, s)
    BY DEF Init, Boot, Holds
  <2>2. TableInv /\ SlotInv /\ OwnerInv
    BY <2>1 DEF Init, Boot, TableInv, SlotInv, OwnerInv, IdMatchesIndex, ExclusiveSlot, Thread
  <2>3. \A s \in Slot : buf[s].kind = "other"
    BY DEF Init, Boot, Blank
  <2>4. ~wild
    BY DEF Init
  <2> QED
    BY <2>2, <2>3, <2>4 DEF Init, Boot, GrantInv, Thread
<1> QED
  BY <1>1, TypeCorrect, TableInductive, SlotInductive, OwnerInductive, GrantInductive, PTL DEF Spec

\* sessions[client_id], which nothing checks, stays inside the table until the
\* process is restarted under its clients or a receive completes inside init().
THEOREM TameUntilRestart == Spec => []WildOnlyAfterRestart
<1>1. TypeOK /\ GrantInv => WildOnlyAfterRestart
  <2> SUFFICES ASSUME TypeOK, GrantInv, wild PROVE restarts > 0 \/ early > 0
    BY DEF WildOnlyAfterRestart
  <2>1. restarts # 0 \/ early # 0
    BY DEF GrantInv
  <2> QED
    BY <2>1 DEF TypeOK
<1> QED
  BY <1>1, GrantInvariant, PTL

\* A session is marked connected only after its packet_1 was sent to the client
\* it was made for.
THEOREM ConnectedAfterGrant == Spec => []ConnectedWasGranted
<1>1. GrantInv => ConnectedWasGranted
  BY DEF GrantInv, ConnectedWasGranted
<1> QED
  BY <1>1, GrantInvariant, PTL
-----------------------------------------------------------------------------
(* Datagrams and slots.                                                    *)

Queued(s) == \E k \in 1 .. Len(cq) : cq[k].ok /\ cq[k].slot = s

\* The datagram in slot s has not been answered or dropped yet.
Unanswered(s) ==
    Queued(s) \/ \E t \in Thread : pc[t] \notin {"wait", "rearm"} /\ slot[t] = s

\* ... and no session has been made of it.
Unregistered(s) ==
    Queued(s) \/ \E t \in Thread : pc[t] \in {"dispatch", "lock", "push"} /\ slot[t] = s

\* A step that neither receives a datagram nor restarts adds no work.
Quiet ==
    /\ UNCHANGED <<buf, arrivals>>
    /\ \A s \in Slot : /\ Unanswered(s)' => Unanswered(s)
                       /\ Unregistered(s)' => Unregistered(s)

LEMMA PortElements ==
    ASSUME TypeOK
    PROVE  \A k \in 1 .. Len(cq) : cq[k].slot \in Slot /\ cq[k].ok \in BOOLEAN
<1>1. \A k \in 1 .. Len(cq) : cq[k] \in Completion
  BY DEF TypeOK
<1> QED
  BY <1>1 DEF Completion

LEMMA QuietSteps ==
    ASSUME TypeOK, [Next]_vars, ~Restart, early = 0, early' = 0,
           ~ \E s \in Slot, d \in Incoming : Deliver(s, d)
    PROVE  Quiet
<1>1. ASSUME UNCHANGED <<buf, arrivals, cq, slot, pc>> PROVE Quiet
  BY <1>1 DEF Quiet, Unanswered, Unregistered, Queued
<1>2. CASE InitPending \/ SendOne \/ UNCHANGED vars
  BY <1>1, <1>2 DEF InitPending, SendOne, vars, portVars, threadVars, countVars
<1>3. ASSUME NEW s \in Slot, FailReceive(s) PROVE Quiet
  <2>1. cq' = Append(cq, [slot |-> s, ok |-> FALSE]) /\ UNCHANGED <<buf, arrivals, slot, pc>>
    BY <1>3 DEF FailReceive, threadVars
  <2>2. /\ Len(cq') = Len(cq) + 1 /\ Len(cq) \in Nat /\ ~cq'[Len(cq) + 1].ok
        /\ \A k \in 1 .. Len(cq) : cq'[k] = cq[k]
    BY <2>1, QueueElements DEF TypeOK
  <2>3. \A k \in 1 .. Len(cq') : k \in 1 .. Len(cq) \/ k = Len(cq) + 1
    BY <2>2
  <2>4. \A r \in Slot : Queued(r)' => Queued(r)
    BY <2>2, <2>3 DEF Queued
  <2> QED
    BY <2>1, <2>4 DEF Quiet, Unanswered, Unregistered
<1>4. ASSUME cq # <<>>, cq' = Tail(cq)
      PROVE  /\ 1 \in 1 .. Len(cq) /\ Head(cq) = cq[1]
             /\ \A s \in Slot : Queued(s)' => Queued(s)
  <2>1. /\ 1 \in 1 .. Len(cq) /\ Head(cq) = cq[1]
        /\ \A k \in 1 .. Len(cq') : k + 1 \in 1 .. Len(cq) /\ cq'[k] = cq[k + 1]
    BY <1>4, QueueElements DEF TypeOK
  <2> QED
    BY <2>1 DEF Queued
<1>5. ASSUME NEW t \in Thread, Take(t) PROVE Quiet
  <2>1. /\ cq # <<>> /\ Head(cq).ok /\ cq' = Tail(cq) /\ UNCHANGED <<buf, arrivals>>
        /\ slot' = [slot EXCEPT ![t] = Head(cq).slot] /\ pc' = [pc EXCEPT ![t] = "dispatch"]
    BY <1>5 DEF Take, Goto, countVars
  <2>2. Queued(slot'[t])
    BY <1>4, <2>1 DEF Queued, TypeOK
  <2>3. \A u \in Thread : u = t \/ (slot'[u] = slot[u] /\ pc'[u] = pc[u])
    BY <2>1 DEF TypeOK
  <2> QED
    BY <1>4, <2>1, <2>2, <2>3 DEF Quiet, Unanswered, Unregistered
<1>6. ASSUME NEW t \in Thread, TakeFailed(t) PROVE Quiet
  <2>1. cq # <<>> /\ cq' = Tail(cq) /\ UNCHANGED <<buf, arrivals, slot, pc>>
    BY <1>6 DEF TakeFailed, threadVars, countVars
  <2> QED
    BY <1>4, <2>1 DEF Quiet, Unanswered, Unregistered
<1>7. ASSUME NEW t \in Thread, NEW loc \in Loc, Goto(t, loc), UNCHANGED <<buf, arrivals, cq, slot>>,
             loc \in {"wait", "rearm"} \/ pc[t] \in {"dispatch", "lock", "push"},
             loc # "dispatch", loc \in {"lock", "push"} => pc[t] \in {"dispatch", "lock"}
      PROVE  Quiet
  <2>1. \A u \in Thread : (u = t /\ pc'[u] = loc) \/ pc'[u] = pc[u]
    BY <1>7 DEF Goto, TypeOK
  <2>2. \A s \in Slot : Queued(s)' <=> Queued(s)
    BY <1>7 DEF Queued
  <2> QED
    BY <1>7, <2>1, <2>2 DEF Quiet, Unanswered, Unregistered
<1>8. ASSUME NEW t \in Thread, Dispatch(t) PROVE Quiet
  <2>1. CaseOf(buf[slot[t]].kind) \in {"lock", "ack", "echo", "rearm"}
    BY CaseOfType, HeldType DEF Datagram
  <2> QED
    BY <1>7, <1>8, <2>1 DEF Dispatch, At, Loc, portVars, countVars
<1>9. ASSUME NEW t \in Thread,
             Lock(t) \/ PushSession(t) \/ PushWelcome(t) \/ Ack(t) \/ PushEcho(t) \/ Rearm(t) \/ RearmFails(t)
      PROVE  Quiet
  BY <1>7, <1>9 DEF Lock, PushSession, PushWelcome, Ack, PushEcho, Rearm, RearmFails, At, Loc, portVars, countVars
<1>10. ASSUME NEW d \in Incoming, InitImmediate(d) PROVE FALSE
  BY <1>10 DEF InitImmediate, TypeOK
<1> QED
  BY <1>2, <1>3, <1>5, <1>6, <1>8, <1>9, <1>10 DEF Next, Kernel, ThreadStep

\* The slot a datagram arrives in had none that waits for an answer.
LEMMA ArrivesInFreeSlot ==
    ASSUME TypeOK, SlotInv, early = 0, NEW s \in Slot, NEW d \in Incoming, Deliver(s, d)
    PROVE  /\ buf'[s] = d /\ arrivals' = arrivals + 1 /\ d.tag = arrivals + 1
           /\ ~Unanswered(s) /\ Unanswered(s)' /\ ~Unregistered(s)
           /\ \A r \in Slot : r # s =>
               /\ buf'[r] = buf[r]
               /\ Unanswered(r)' <=> Unanswered(r)
               /\ Unregistered(r)' <=> Unregistered(r)
<1>1. /\ ops[s] > 0 /\ buf' = [buf EXCEPT ![s] = d] /\ arrivals' = arrivals + 1
      /\ cq' = Append(cq, [slot |-> s, ok |-> TRUE]) /\ UNCHANGED <<slot, pc>>
  BY DEF Deliver, threadVars
<1>2. d.tag = arrivals + 1
  BY DEF Incoming
<1>3. /\ Len(cq') = Len(cq) + 1 /\ Len(cq) \in Nat /\ cq'[Len(cq) + 1] = [slot |-> s, ok |-> TRUE]
      /\ \A k \in 1 .. Len(cq) : cq'[k] = cq[k]
  BY <1>1, QueueElements DEF TypeOK
<1>4. /\ \A k \in 1 .. Len(cq') : k \in 1 .. Len(cq) \/ k = Len(cq) + 1
      /\ 1 .. Len(cq) \subseteq 1 .. Len(cq') /\ Len(cq) + 1 \in 1 .. Len(cq')
  BY <1>3
<1>5. Queued(s)' /\ \A r \in Slot : r # s => (Queued(r)' <=> Queued(r))
  BY <1>3, <1>4 DEF Queued
<1>6. \A t \in Thread : ~Holds(t, s)
  BY <1>1 DEF SlotInv, ExclusiveSlot
<1>7. ~Queued(s)
  BY <1>1 DEF SlotInv, ExclusiveSlot, Queued
<1>8. \A t \in Thread : slot[t] = s => pc[t] = "wait"
  BY <1>6 DEF Holds
<1>9. ~Unanswered(s) /\ ~Unregistered(s)
  BY <1>7, <1>8 DEF Unanswered, Unregistered
<1>10. Unanswered(s)'
  BY <1>5 DEF Unanswered
<1>11. \A r \in Slot : r # s =>
               /\ Unanswered(r)' <=> Unanswered(r)
               /\ Unregistered(r)' <=> Unregistered(r)
  BY <1>1, <1>5 DEF Unanswered, Unregistered
<1>12. buf'[s] = d /\ \A r \in Slot : r # s => buf'[r] = buf[r]
  BY <1>1 DEF TypeOK
<1>13. \A r \in Slot : r # s =>
               /\ buf'[r] = buf[r]
               /\ Unanswered(r)' <=> Unanswered(r)
               /\ Unregistered(r)' <=> Unregistered(r)
  BY <1>11, <1>12, Zenon
<1> QED
  BY <1>1, <1>2, <1>9, <1>10, <1>12, <1>13, Zenon

-----------------------------------------------------------------------------
(* A datagram is answered at most once.                                    *)

\* Every datagram that waits for its answer has a tag of its own, which no
\* reply has yet; tags count arrivals.
TagInv ==
    early = 0 =>
    /\ \A s \in Slot : buf[s].tag <= arrivals
    /\ \A m \in 1 .. Len(sendq) : sendq[m].tag <= arrivals
    /\ \A j \in sent : j.tag <= arrivals
    /\ \A s, r \in Slot : Unanswered(s) /\ Unanswered(r) /\ buf[s].tag = buf[r].tag => s = r
    /\ \A s \in Slot : Unanswered(s) => /\ \A m \in 1 .. Len(sendq) : sendq[m].tag # buf[s].tag
                                        /\ \A j \in sent : j.tag # buf[s].tag
    /\ AnsweredOnce

\* Queueing a reply ends the wait of the datagram it answers.
LEMMA Pushes ==
    ASSUME TypeOK, SlotInv, early = 0, NEW t \in Thread, PushWelcome(t) \/ PushEcho(t)
    PROVE  /\ slot[t] \in Slot /\ Unanswered(slot[t]) /\ ~Unanswered(slot[t])'
           /\ UNCHANGED <<slot, sent, granted, up>>
           /\ \E j \in Reply :
                /\ sendq' = Append(sendq, j)
                /\ j.tag = buf[slot[t]].tag /\ j.addr = buf[slot[t]].addr
                /\ PushWelcome(t) => pc[t] = "welcome" /\ j.kind = "welcome" /\ j.id = id[t]
                /\ PushEcho(t) => pc[t] = "echo" /\ j.kind = "echo"
<1>1. slot[t] \in Slot /\ buf[slot[t]] \in Datagram
  BY HeldType
<1>2. /\ pc[t] \in {"welcome", "echo"} /\ pc' = [pc EXCEPT ![t] = "rearm"]
      /\ UNCHANGED <<cq, slot, sent, granted, up>>
  BY DEF PushWelcome, PushEcho, At, Goto, portVars
<1>3. Unanswered(slot[t])
  BY <1>2 DEF Unanswered
<1>4. ~Unanswered(slot[t])'
  <2>1. Holds(t, slot[t])
    BY <1>2 DEF Holds
  <2>2. /\ \A k \in 1 .. Len(cq) : cq[k].slot # slot[t]
        /\ \A u \in Thread : Holds(u, slot[t]) => u = t
    BY <1>1, <2>1 DEF SlotInv, ExclusiveSlot
  <2>3. \A u \in Thread : u # t => pc'[u] = pc[u]
    BY <1>2 DEF TypeOK
  <2>4. pc'[t] = "rearm"
    BY <1>2 DEF TypeOK
  <2> QED
    BY <1>2, <2>2, <2>3, <2>4 DEF Unanswered, Queued, Holds
<1>5. \E j \in Reply :
          /\ sendq' = Append(sendq, j)
          /\ j.tag = buf[slot[t]].tag /\ j.addr = buf[slot[t]].addr
          /\ PushWelcome(t) => pc[t] = "welcome" /\ j.kind = "welcome" /\ j.id = id[t]
          /\ PushEcho(t) => pc[t] = "echo" /\ j.kind = "echo"
  <2> DEFINE d == buf[slot[t]]
             w == [kind |-> "welcome", id |-> id[t], addr |-> d.addr, tag |-> d.tag]
             e == [kind |-> "echo", id |-> d.id, addr |-> d.addr, tag |-> d.tag]
  <2>1. w \in Reply /\ e \in Reply
    BY <1>1 DEF TypeOK, Reply, Datagram
  <2>2. CASE PushWelcome(t)
    <3>1. sendq' = Append(sendq, w) /\ pc[t] = "welcome" /\ ~PushEcho(t)
      BY <2>2 DEF PushWelcome, PushEcho, At
    <3> QED
      BY <2>1, <3>1
  <2>3. CASE PushEcho(t)
    <3>1. sendq' = Append(sendq, e) /\ pc[t] = "echo" /\ ~PushWelcome(t)
      BY <2>3 DEF PushWelcome, PushEcho, At
    <3> QED
      BY <2>1, <3>1
  <2> QED
    BY <2>2, <2>3
<1> QED
  BY <1>1, <1>2, <1>3, <1>4, <1>5

\* Every other step of the process leaves send_queue alone or pops it.
LEMMA OutStays ==
    ASSUME [Next]_vars, ~Restart, ~SendOne, ~ \E t \in Thread : PushWelcome(t) \/ PushEcho(t)
    PROVE  UNCHANGED <<sendq, sent, granted>>
<1>1. ASSUME NEW t \in Thread, ThreadStep(t) PROVE UNCHANGED <<sendq, sent, granted>>
  BY <1>1 DEF ThreadStep, Take, TakeFailed, Dispatch, Lock, PushSession, Ack, Rearm, RearmFails, outVars
<1>2. CASE InitPending \/ Kernel \/ UNCHANGED vars
  BY <1>2 DEF InitPending, Kernel, InitImmediate, Deliver, FailReceive, vars, outVars
<1> QED
  BY <1>1, <1>2 DEF Next

LEMMA PopsHead ==
    ASSUME TypeOK, SendOne
    PROVE  /\ Head(sendq) = sendq[1] /\ 1 \in 1 .. Len(sendq) /\ sendq[1] \in Reply
           /\ \A m \in 1 .. Len(sendq') : m + 1 \in 1 .. Len(sendq) /\ m + 1 # 1 /\ sendq'[m] = sendq[m + 1]
           /\ sent' = IF up' THEN sent \union {sendq[1]} ELSE sent
           /\ UNCHANGED <<buf, cq, pc, slot, sessions, arrivals>>
<1>1. sendq \in Seq(Reply) /\ sendq # <<>> /\ sendq' = Tail(sendq)
  BY DEF TypeOK, SendOne
<1>2. /\ Head(sendq) = sendq[1] /\ 1 \in 1 .. Len(sendq)
      /\ \A m \in 1 .. Len(sendq') : m + 1 \in 1 .. Len(sendq) /\ sendq'[m] = sendq[m + 1]
  BY <1>1, QueueElements
<1>3. \A m \in 1 .. Len(sendq') : m + 1 # 1
  OBVIOUS
<1>4. sendq[1] \in Reply
  BY <1>1, <1>2
<1>5. /\ sent' = IF up' THEN sent \union {sendq[1]} ELSE sent
      /\ UNCHANGED <<buf, cq, pc, slot, sessions, arrivals>>
  BY <1>2 DEF SendOne, portVars, threadVars, tableVars, countVars
<1> QED
  BY <1>2, <1>3, <1>4, <1>5

LEMMA TagType ==
    ASSUME TypeOK
    PROVE  /\ arrivals \in Nat
           /\ \A s \in Slot : buf[s].tag \in Nat
           /\ \A m \in 1 .. Len(sendq) : sendq[m] \in Reply /\ sendq[m].tag \in Nat
           /\ \A j \in sent : j.tag \in Nat
<1>1. \A m \in 1 .. Len(sendq) : sendq[m] \in Reply
  BY DEF TypeOK
<1> QED
  BY <1>1 DEF TypeOK, Datagram, Reply

LEMMA TagInductive == TypeOK /\ SlotInv /\ TagInv /\ [Next]_vars => TagInv'
<1> SUFFICES ASSUME TypeOK, SlotInv, TagInv, [Next]_vars, early = 0, early' = 0 PROVE TagInv'
  BY EarlyGrows DEF TagInv
<1>1. CASE Restart
  <2>1. /\ sendq' = <<>> /\ sent' = {} /\ cq' = <<>> /\ arrivals' = arrivals
        /\ pc' = [t \in Thread |-> "wait"] /\ buf' = [s \in Slot |-> Blank]
    BY <1>1 DEF Restart
  <2>2. \A s \in Slot : ~Unanswered(s)'
    BY <2>1 DEF Unanswered, Queued
  <2>3. \A s \in Slot : buf'[s].tag = 0
    BY <2>1 DEF Blank
  <2>4. \A s \in Slot : buf'[s].tag <= arrivals'
    BY <2>1, <2>3, TagType
  <2> QED
    BY <2>1, <2>2, <2>4 DEF TagInv, AnsweredOnce
<1>2. ASSUME NEW s \in Slot, NEW d \in Incoming, Deliver(s, d) PROVE TagInv'
  <2>1. UNCHANGED <<sendq, sent>>
    BY <1>2 DEF Deliver, outVars
  <2>2. \A r \in Slot : r # s => buf'[r] = buf[r] /\ (Unanswered(r)' => Unanswered(r))
    BY <1>2, ArrivesInFreeSlot
  <2>3. buf'[s].tag = arrivals + 1 /\ arrivals' = arrivals + 1
    BY <1>2, ArrivesInFreeSlot
  <2>4. /\ \A r \in Slot : r # s => buf'[r].tag <= arrivals' /\ buf'[r].tag # arrivals + 1
        /\ \A m \in 1 .. Len(sendq) : sendq[m].tag <= arrivals' /\ sendq[m].tag # arrivals + 1
        /\ \A j \in sent : j.tag <= arrivals' /\ j.tag # arrivals + 1
    BY <2>2, <2>3, TagType DEF TagInv
  <2>5. arrivals + 1 <= arrivals'
    BY <2>3, TagType
  <2>6. \A r, q \in Slot : Unanswered(r)' /\ Unanswered(q)' /\ buf'[r].tag = buf'[q].tag => r = q
    BY <2>2, <2>3, <2>4 DEF TagInv
  <2>7. \A r \in Slot : Unanswered(r)' => /\ \A m \in 1 .. Len(sendq) : sendq[m].tag # buf'[r].tag
                                          /\ \A j \in sent : j.tag # buf'[r].tag
    BY <2>2, <2>3, <2>4 DEF TagInv
  <2>8. \A r \in Slot : buf'[r].tag <= arrivals'
    BY <2>3, <2>4, <2>5
  <2> QED
    BY <2>1, <2>4, <2>6, <2>7, <2>8 DEF TagInv, AnsweredOnce
<1> SUFFICES ASSUME ~Restart, ~ \E s \in Slot, d \in Incoming : Deliver(s, d) PROVE TagInv'
  BY <1>1, <1>2
<1>3. UNCHANGED <<buf, arrivals>> /\ \A s \in Slot : Unanswered(s)' => Unanswered(s)
  BY QuietSteps DEF Quiet
<1>4. CASE UNCHANGED <<sendq, sent>>
  BY <1>3, <1>4 DEF TagInv, AnsweredOnce
<1>5. ASSUME NEW t \in Thread, PushWelcome(t) \/ PushEcho(t) PROVE TagInv'
  <2> DEFINE s == slot[t]
  <2>1. s \in Slot /\ Unanswered(s) /\ ~Unanswered(s)' /\ sent' = sent /\ slot' = slot
    BY <1>5, Pushes
  <2>2. PICK j \in Reply : sendq' = Append(sendq, j) /\ j.tag = buf[s].tag
    BY <1>5, Pushes
  <2>3. /\ Len(sendq') = Len(sendq) + 1 /\ Len(sendq) \in Nat /\ sendq'[Len(sendq) + 1] = j
        /\ \A m \in 1 .. Len(sendq) : sendq'[m] = sendq[m]
    BY <2>2, QueueElements DEF TypeOK
  <2>4. \A m \in 1 .. Len(sendq') : m \in 1 .. Len(sendq) \/ m = Len(sendq) + 1
    BY <2>3
  <2>5. /\ \A m \in 1 .. Len(sendq) : sendq[m].tag # j.tag
        /\ \A k \in sent : k.tag # j.tag
        /\ j.tag <= arrivals
        /\ \A r \in Slot : Unanswered(r)' => r # s /\ buf[r].tag # j.tag
    <3>1. \A r \in Slot : Unanswered(r)' => r # s
      BY <2>1
    <3> QED
      BY <1>3, <2>1, <2>2, <3>1 DEF TagInv
  <2>6. AnsweredOnce'
    BY <2>1, <2>3, <2>4, <2>5 DEF TagInv, AnsweredOnce
  <2>7. \A r \in Slot : Unanswered(r)' => /\ \A m \in 1 .. Len(sendq') : sendq'[m].tag # buf'[r].tag
                                          /\ \A k \in sent' : k.tag # buf'[r].tag
    BY <1>3, <2>1, <2>3, <2>4, <2>5 DEF TagInv
  <2>8. \A m \in 1 .. Len(sendq') : sendq'[m].tag <= arrivals'
    BY <1>3, <2>3, <2>4, <2>5 DEF TagInv
  <2> QED
    BY <1>3, <2>1, <2>6, <2>7, <2>8 DEF TagInv
<1>6. CASE SendOne
  <2> DEFINE j == sendq[1]
  <2>1. /\ 1 \in 1 .. Len(sendq)
        /\ \A m \in 1 .. Len(sendq') : m + 1 \in 1 .. Len(sendq) /\ m + 1 # 1 /\ sendq'[m] = sendq[m + 1]
        /\ \A k \in sent' : k \in sent \/ k = j
    BY <1>6, PopsHead
  <2>2. \A m, n \in 1 .. Len(sendq') : m + 1 = n + 1 => m = n
    OBVIOUS
  <2>3. \A m, n \in 1 .. Len(sendq') : sendq'[m].tag = sendq'[n].tag => m = n
    BY <2>1, <2>2 DEF TagInv, AnsweredOnce
  <2>4. \A m \in 1 .. Len(sendq'), k \in sent' : sendq'[m].tag # k.tag
    BY <2>1 DEF TagInv, AnsweredOnce
  <2>5. \A k, l \in sent' : k.tag = l.tag => k = l
    BY <2>1 DEF TagInv, AnsweredOnce
  <2>6. AnsweredOnce'
    BY <2>3, <2>4, <2>5 DEF AnsweredOnce
  <2>7. \A r \in Slot : Unanswered(r)' => /\ \A m \in 1 .. Len(sendq') : sendq'[m].tag # buf'[r].tag
                                          /\ \A k \in sent' : k.tag # buf'[r].tag
    BY <1>3, <2>1 DEF TagInv
  <2> QED
    BY <1>3, <2>1, <2>6, <2>7 DEF TagInv
<1> QED
  BY <1>4, <1>5, <1>6, OutStays

LEMMA InitSlots == Init => /\ \A t \in Thread, s \in Slot : ~Holds(t, s)
                           /\ \A s \in Slot : ~Unanswered(s) /\ ~Unregistered(s)
  BY DEF Init, Boot, Holds, Unanswered, Unregistered, Queued

\* No datagram is answered twice, though two threads, a queue and a buffer that
\* is posted again all handle it, unless a receive completes inside init().
THEOREM AnswersOnce == Spec => []AnsweredOnce
<1>1. Init => SlotInv /\ TagInv
  <2> SUFFICES ASSUME Init PROVE SlotInv /\ TagInv
    OBVIOUS
  <2>1. SlotInv
    BY InitSlots DEF Init, Boot, SlotInv, ExclusiveSlot
  <2>2. \A s \in Slot : buf[s].tag <= arrivals
    BY DEF Init, Boot, Blank
  <2>3. TagInv
    BY <2>2, InitSlots DEF Init, Boot, TagInv, AnsweredOnce
  <2> QED
    BY <2>1, <2>3
<1>2. TagInv => AnsweredOnce
  BY DEF TagInv, AnsweredOnce
<1> QED
  BY <1>1, <1>2, TypeCorrect, SlotInductive, TagInductive, PTL DEF Spec

-----------------------------------------------------------------------------
(* Where datagrams come from and how many sessions there can be.           *)

\* The buffer of a thread holds the packet of the case the thread is in.
InCase(t) ==
    /\ pc[t] \in {"lock", "push", "welcome"} => buf[slot[t]].kind = "hello"
    /\ pc[t] = "ack" => buf[slot[t]].kind = "ack"
    /\ pc[t] = "echo" => buf[slot[t]].kind = "probe"

KindInv == early = 0 => \A t \in Thread : InCase(t)

LEMMA KindInductive == TypeOK /\ SlotInv /\ KindInv /\ [Next]_vars => KindInv'
<1> SUFFICES ASSUME TypeOK, SlotInv, KindInv, [Next]_vars, early = 0, early' = 0, NEW t \in Thread
             PROVE  InCase(t)'
  BY EarlyGrows DEF KindInv
<1>1. CASE Restart
  BY <1>1 DEF Restart, InCase
<1>2. ~Restart /\ pc[t] # "wait" => slot'[t] = slot[t] /\ buf'[slot[t]] = buf[slot[t]]
  BY HeldStays
<1>3. CASE ~Restart /\ pc'[t] = pc[t]
  BY <1>2, <1>3 DEF KindInv, InCase
<1>4. ASSUME NEW u \in Thread, Dispatch(u), pc'[t] # pc[t] PROVE InCase(t)'
  <2>1. u = t /\ pc'[t] = CaseOf(buf[slot[t]].kind) /\ UNCHANGED <<slot, buf>>
    BY <1>4 DEF Dispatch, Goto, TypeOK, portVars
  <2>2. buf[slot[t]].kind \in Kind
    BY HeldType DEF Datagram
  <2> QED
    BY <2>1, <2>2 DEF CaseOf, Kind, InCase
<1>5. ASSUME NEW u \in Thread, Lock(u) \/ PushSession(u), pc'[t] # pc[t] PROVE InCase(t)'
  <2>1. /\ u = t /\ pc[t] \in {"lock", "push"} /\ pc'[t] \in {"push", "welcome"}
        /\ UNCHANGED <<slot, buf>>
    BY <1>5 DEF Lock, PushSession, At, Goto, TypeOK, portVars
  <2> QED
    BY <2>1 DEF KindInv, InCase
<1>6. ASSUME NEW u \in Thread, ThreadStep(u), ~Dispatch(u), ~Lock(u), ~PushSession(u), pc'[t] # pc[t]
      PROVE  InCase(t)'
  <2>1. pc'[t] \in {"wait", "dispatch", "rearm"}
    BY <1>6 DEF ThreadStep, Take, TakeFailed, PushWelcome, Ack, PushEcho, Rearm, RearmFails, Goto,
                TypeOK, threadVars
  <2> QED
    BY <2>1 DEF InCase
<1>7. ASSUME InitPending \/ Kernel \/ SendOne \/ UNCHANGED vars PROVE pc' = pc
  BY <1>7 DEF InitPending, Kernel, InitImmediate, Deliver, FailReceive, SendOne, vars, threadVars
<1> QED
  BY <1>1, <1>3, <1>4, <1>5, <1>6, <1>7 DEF Next

\* What waits for an answer came from a client, and so did what was granted.
SenderInv ==
    early = 0 =>
    /\ \A s \in Slot : Unanswered(s) => buf[s].addr \in Addr
    /\ \A m \in 1 .. Len(sendq) : sendq[m].addr \in Addr
    /\ granted \subseteq Addr \X Nat

LEMMA SenderInductive == TypeOK /\ SlotInv /\ SenderInv /\ [Next]_vars => SenderInv'
<1> SUFFICES ASSUME TypeOK, SlotInv, SenderInv, [Next]_vars, early = 0, early' = 0 PROVE SenderInv'
  BY EarlyGrows DEF SenderInv
<1>1. CASE Restart
  <2>1. \A s \in Slot : ~Unanswered(s)'
    BY <1>1 DEF Restart, Unanswered, Queued
  <2>2. sendq' = <<>> /\ granted' = granted
    BY <1>1 DEF Restart
  <2> QED
    BY <2>1, <2>2 DEF SenderInv
<1>2. ASSUME NEW s \in Slot, NEW d \in Incoming, Deliver(s, d) PROVE SenderInv'
  <2>1. d.addr \in Addr
    BY DEF Incoming, SenderInv
  <2>2. UNCHANGED <<sendq, granted>>
    BY <1>2 DEF Deliver, outVars
  <2>3. buf'[s] = d /\ \A r \in Slot : r # s => buf'[r] = buf[r] /\ (Unanswered(r)' => Unanswered(r))
    BY <1>2, ArrivesInFreeSlot
  <2> QED
    BY <2>1, <2>2, <2>3 DEF SenderInv
<1> SUFFICES ASSUME ~Restart, ~ \E s \in Slot, d \in Incoming : Deliver(s, d) PROVE SenderInv'
  BY <1>1, <1>2
<1>3. (\A s \in Slot : Unanswered(s) => buf[s].addr \in Addr)'
  BY QuietSteps DEF Quiet, SenderInv
<1>4. CASE UNCHANGED <<sendq, granted>>
  BY <1>3, <1>4 DEF SenderInv
<1>5. ASSUME NEW t \in Thread, PushWelcome(t) \/ PushEcho(t) PROVE SenderInv'
  <2>1. slot[t] \in Slot /\ Unanswered(slot[t]) /\ granted' = granted
    BY <1>5, Pushes
  <2>2. PICK j \in Reply : sendq' = Append(sendq, j) /\ j.addr = buf[slot[t]].addr
    BY <1>5, Pushes
  <2>3. /\ Len(sendq') = Len(sendq) + 1 /\ Len(sendq) \in Nat /\ sendq'[Len(sendq) + 1] = j
        /\ \A m \in 1 .. Len(sendq) : sendq'[m] = sendq[m]
    BY <2>2, QueueElements DEF TypeOK
  <2>4. \A m \in 1 .. Len(sendq') : m \in 1 .. Len(sendq) \/ m = Len(sendq) + 1
    BY <2>3
  <2>5. \A m \in 1 .. Len(sendq') : sendq'[m].addr \in Addr
    BY <2>1, <2>2, <2>3, <2>4 DEF SenderInv
  <2> QED
    BY <1>3, <2>1, <2>5 DEF SenderInv
<1>6. CASE SendOne
  <2>1. \A m \in 1 .. Len(sendq') : sendq'[m].addr \in Addr
    BY <1>6, PopsHead DEF SenderInv
  <2>2. sendq[1].addr \in Addr /\ sendq[1].id \in Nat
    BY <1>6, PopsHead DEF SenderInv, Reply
  <2>3. \A g \in granted' : g \in granted \/ g = <<sendq[1].addr, sendq[1].id>>
    BY <1>6, PopsHead DEF SendOne
  <2>4. granted' \subseteq Addr \X Nat
    BY <2>2, <2>3 DEF SenderInv
  <2> QED
    BY <1>3, <2>1, <2>4 DEF SenderInv
<1> QED
  BY <1>4, <1>5, <1>6, OutStays

-----------------------------------------------------------------------------
\* The slots whose datagram may still become a session.
Pending == {s \in Slot : Unregistered(s)}

LEMMA SlotSets ==
    ASSUME NEW P \in SUBSET Slot, NEW Q \in SUBSET Slot
    PROVE  /\ Cardinality(P) \in Nat /\ Cardinality(Q) \in Nat
           /\ Q \subseteq P => Cardinality(Q) <= Cardinality(P)
           /\ \A s \in Slot : Q \subseteq P \union {s} => Cardinality(Q) <= Cardinality(P) + 1
           /\ \A s \in P : Q \subseteq P \ {s} => Cardinality(Q) + 1 <= Cardinality(P)
<1>1. IsFiniteSet(Slot)
  BY ServerAssumption, FS_Interval DEF Slot
<1>2. IsFiniteSet(P) /\ IsFiniteSet(Q)
  BY <1>1, FS_Subset
<1>3. Cardinality(P) \in Nat /\ Cardinality(Q) \in Nat
  BY <1>2, FS_CardinalityType
<1>4. Q \subseteq P => Cardinality(Q) <= Cardinality(P)
  BY <1>2, FS_Subset
<1>5. ASSUME NEW s \in Slot, Q \subseteq P \union {s} PROVE Cardinality(Q) <= Cardinality(P) + 1
  <2>0. /\ IsFiniteSet(P \union {s})
        /\ Cardinality(P \union {s}) = IF s \in P THEN Cardinality(P) ELSE Cardinality(P) + 1
    BY <1>2, FS_AddElement
  <2>1. IsFiniteSet(P \union {s}) /\ Cardinality(P \union {s}) <= Cardinality(P) + 1
    BY <1>3, <2>0
  <2>2. Cardinality(Q) <= Cardinality(P \union {s})
    BY <1>5, <2>1, FS_Subset
  <2>3. Cardinality(P \union {s}) \in Nat
    BY <2>1, FS_CardinalityType
  <2> QED
    BY <1>3, <2>1, <2>2, <2>3
<1>6. ASSUME NEW s \in P, Q \subseteq P \ {s} PROVE Cardinality(Q) + 1 <= Cardinality(P)
  <2>1. IsFiniteSet(P \ {s}) /\ Cardinality(P \ {s}) = Cardinality(P) - 1
    BY <1>2, FS_RemoveElement
  <2>2. Cardinality(Q) <= Cardinality(P \ {s})
    BY <1>6, <2>1, FS_Subset
  <2> QED
    BY <1>3, <2>1, <2>2
<1> QED
  BY <1>3, <1>4, <1>5, <1>6

\* No more sessions than datagrams that have arrived.
CountInv ==
    /\ arrivals <= MaxArrivals
    /\ early = 0 => Len(sessions) + Cardinality(Pending) <= arrivals

LEMMA CountInductive == TypeOK /\ SlotInv /\ CountInv /\ [Next]_vars => CountInv'
<1> SUFFICES ASSUME TypeOK, SlotInv, CountInv, [Next]_vars PROVE CountInv'
  OBVIOUS
<1>0. arrivals' \in {arrivals, arrivals + 1} /\ (arrivals' # arrivals => arrivals < MaxArrivals)
  <2>1. ASSUME NEW t \in Thread, ThreadStep(t) PROVE arrivals' = arrivals
    BY <2>1 DEF ThreadStep, Take, TakeFailed, Dispatch, Lock, PushSession, PushWelcome, Ack,
                PushEcho, Rearm, RearmFails, countVars
  <2>2. ASSUME InitPending \/ SendOne \/ Restart \/ UNCHANGED vars PROVE arrivals' = arrivals
    BY <2>2 DEF InitPending, SendOne, Restart, vars, countVars
  <2>3. CASE Kernel
    BY <2>3 DEF Kernel, InitImmediate, Deliver, FailReceive
  <2> QED
    BY <2>1, <2>2, <2>3 DEF Next
<1>1. arrivals' <= MaxArrivals /\ arrivals \in Nat /\ Len(sessions) \in Nat
  BY <1>0, ServerAssumption DEF CountInv, TypeOK
<1> SUFFICES ASSUME early = 0, early' = 0 PROVE Len(sessions') + Cardinality(Pending') <= arrivals'
  BY <1>1, EarlyGrows DEF CountInv
<1>2. Pending \in SUBSET Slot /\ Pending' \in SUBSET Slot
  BY DEF Pending, Slot
<1>3. /\ Cardinality(Pending) \in Nat /\ Cardinality(Pending') \in Nat
      /\ Pending' \subseteq Pending => Cardinality(Pending') <= Cardinality(Pending)
      /\ \A s \in Slot : Pending' \subseteq Pending \union {s} => Cardinality(Pending') <= Cardinality(Pending) + 1
      /\ \A s \in Pending : Pending' \subseteq Pending \ {s} => Cardinality(Pending') + 1 <= Cardinality(Pending)
  BY <1>2, SlotSets
<1>4. Len(sessions) + Cardinality(Pending) <= arrivals
  BY DEF CountInv
<1>5. CASE Restart
  <2>1. cq' = <<>> /\ pc' = [t \in Thread |-> "wait"] /\ sessions' = <<>> /\ arrivals' = arrivals
    BY <1>5 DEF Restart
  <2>2. Pending' = {}
    BY <2>1 DEF Pending, Unregistered, Queued
  <2>3. Pending' \subseteq Pending /\ Len(sessions') = 0
    BY <2>1, <2>2
  <2> QED
    BY <1>1, <1>3, <1>4, <2>1, <2>3
<1>6. ASSUME NEW s \in Slot, NEW d \in Incoming, Deliver(s, d)
      PROVE  Len(sessions') + Cardinality(Pending') <= arrivals'
  <2>1. sessions' = sessions /\ arrivals' = arrivals + 1
    BY <1>6 DEF Deliver, tableVars
  <2>2. Pending' \subseteq Pending \union {s}
    BY <1>6, ArrivesInFreeSlot DEF Pending, Slot
  <2> QED
    BY <1>1, <1>3, <1>4, <2>1, <2>2
<1> SUFFICES ASSUME ~Restart, ~ \E s \in Slot, d \in Incoming : Deliver(s, d)
             PROVE  Len(sessions') + Cardinality(Pending') <= arrivals'
  BY <1>5, <1>6
<1>7. arrivals' = arrivals /\ Pending' \subseteq Pending
  BY QuietSteps DEF Quiet, Pending, Slot
<1>8. CASE Len(sessions') = Len(sessions)
  BY <1>1, <1>3, <1>4, <1>7, <1>8
<1>9. ASSUME NEW t \in Thread, PushSession(t) PROVE Len(sessions') + Cardinality(Pending') <= arrivals'
  <2>1. /\ pc[t] = "push" /\ pc' = [pc EXCEPT ![t] = "welcome"] /\ UNCHANGED <<cq, slot>>
        /\ Len(sessions') = Len(sessions) + 1
    BY <1>9 DEF PushSession, At, Goto, portVars, TypeOK
  <2>2. slot[t] \in Pending /\ slot[t] \in Slot
    BY <2>1, HeldType DEF Pending, Unregistered
  <2>3. Holds(t, slot[t])
    BY <2>1 DEF Holds
  <2>4. /\ \A k \in 1 .. Len(cq) : cq[k].slot # slot[t]
        /\ \A u \in Thread : Holds(u, slot[t]) => u = t
    BY <2>2, <2>3 DEF SlotInv, ExclusiveSlot
  <2>5. pc'[t] = "welcome" /\ \A u \in Thread : u # t => pc'[u] = pc[u]
    BY <2>1 DEF TypeOK
  <2>6. ~Unregistered(slot[t])'
    BY <2>1, <2>4, <2>5 DEF Unregistered, Queued, Holds
  <2>7. \A s : s = slot[t] => s \notin Pending'
    BY <2>1, <2>6 DEF Pending
  <2>8. Pending' \subseteq Pending \ {slot[t]}
    BY <1>7, <2>7
  <2> QED
    BY <1>1, <1>3, <1>4, <1>7, <2>1, <2>2, <2>8
<1>10. ASSUME NEW t \in Thread, Ack(t) PROVE Len(sessions') = Len(sessions)
  BY <1>10 DEF Ack, TypeOK
<1>11. ASSUME NEW t \in Thread, ThreadStep(t), ~PushSession(t), ~Ack(t) PROVE sessions' = sessions
  BY <1>11 DEF ThreadStep, Take, TakeFailed, Dispatch, Lock, PushWelcome, PushEcho, Rearm, RearmFails, tableVars
<1>12. ASSUME InitPending \/ Kernel \/ SendOne \/ UNCHANGED vars PROVE sessions' = sessions
  BY <1>12 DEF InitPending, Kernel, InitImmediate, Deliver, FailReceive, SendOne, vars, tableVars
<1> QED
  BY <1>8, <1>9, <1>10, <1>11, <1>12 DEF Next

-----------------------------------------------------------------------------
(* A slot is lost only to a failure.                                       *)

\* No receive is posted on slot s, and nothing will post one.
Lost == {s \in Slot : /\ s <= started /\ ops[s] = 0
                      /\ ~Queued(s)
                      /\ \A t \in Thread : ~Holds(t, s)}

\* Whatever receives complete inside init(), a slot is lost for each failure at
\* most.
LostInv == Cardinality(Lost) <= failures

LEMMA Kept ==
    ASSUME TypeOK, [Next]_vars, NEW s \in Slot, s \in Lost', s \notin Lost
    PROVE  \/ FailReceive(s) \/ \E t \in Thread : RearmFails(t) /\ slot[t] = s
<1> SUFFICES ASSUME ~FailReceive(s), ~ \E t \in Thread : RearmFails(t) /\ slot[t] = s PROVE FALSE
  OBVIOUS
<1>0. /\ s <= started' /\ ops'[s] = 0 /\ ~Queued(s)' /\ \A t \in Thread : ~Holds(t, s)'
      /\ \/ ~(s <= started) \/ ops[s] # 0 \/ Queued(s) \/ \E t \in Thread : Holds(t, s)
  BY DEF Lost, Slot
<1>1. started \in Nat /\ ops \in [Slot -> Nat] /\ s \in Nat /\ cq \in Seq(Completion) /\ Len(cq) \in Nat
  BY ServerAssumption DEF TypeOK, Slot
<1>2. CASE UNCHANGED <<started, ops, cq, slot, pc>>
  BY <1>0, <1>2 DEF Queued, Holds
<1>3. CASE SendOne \/ UNCHANGED vars
  BY <1>2, <1>3 DEF SendOne, vars, portVars, threadVars
<1>4. CASE Restart
  BY <1>0, <1>4 DEF Restart, Slot
<1>5. CASE InitPending
  <2>1. started' = started + 1 /\ started + 1 \in Slot /\ ops' = [ops EXCEPT ![started + 1] = @ + 1]
        /\ UNCHANGED <<cq, slot, pc>>
    BY <1>1, <1>5, ServerAssumption DEF InitPending, Slot, threadVars
  <2>2. s # started + 1
    BY <1>0, <1>1, <2>1
  <2>3. s <= started /\ ops'[s] = ops[s]
    BY <1>0, <1>1, <2>1, <2>2
  <2> QED
    BY <1>0, <2>1, <2>3 DEF Queued, Holds
<1>6. ASSUME NEW c \in Completion, cq' = Append(cq, c) PROVE Queued(s) => Queued(s)'
  <2>1. Len(cq') = Len(cq) + 1 /\ \A k \in 1 .. Len(cq) : cq'[k] = cq[k]
    BY <1>1, <1>6
  <2>2. 1 .. Len(cq) \subseteq 1 .. Len(cq')
    BY <1>1, <2>1
  <2> QED
    BY <2>1, <2>2 DEF Queued
<1>7. ASSUME NEW r \in Slot, cq' = Append(cq, [slot |-> r, ok |-> TRUE]) PROVE Queued(r)'
  <2>1. [slot |-> r, ok |-> TRUE] \in Completion
    BY DEF Completion
  <2>2. Len(cq') = Len(cq) + 1 /\ cq'[Len(cq) + 1] = [slot |-> r, ok |-> TRUE]
    BY <1>1, <1>7, <2>1
  <2>3. Len(cq) + 1 \in 1 .. Len(cq')
    BY <1>1, <2>2
  <2> QED
    BY <2>2, <2>3 DEF Queued
<1>8. ASSUME NEW d \in Incoming, InitImmediate(d) PROVE FALSE
  <2>1. started + 1 \in Slot /\ cq' = Append(cq, [slot |-> started + 1, ok |-> TRUE])
        /\ UNCHANGED <<started, ops, slot, pc>>
    BY <1>1, <1>8, ServerAssumption DEF InitImmediate, Slot, threadVars
  <2>2. [slot |-> started + 1, ok |-> TRUE] \in Completion
    BY <2>1 DEF Completion
  <2> QED
    BY <1>0, <1>6, <2>1, <2>2 DEF Holds
<1>9. ASSUME NEW r \in Slot, NEW d \in Incoming, Deliver(r, d) PROVE FALSE
  <2>1. cq' = Append(cq, [slot |-> r, ok |-> TRUE]) /\ ops' = [ops EXCEPT ![r] = @ - 1]
        /\ UNCHANGED <<started, slot, pc>>
    BY <1>9 DEF Deliver, threadVars
  <2>2. [slot |-> r, ok |-> TRUE] \in Completion
    BY DEF Completion
  <2>3. Queued(r)'
    BY <1>7, <2>1
  <2>4. s # r
    BY <1>0, <2>3 DEF Queued
  <2>5. ops'[s] = ops[s]
    BY <1>1, <2>1, <2>4
  <2> QED
    BY <1>0, <1>6, <2>1, <2>2, <2>5 DEF Holds
<1>10. ASSUME NEW r \in Slot, FailReceive(r) PROVE FALSE
  <2>1. cq' = Append(cq, [slot |-> r, ok |-> FALSE]) /\ ops' = [ops EXCEPT ![r] = @ - 1]
        /\ UNCHANGED <<started, slot, pc>>
    BY <1>10 DEF FailReceive, threadVars
  <2>2. [slot |-> r, ok |-> FALSE] \in Completion
    BY DEF Completion
  <2>3. s # r
    BY <1>10
  <2>4. ops'[s] = ops[s]
    BY <1>1, <2>1, <2>3
  <2> QED
    BY <1>0, <1>6, <2>1, <2>2, <2>4 DEF Holds
<1>11. ASSUME cq # <<>>, cq' = Tail(cq), Queued(s)
       PROVE  Queued(s)' \/ (cq[1].ok /\ s = cq[1].slot)
  <2>1. PICK k \in 1 .. Len(cq) : cq[k].ok /\ cq[k].slot = s
    BY <1>11 DEF Queued
  <2>2. Len(cq') = Len(cq) - 1 /\ \A m \in 1 .. Len(cq') : cq'[m] = cq[m + 1]
    BY <1>1, <1>11
  <2>3. k = 1 \/ (k - 1 \in 1 .. Len(cq') /\ (k - 1) + 1 = k)
    BY <1>1, <2>2
  <2>4. CASE k = 1
    BY <2>1, <2>4
  <2>5. CASE k - 1 \in 1 .. Len(cq') /\ (k - 1) + 1 = k
    <3>1. cq'[k - 1] = cq[k]
      BY <2>2, <2>5
    <3> QED
      BY <2>1, <2>5, <3>1 DEF Queued
  <2> QED
    BY <2>3, <2>4, <2>5
<1>12. ASSUME NEW t \in Thread, Take(t) PROVE FALSE
  <2>1. /\ cq # <<>> /\ cq' = Tail(cq) /\ Head(cq).ok /\ pc[t] = "wait"
        /\ slot' = [slot EXCEPT ![t] = Head(cq).slot] /\ pc' = [pc EXCEPT ![t] = "dispatch"]
        /\ UNCHANGED <<started, ops>>
    BY <1>12 DEF Take, At, Goto
  <2>2. Head(cq) = cq[1]
    BY <1>1, <2>1
  <2>3. pc'[t] = "dispatch" /\ slot'[t] = cq[1].slot
        /\ \A u \in Thread : u # t => pc'[u] = pc[u] /\ slot'[u] = slot[u]
    BY <2>1, <2>2 DEF TypeOK
  <2>4. s # cq[1].slot
    BY <1>0, <2>3 DEF Holds
  <2>5. \A u \in Thread : Holds(u, s) => Holds(u, s)'
    BY <2>1, <2>3 DEF Holds
  <2> QED
    BY <1>0, <1>11, <2>1, <2>4, <2>5
<1>13. ASSUME NEW t \in Thread, TakeFailed(t) PROVE FALSE
  <2>1. cq # <<>> /\ cq' = Tail(cq) /\ ~Head(cq).ok /\ UNCHANGED <<started, ops, slot, pc>>
    BY <1>13 DEF TakeFailed, threadVars
  <2>2. Head(cq) = cq[1]
    BY <1>1, <2>1
  <2> QED
    BY <1>0, <1>11, <2>1, <2>2 DEF Holds
<1>14. ASSUME NEW t \in Thread, Dispatch(t) \/ Lock(t) \/ PushSession(t) \/ PushWelcome(t) \/ Ack(t) \/ PushEcho(t)
       PROVE  FALSE
  <2>1. pc[t] # "wait" /\ (\E l \in Loc \ {"wait"} : pc' = [pc EXCEPT ![t] = l])
        /\ UNCHANGED <<started, ops, cq, slot>>
    <3>1. CASE Dispatch(t)
      <4>1. buf[slot[t]].kind \in Kind
        BY HeldType DEF Datagram
      <4>2. CaseOf(buf[slot[t]].kind) \in Loc \ {"wait"}
        BY <4>1 DEF CaseOf, Kind, Loc
      <4> QED
        BY <3>1, <4>2 DEF Dispatch, At, Goto, portVars
    <3> QED
      BY <1>14, <3>1 DEF Lock, PushSession, PushWelcome, Ack, PushEcho, At, Goto, portVars, Loc
  <2>2. \A u \in Thread : Holds(u, s) => Holds(u, s)'
    BY <2>1 DEF Holds, TypeOK
  <2> QED
    BY <1>0, <2>1, <2>2 DEF Queued
<1>15. ASSUME NEW t \in Thread, Rearm(t) PROVE FALSE
  <2>1. /\ ops' = [ops EXCEPT ![slot[t]] = @ + 1] /\ pc' = [pc EXCEPT ![t] = "wait"]
        /\ UNCHANGED <<started, cq, slot>>
    BY <1>15 DEF Rearm, Goto
  <2>2. slot[t] \in Slot /\ ops[slot[t]] \in Nat
    BY <1>1 DEF TypeOK
  <2>3. ops'[slot[t]] # 0
    BY <1>1, <2>1, <2>2
  <2>4. s # slot[t]
    BY <1>0, <2>3
  <2>5. ops'[s] = ops[s]
    BY <1>1, <2>1, <2>4
  <2>6. \A u \in Thread : Holds(u, s) => Holds(u, s)'
    BY <2>1, <2>4 DEF Holds, TypeOK
  <2> QED
    BY <1>0, <2>1, <2>5, <2>6 DEF Queued
<1>16. ASSUME NEW t \in Thread, RearmFails(t) PROVE FALSE
  <2>1. pc' = [pc EXCEPT ![t] = "wait"] /\ UNCHANGED <<started, ops, cq, slot>> /\ s # slot[t]
    BY <1>16 DEF RearmFails, Goto, portVars
  <2>2. \A u \in Thread : Holds(u, s) => Holds(u, s)'
    BY <2>1 DEF Holds, TypeOK
  <2> QED
    BY <1>0, <2>1, <2>2 DEF Queued
<1> QED
  BY <1>3, <1>4, <1>5, <1>8, <1>9, <1>10, <1>12, <1>13, <1>14, <1>15, <1>16 DEF Next, Kernel, ThreadStep

\* What a step adds to the lost slots, it adds to the failures.
LEMMA LostInductive == TypeOK /\ LostInv /\ [Next]_vars => LostInv'
<1> SUFFICES ASSUME TypeOK, LostInv, [Next]_vars PROVE LostInv'
  OBVIOUS
<1>1. Lost \in SUBSET Slot /\ Lost' \in SUBSET Slot
  BY DEF Lost, Slot
<1>2. /\ Cardinality(Lost) \in Nat /\ Cardinality(Lost') \in Nat
      /\ Lost' \subseteq Lost => Cardinality(Lost') <= Cardinality(Lost)
      /\ \A s \in Slot : Lost' \subseteq Lost \union {s} => Cardinality(Lost') <= Cardinality(Lost) + 1
  BY <1>1, SlotSets
<1>3. failures \in Nat /\ Cardinality(Lost) <= failures
  BY DEF TypeOK, LostInv
<1>4. ASSUME NEW s \in Slot, FailReceive(s) PROVE Cardinality(Lost') <= failures'
  <2>1. failures' = failures + 1 /\ \A r \in Slot : r # s => ops'[r] = ops[r]
    BY <1>4 DEF FailReceive, TypeOK
  <2>2. \A r \in Slot : r # s => ~FailReceive(r)
    <3>1. cq' = Append(cq, [slot |-> s, ok |-> FALSE]) /\ [slot |-> s, ok |-> FALSE] \in Completion
      BY <1>4 DEF FailReceive, Completion
    <3>2. cq'[Len(cq) + 1] = [slot |-> s, ok |-> FALSE]
      BY <3>1 DEF TypeOK
    <3>3. ASSUME NEW r \in Slot, r # s, FailReceive(r) PROVE FALSE
      <4>1. cq' = Append(cq, [slot |-> r, ok |-> FALSE]) /\ [slot |-> r, ok |-> FALSE] \in Completion
        BY <3>3 DEF FailReceive, Completion
      <4>2. cq'[Len(cq) + 1] = [slot |-> r, ok |-> FALSE]
        BY <4>1 DEF TypeOK
      <4> QED
        BY <3>2, <3>3, <4>2
    <3> QED
      BY <3>3
  <2>3. \A t \in Thread : ~RearmFails(t)
    BY <1>4 DEF FailReceive, RearmFails, portVars, TypeOK
  <2>4. Lost' \subseteq Lost \union {s}
    BY <1>1, <2>2, <2>3, Kept
  <2> QED
    BY <1>2, <1>3, <2>1, <2>4
<1>5. ASSUME NEW t \in Thread, RearmFails(t) PROVE Cardinality(Lost') <= failures'
  <2>1. failures' = failures + 1 /\ pc' = [pc EXCEPT ![t] = "wait"] /\ pc[t] = "rearm" /\ ops' = ops
    BY <1>5 DEF RearmFails, At, Goto, portVars
  <2>2. \A u \in Thread : RearmFails(u) => u = t
    BY <2>1 DEF RearmFails, At, Goto, TypeOK
  <2>3. \A r \in Slot : ~FailReceive(r)
    BY <2>1 DEF FailReceive, TypeOK
  <2>4. slot[t] \in Slot /\ Lost' \subseteq Lost \union {slot[t]}
    BY <1>1, <2>2, <2>3, Kept DEF TypeOK
  <2> QED
    BY <1>2, <1>3, <2>1, <2>4
<1>6. ASSUME \A s \in Slot : ~FailReceive(s), \A t \in Thread : ~RearmFails(t)
      PROVE  Cardinality(Lost') <= failures'
  <2>1. Lost' \subseteq Lost
    BY <1>1, <1>6, Kept
  <2>2. failures' = failures
    <3>1. ASSUME NEW t \in Thread, ThreadStep(t) PROVE failures' = failures
      BY <1>6, <3>1 DEF ThreadStep, Take, TakeFailed, Dispatch, Lock, PushSession, PushWelcome, Ack,
                        PushEcho, Rearm, countVars
    <3>2. CASE InitPending \/ SendOne \/ Restart \/ UNCHANGED vars
      BY <3>2 DEF InitPending, SendOne, Restart, vars, countVars
    <3>3. CASE Kernel
      BY <1>6, <3>3 DEF Kernel, InitImmediate, Deliver
    <3> QED
      BY <3>1, <3>2, <3>3 DEF Next
  <2> QED
    BY <1>2, <1>3, <2>1, <2>2
<1> QED
  BY <1>4, <1>5, <1>6 DEF LostInv

\* The server stops receiving only after as many failures as it has slots, even
\* if receives complete inside init() and slots have several users.
THEOREM DeafAfterFailures == Spec => []DeafOnlyAfterFailures
<1>1. Init => LostInv
  <2> SUFFICES ASSUME Init PROVE LostInv
    OBVIOUS
  <2>1. Lost = {}
    BY DEF Init, Boot, Lost, Slot
  <2> QED
    BY <2>1, FS_EmptySet DEF Init, LostInv
<1>2. TypeOK /\ LostInv => DeafOnlyAfterFailures
  <2> SUFFICES ASSUME TypeOK, LostInv, Deaf PROVE failures >= N
    BY DEF DeafOnlyAfterFailures
  <2>1. Lost = Slot
    BY ServerAssumption DEF Lost, Deaf, Queued, Holds, Slot
  <2>2. Cardinality(Slot) = N
    BY ServerAssumption, FS_Interval DEF Slot
  <2> QED
    BY <2>1, <2>2, ServerAssumption DEF LostInv, TypeOK
<1> QED
  BY <1>1, <1>2, TypeCorrect, LostInductive, PTL DEF Spec

-----------------------------------------------------------------------------
(* Server implements Responder.                                             *)

\* The datagram in slot s asks for an answer it has not got.
OpenSlot(s) == Unanswered(s) /\ buf[s].kind \in {"hello", "probe"}

InSlots == {RequestOf(buf[s]) : s \in {r \in Slot : OpenSlot(r)}}

InQueue == {RequestIn(sendq[m]) : m \in 1 .. Len(sendq)}

\* The open requests are in the slots or in send_queue.
LEMMA OpenRequestsAre == TypeOK /\ up => OpenRequests = InSlots \union InQueue
<1> SUFFICES ASSUME TypeOK PROVE {RequestOf(d) : d \in {e \in InHand : e.kind \in {"hello", "probe"}}} = InSlots
  BY DEF OpenRequests, InQueue
<1>1. ASSUME NEW d \in InHand PROVE \E s \in Slot : Unanswered(s) /\ d = buf[s]
  BY <1>1, HeldType, PortElements DEF InHand, Unanswered, Queued
<1>2. ASSUME NEW s \in Slot, Unanswered(s) PROVE buf[s] \in InHand
  BY <1>2 DEF InHand, Unanswered, Queued
<1> QED
  BY <1>1, <1>2 DEF InSlots, OpenSlot

LEMMA OpenRequestsAreNext == (TypeOK /\ up => OpenRequests = InSlots \union InQueue)'
  BY OpenRequestsAre, PTL

\* What is neither received nor queued for sending stays where it is.
LEMMA OpenSlotsStay ==
    ASSUME TypeOK, KindInv, [Next]_vars, ~Restart, early = 0, early' = 0,
           ~ \E s \in Slot, d \in Incoming : Deliver(s, d),
           ~ \E t \in Thread : PushWelcome(t) \/ PushEcho(t)
    PROVE  InSlots' = InSlots
<1>1. UNCHANGED buf /\ \A s \in Slot : Unanswered(s)' => Unanswered(s)
  BY QuietSteps DEF Quiet
<1> SUFFICES \A s \in Slot : OpenSlot(s) => Unanswered(s)'
  BY <1>1 DEF InSlots, OpenSlot
<1>2. ASSUME UNCHANGED <<cq, slot, pc>> PROVE \A s \in Slot : Unanswered(s) => Unanswered(s)'
  BY <1>2 DEF Unanswered, Queued
<1>3. CASE InitPending \/ SendOne \/ UNCHANGED vars
  BY <1>2, <1>3 DEF InitPending, SendOne, vars, portVars, threadVars, OpenSlot
<1>4. ASSUME NEW r \in Slot, FailReceive(r) PROVE \A s \in Slot : Unanswered(s) => Unanswered(s)'
  <2>1. cq' = Append(cq, [slot |-> r, ok |-> FALSE]) /\ UNCHANGED <<slot, pc>>
    BY <1>4 DEF FailReceive, threadVars
  <2>2. 1 .. Len(cq) \subseteq 1 .. Len(cq') /\ \A k \in 1 .. Len(cq) : cq'[k] = cq[k]
    <3>1. Len(cq') = Len(cq) + 1 /\ Len(cq) \in Nat /\ \A k \in 1 .. Len(cq) : cq'[k] = cq[k]
      BY <2>1, QueueElements DEF TypeOK
    <3> QED
      BY <3>1
  <2> QED
    BY <2>1, <2>2 DEF Unanswered, Queued
<1>5. ASSUME cq # <<>>, cq' = Tail(cq)
      PROVE  \A s \in Slot : Queued(s) => Queued(s)' \/ (cq[1].ok /\ s = cq[1].slot)
  <2>1. /\ Len(cq) \in Nat /\ Len(cq') = Len(cq) - 1
        /\ \A k \in 1 .. Len(cq') : cq'[k] = cq[k + 1]
    BY <1>5, QueueElements DEF TypeOK
  <2>2. \A k \in 1 .. Len(cq) : k = 1 \/ (k - 1 \in 1 .. Len(cq') /\ cq'[k - 1] = cq[k])
    <3>1. \A k \in 1 .. Len(cq) : k = 1 \/ (k - 1 \in 1 .. Len(cq') /\ (k - 1) + 1 = k)
      BY <2>1
    <3> QED
      BY <2>1, <3>1
  <2> QED
    BY <2>2 DEF Queued
<1>6. ASSUME NEW t \in Thread, Take(t) \/ TakeFailed(t) PROVE \A s \in Slot : Unanswered(s) => Unanswered(s)'
  <2>1. cq # <<>> /\ cq' = Tail(cq) /\ pc[t] = "wait" /\ Head(cq) = cq[1]
    BY <1>6 DEF Take, TakeFailed, At, TypeOK
  <2>2. \A u \in Thread : u # t => slot'[u] = slot[u] /\ pc'[u] = pc[u]
    BY <1>6 DEF Take, TakeFailed, Goto, TypeOK, threadVars
  <2>3. cq[1].ok => pc'[t] = "dispatch" /\ slot'[t] = cq[1].slot
    BY <1>6, <2>1 DEF Take, TakeFailed, Goto, TypeOK
  <2> QED
    BY <1>5, <2>1, <2>2, <2>3 DEF Unanswered
<1>7. ASSUME NEW t \in Thread, NEW loc \in Loc, Goto(t, loc), UNCHANGED <<cq, slot>>,
             loc \notin {"wait", "rearm"} \/ pc[t] = "rearm" \/ buf[slot[t]].kind \notin {"hello", "probe"}
      PROVE  \A s \in Slot : OpenSlot(s) => Unanswered(s)'
  <2>1. pc'[t] = loc /\ \A u \in Thread : u # t => pc'[u] = pc[u]
    BY <1>7 DEF Goto, TypeOK
  <2>2. \A s \in Slot : Queued(s)' <=> Queued(s)
    BY <1>7 DEF Queued
  <2> QED
    BY <1>7, <2>1, <2>2 DEF OpenSlot, Unanswered
<1>8. ASSUME NEW t \in Thread, Dispatch(t) PROVE \A s \in Slot : OpenSlot(s) => Unanswered(s)'
  <2>1. buf[slot[t]].kind \in Kind
    BY HeldType DEF Datagram
  <2>2. /\ CaseOf(buf[slot[t]].kind) \in Loc
        /\ CaseOf(buf[slot[t]].kind) \in {"wait", "rearm"} => buf[slot[t]].kind \notin {"hello", "probe"}
    BY <2>1 DEF CaseOf, Kind, Loc
  <2> QED
    BY <1>7, <1>8, <2>2 DEF Dispatch, portVars
<1>9. ASSUME NEW t \in Thread, Lock(t) \/ PushSession(t) \/ Rearm(t) \/ RearmFails(t)
      PROVE  \A s \in Slot : OpenSlot(s) => Unanswered(s)'
  BY <1>7, <1>9 DEF Lock, PushSession, Rearm, RearmFails, At, Loc, portVars
<1>10. ASSUME NEW t \in Thread, Ack(t) PROVE \A s \in Slot : OpenSlot(s) => Unanswered(s)'
  <2>1. buf[slot[t]].kind = "ack"
    BY <1>10 DEF KindInv, InCase, Ack, At
  <2> QED
    BY <1>7, <1>10, <2>1 DEF Ack, Loc, portVars
<1>11. ASSUME NEW d \in Incoming, InitImmediate(d) PROVE FALSE
  BY <1>11 DEF InitImmediate, TypeOK
<1> QED
  BY <1>3, <1>4, <1>6, <1>8, <1>9, <1>10, <1>11 DEF Next, Kernel, ThreadStep, OpenSlot

-----------------------------------------------------------------------------
(* Each step of the server is one of the Responder, or none.               *)

\* A datagram that arrives is a request received, if it asks for an answer.
LEMMA ArrivalRefines ==
    ASSUME TypeOK, TypeOK', SlotInv, TagInv, SenderInv, CountInv, early = 0, early' = 0,
           NEW s \in Slot, NEW d \in Incoming, Deliver(s, d)
    PROVE  [R!Next]_R!vars
<1>1. up /\ up' /\ arrivals < MaxArrivals /\ UNCHANGED <<sendq, sent>>
  BY DEF Deliver, outVars
<1>2. /\ buf'[s] = d /\ d.tag = arrivals + 1
      /\ ~Unanswered(s) /\ Unanswered(s)'
      /\ \A r \in Slot : r # s => buf'[r] = buf[r] /\ (Unanswered(r)' <=> Unanswered(r))
  BY ArrivesInFreeSlot
<1>3. AnswersSent' = AnswersSent /\ InQueue' = InQueue
  BY <1>1 DEF AnswersSent, InQueue
<1>4. OpenRequests = InSlots \union InQueue /\ OpenRequests' = InSlots' \union InQueue
  BY <1>1, <1>3, OpenRequestsAre, OpenRequestsAreNext
<1>5. /\ ~OpenSlot(s) /\ (OpenSlot(s)' <=> d.kind \in {"hello", "probe"})
      /\ \A r \in Slot : r # s => buf'[r] = buf[r] /\ (OpenSlot(r)' <=> OpenSlot(r))
  BY <1>2 DEF OpenSlot
<1>6. CASE d.kind \notin {"hello", "probe"}
  <2>1. InSlots' = InSlots
    BY <1>5, <1>6 DEF InSlots
  <2> QED
    BY <1>3, <1>4, <2>1 DEF R!vars
<1>7. CASE d.kind \in {"hello", "probe"}
  <2> DEFINE r == RequestOf(d)
  <2>1. InSlots' = InSlots \union {r}
    BY <1>2, <1>5, <1>7 DEF InSlots
  <2>2. OpenRequests' = OpenRequests \union {r}
    BY <1>4, <2>1
  <2>3. arrivals + 1 \in 1 .. MaxArrivals /\ \A k \in Nat : k <= arrivals => k # arrivals + 1
    BY <1>1, ServerAssumption DEF TypeOK
  <2>4. d.addr \in Addr
    BY DEF Incoming, SenderInv
  <2>5. r \in R!Request /\ r.tag = arrivals + 1
    BY <1>2, <2>3, <2>4 DEF R!Request, RequestOf, Wants
  <2>6. \A q \in OpenRequests : q.tag # arrivals + 1
    BY <1>4, <2>3, TagType DEF TagInv, InSlots, InQueue, RequestOf, RequestIn
  <2>7. \A a \in AnswersSent : a.request.tag # arrivals + 1
    BY <1>1, <2>3, TagType DEF TagInv, AnswersSent, RequestIn
  <2>8. R!Receive(r)
    BY <1>3, <2>2, <2>5, <2>6, <2>7 DEF R!Receive, R!Tags, R!OpenTags
  <2> QED
    BY <2>5, <2>8 DEF R!Next
<1> QED
  BY <1>6, <1>7

\* To queue the answer leaves the request open.
LEMMA PushRefines ==
    ASSUME TypeOK, TypeOK', SlotInv, KindInv, early = 0, early' = 0,
           NEW t \in Thread, PushWelcome(t) \/ PushEcho(t)
    PROVE  UNCHANGED R!vars
<1> DEFINE s == slot[t]
<1>1. s \in Slot /\ Unanswered(s) /\ ~Unanswered(s)' /\ UNCHANGED <<slot, sent, up>>
  BY Pushes
<1>2. PICK j \in Reply :
        /\ sendq' = Append(sendq, j)
        /\ j.tag = buf[s].tag /\ j.addr = buf[s].addr
        /\ PushWelcome(t) => pc[t] = "welcome" /\ j.kind = "welcome"
        /\ PushEcho(t) => pc[t] = "echo" /\ j.kind = "echo"
  BY Pushes
<1>3. up /\ UNCHANGED <<buf, cq>> /\ pc' = [pc EXCEPT ![t] = "rearm"]
  BY DEF PushWelcome, PushEcho, At, Goto, portVars
<1>4. buf[s].kind \in {"hello", "probe"} /\ RequestIn(j) = RequestOf(buf[s])
  BY <1>2 DEF KindInv, InCase, RequestIn, RequestOf, Wants
<1>5. \A r \in Slot : r # s => (Unanswered(r)' <=> Unanswered(r))
  <2>1. \A u \in Thread : u # t => pc'[u] = pc[u]
    BY <1>3 DEF TypeOK
  <2>2. \A r \in Slot : Queued(r)' <=> Queued(r)
    BY <1>3 DEF Queued
  <2> QED
    BY <1>1, <2>1, <2>2 DEF Unanswered
<1>6. InSlots = InSlots' \union {RequestOf(buf[s])}
  BY <1>1, <1>3, <1>4, <1>5 DEF InSlots, OpenSlot
<1>7. InQueue' = InQueue \union {RequestIn(j)}
  <2>1. /\ Len(sendq') = Len(sendq) + 1 /\ Len(sendq) \in Nat /\ sendq'[Len(sendq) + 1] = j
        /\ \A m \in 1 .. Len(sendq) : sendq'[m] = sendq[m]
    BY <1>2, QueueElements DEF TypeOK
  <2>2. /\ \A m \in 1 .. Len(sendq') : m \in 1 .. Len(sendq) \/ m = Len(sendq) + 1
        /\ 1 .. Len(sendq) \subseteq 1 .. Len(sendq') /\ Len(sendq) + 1 \in 1 .. Len(sendq')
    BY <2>1
  <2> QED
    BY <2>1, <2>2 DEF InQueue
<1>8. OpenRequests' = OpenRequests
  BY <1>1, <1>3, <1>4, <1>6, <1>7, OpenRequestsAre, OpenRequestsAreNext
<1>9. AnswersSent' = AnswersSent
  BY <1>1 DEF AnswersSent
<1> QED
  BY <1>8, <1>9 DEF R!vars

\* To send it closes the request, with an id that no client has.
LEMMA SendRefines ==
    ASSUME TypeOK, TypeOK', TagInv, AnnounceInv, CountInv, SenderInv, early = 0, SendOne, up'
    PROVE  R!Next
<1> DEFINE j == sendq[1]
           r == RequestIn(j)
           i == IF Welcome(j) THEN j.id ELSE NoName
<1>1. /\ 1 \in 1 .. Len(sendq) /\ j \in Reply /\ sent' = sent \union {j}
      /\ \A m \in 1 .. Len(sendq') : m + 1 \in 1 .. Len(sendq) /\ m + 1 # 1 /\ sendq'[m] = sendq[m + 1]
      /\ UNCHANGED <<buf, cq, pc, slot>>
  BY PopsHead
<1>2. up
  BY DEF SendOne
<1>3. \A m \in 1 .. Len(sendq) : m = 1 \/ (m - 1 \in 1 .. Len(sendq') /\ sendq'[m - 1] = sendq[m])
  <2>1. Len(sendq) \in Nat /\ Len(sendq') = Len(sendq) - 1
    BY QueueElements DEF SendOne, TypeOK
  <2>2. \A m \in 1 .. Len(sendq) : m = 1 \/ (m - 1 \in 1 .. Len(sendq') /\ (m - 1) + 1 = m)
    BY <2>1
  <2> QED
    BY <1>1, <2>2
<1>4. InSlots' = InSlots
  BY <1>1 DEF InSlots, OpenSlot, Unanswered, Queued
<1>5. InQueue' = InQueue \ {r} /\ r \in InQueue
  <2>1. \A m \in 1 .. Len(sendq) : m # 1 => sendq[m].tag # j.tag
    BY <1>1 DEF TagInv, AnsweredOnce
  <2>2. \A m \in 1 .. Len(sendq) : m # 1 => RequestIn(sendq[m]) # r
    BY <2>1 DEF RequestIn
  <2>3. r \in InQueue
    BY <1>1 DEF InQueue
  <2>4. \A q \in InQueue' : q \in InQueue /\ q # r
    BY <1>1, <2>2 DEF InQueue
  <2>5. \A q \in InQueue : q = r \/ q \in InQueue'
    BY <1>3 DEF InQueue
  <2> QED
    BY <2>3, <2>4, <2>5
<1>6. r \notin InSlots
  BY <1>1 DEF InSlots, OpenSlot, TagInv, RequestOf, RequestIn
<1>7. r \in OpenRequests /\ OpenRequests' = OpenRequests \ {r}
  BY <1>2, <1>4, <1>5, <1>6, OpenRequestsAre, OpenRequestsAreNext
<1>8. AnswersSent' = AnswersSent \union {[request |-> r, id |-> i]}
  BY <1>1, <1>2 DEF AnswersSent
<1>9. i \in R!IdsFor(r)
  <2>1. CASE Welcome(j)
    <3>1. j.id \in Nat /\ j.id < Len(sessions)
      BY <1>1, <2>1 DEF AnnounceInv, Reply
    <3>2. Len(sessions) \in Nat /\ MaxArrivals \in Nat /\ Len(sessions) <= MaxArrivals
      <4>1. Pending \in SUBSET Slot
        BY DEF Pending, Slot
      <4>2. Cardinality(Pending) \in Nat
        BY <4>1, SlotSets
      <4>3. Len(sessions) \in Nat /\ arrivals \in Nat /\ MaxArrivals \in Nat
        BY ServerAssumption DEF TypeOK
      <4> QED
        BY <4>2, <4>3 DEF CountInv
    <3>3. j.id \in 0 .. MaxArrivals
      BY <3>1, <3>2
    <3>4. \A k \in sent : Welcome(k) => k.id # j.id
      BY <1>1, <2>1 DEF AnnounceInv, UniqueIds
    <3>5. \A a \in AnswersSent : a.id # j.id
      BY <1>2, <3>1, <3>4, ServerAssumption DEF AnswersSent
    <3> QED
      BY <2>1, <3>3, <3>5 DEF R!IdsFor, RequestIn, Welcome
  <2>2. CASE ~Welcome(j)
    BY <2>2 DEF R!IdsFor, RequestIn, Welcome
  <2> QED
    BY <2>1, <2>2
<1>10. R!Respond(r, i)
  BY <1>7, <1>8, <1>9 DEF R!Respond
<1> QED
  BY <1>7, <1>9, <1>10 DEF R!Next

-----------------------------------------------------------------------------
\* All that is known of the process, and that no receive completed inside init().
ProcessInv ==
    /\ TypeOK /\ TableInv /\ AnnounceInv /\ SlotInv
    /\ TagInv /\ KindInv /\ SenderInv /\ CountInv

\* The table has no more entries than datagrams can arrive.
LEMMA SessionsBounded ==
    ASSUME ProcessInv, early = 0
    PROVE  Len(sessions) <= MaxArrivals
<1>1. Pending \in SUBSET Slot
  BY DEF Pending, Slot
<1>2. Cardinality(Pending) \in Nat
  BY <1>1, SlotSets
<1>3. Len(sessions) \in Nat /\ arrivals \in Nat
  BY DEF ProcessInv, TypeOK
<1>4. arrivals <= MaxArrivals /\ Len(sessions) + Cardinality(Pending) <= arrivals
  BY DEF ProcessInv, CountInv
<1> QED
  BY <1>2, <1>3, <1>4, ServerAssumption

NoEarly == early = 0

Strength == ProcessInv /\ NoEarly

LEMMA ProcessInvariant == Spec => []ProcessInv
<1>1. Init => TableInv /\ AnnounceInv /\ SlotInv /\ TagInv /\ KindInv /\ SenderInv /\ CountInv
  <2> SUFFICES ASSUME Init
               PROVE  TableInv /\ AnnounceInv /\ SlotInv /\ TagInv /\ KindInv /\ SenderInv /\ CountInv
    OBVIOUS
  <2>1. TableInv /\ AnnounceInv
    BY DEF Init, Boot, TableInv, AnnounceInv, IdMatchesIndex, UniqueIds, Thread
  <2>2. SlotInv
    BY InitSlots DEF Init, Boot, SlotInv, ExclusiveSlot
  <2>3. TagInv
    <3>1. \A s \in Slot : buf[s].tag <= arrivals
      BY DEF Init, Boot, Blank
    <3> QED
      BY <3>1, InitSlots DEF Init, Boot, TagInv, AnsweredOnce
  <2>4. KindInv /\ SenderInv
    BY InitSlots DEF Init, Boot, KindInv, InCase, SenderInv
  <2>5. CountInv
    <3>1. Pending = {}
      BY InitSlots DEF Pending
    <3>2. Len(sessions) + Cardinality(Pending) = 0 /\ arrivals = 0
      BY <3>1, FS_EmptySet DEF Init, Boot
    <3> QED
      BY <3>2, ServerAssumption DEF CountInv
  <2> QED
    BY <2>1, <2>2, <2>3, <2>4, <2>5
<1>2. Spec => [](TypeOK /\ TableInv /\ AnnounceInv)
  BY <1>1, TypeCorrect, TableInductive, AnnounceInductive, PTL DEF Spec
<1>3. Spec => []SlotInv
  BY <1>1, <1>2, SlotInductive, PTL DEF Spec
<1>4. Spec => []TagInv
  BY <1>1, <1>2, <1>3, TagInductive, PTL DEF Spec
<1>5. Spec => []KindInv
  BY <1>1, <1>2, <1>3, KindInductive, PTL DEF Spec
<1>6. Spec => []SenderInv
  BY <1>1, <1>2, <1>3, <1>5, SenderInductive, PTL DEF Spec
<1>7. Spec => []CountInv
  BY <1>1, <1>2, <1>3, <1>5, CountInductive, PTL DEF Spec
<1> QED
  BY <1>2, <1>3, <1>4, <1>5, <1>6, <1>7, PTL DEF ProcessInv

LEMMA StepRefines == Strength /\ TypeOK' /\ early' = 0 /\ [Next]_vars => [R!Next]_R!vars
<1> SUFFICES ASSUME Strength, TypeOK', early' = 0, [Next]_vars PROVE [R!Next]_R!vars
  OBVIOUS
<1>1. ASSUME OpenRequests' = {}, AnswersSent' = {} PROVE R!Next
  BY <1>1 DEF R!Next, R!Crash
<1>2. CASE ~up'
  BY <1>1, <1>2 DEF OpenRequests, AnswersSent
<1>3. CASE Restart
  <2>1. /\ sendq' = <<>> /\ sent' = {} /\ cq' = <<>> /\ up'
        /\ pc' = [t \in Thread |-> "wait"]
    BY <1>3 DEF Restart
  <2>2. InSlots' = {} /\ InQueue' = {}
    BY <2>1 DEF InSlots, InQueue, OpenSlot, Unanswered, Queued
  <2>3. OpenRequests' = {}
    BY <2>1, <2>2, OpenRequestsAreNext
  <2>4. AnswersSent' = {}
    BY <2>1 DEF AnswersSent
  <2> QED
    BY <1>1, <2>3, <2>4
<1>4. ASSUME NEW s \in Slot, NEW d \in Incoming, Deliver(s, d) PROVE [R!Next]_R!vars
  BY <1>4, ArrivalRefines DEF Strength, ProcessInv, NoEarly
<1>5. ASSUME NEW t \in Thread, PushWelcome(t) \/ PushEcho(t) PROVE [R!Next]_R!vars
  BY <1>5, PushRefines DEF Strength, ProcessInv, NoEarly
<1>6. CASE SendOne /\ up'
  BY <1>6, SendRefines DEF Strength, ProcessInv, NoEarly
<1>7. ASSUME up', ~Restart, ~SendOne, ~ \E s \in Slot, d \in Incoming : Deliver(s, d),
             ~ \E t \in Thread : PushWelcome(t) \/ PushEcho(t)
      PROVE  UNCHANGED R!vars
  <2>1. up
    <3>1. ASSUME NEW t \in Thread, ThreadStep(t) PROVE up
      BY <3>1 DEF ThreadStep, Take, TakeFailed, Dispatch, Lock, PushSession, PushWelcome, Ack,
                  PushEcho, Rearm, RearmFails, At
    <3>2. CASE InitPending \/ Kernel
      BY <3>2 DEF InitPending, Kernel, InitImmediate, Deliver, FailReceive
    <3>3. CASE UNCHANGED vars
      BY <1>7, <3>3 DEF vars
    <3> QED
      BY <1>7, <3>1, <3>2, <3>3 DEF Next
  <2>2. InSlots' = InSlots
    BY <1>7, OpenSlotsStay DEF Strength, ProcessInv, NoEarly
  <2>3. UNCHANGED <<sendq, sent>>
    BY <1>7, OutStays
  <2>4. OpenRequests' = OpenRequests
    BY <1>7, <2>1, <2>2, <2>3, OpenRequestsAre, OpenRequestsAreNext DEF Strength, ProcessInv, NoEarly, InQueue
  <2>5. AnswersSent' = AnswersSent
    BY <1>7, <2>1, <2>3 DEF AnswersSent
  <2> QED
    BY <2>4, <2>5 DEF R!vars
<1> QED
  BY <1>2, <1>3, <1>4, <1>5, <1>6, <1>7

\* Threads, buffers, the lock and the two queues do what the Responder does:
\* no answer is duplicated, misdirected or made from a reused id, and no
\* request is dropped, unless a receive completes inside init().
THEOREM Implements ==
    ASSUME MaxEarly = 0
    PROVE  Spec => ImplementsResponder
<1>1. Init => NoEarly
  BY DEF Init, NoEarly
<1>2. NoEarly /\ [Next]_vars => NoEarly'
  <2> SUFFICES ASSUME early = 0, [Next]_vars PROVE early' = 0
    BY DEF NoEarly
  <2>1. ASSUME NEW t \in Thread, ThreadStep(t) PROVE early' = early
    BY <2>1 DEF ThreadStep, Take, TakeFailed, Dispatch, Lock, PushSession, PushWelcome, Ack,
                PushEcho, Rearm, RearmFails, countVars
  <2>2. ASSUME InitPending \/ SendOne \/ Restart \/ UNCHANGED vars PROVE early' = early
    BY <2>2 DEF InitPending, SendOne, Restart, vars, countVars
  <2>3. ASSUME NEW d \in Incoming, InitImmediate(d) PROVE FALSE
    BY <2>3, ~(0 < 0), MaxEarly = 0 DEF InitImmediate
  <2>4. ASSUME NEW s \in Slot, NEW d \in Incoming, Deliver(s, d) PROVE early' = early
    BY <2>4 DEF Deliver
  <2>5. ASSUME NEW s \in Slot, FailReceive(s) PROVE early' = early
    BY <2>5 DEF FailReceive
  <2> QED
    BY <2>1, <2>2, <2>3, <2>4, <2>5 DEF Next, Kernel
<1>3. Init => R!Init
  BY DEF Init, Boot, R!Init, OpenRequests, InHand, AnswersSent
<1>4. Spec => []Strength
  BY <1>1, <1>2, ProcessInvariant, PTL DEF Spec, Strength
<1>5. Strength /\ Strength' /\ [Next]_vars => [R!Next]_R!vars
  BY StepRefines DEF Strength, ProcessInv, NoEarly
<1> QED
  BY <1>3, <1>4, <1>5, PTL DEF Spec, ImplementsResponder, R!Spec
=============================================================================
