------------------------------- MODULE Server -------------------------------
(***************************************************************************)
(* The UDP delay server, Server/server.cpp: N receive threads fed by one   *)
(* I/O completion port, a session table guarded by session_mutex, and a    *)
(* queue of replies drained by the single send thread.                     *)
(*                                                                         *)
(* One step of a thread is one access to shared state: the completion      *)
(* port, the receive buffer of a slot, session_mutex, sessions or          *)
(* send_queue.  A datagram is the record of what the handlers tell apart;  *)
(* its tag, the number of its arrival, identifies it.                      *)
(*                                                                         *)
(* Bounds: MaxArrivals datagrams are received over all runs of the         *)
(* process, MaxEarly of them before init() has posted every receive,       *)
(* MaxFailures receives fail, and the process is restarted MaxRestarts     *)
(* times.                                                                  *)
(***************************************************************************)
EXTENDS Naturals, Sequences, FiniteSets

CONSTANTS
    N,            \* RECV_THREAD_COUNT: receive threads, and receive slots
    Addr,         \* source addresses of the clients
    NoName,       \* what a session is named from bytes that are no name
    MaxArrivals, MaxEarly, MaxFailures, MaxRestarts

ASSUME ServerAssumption ==
    /\ N \in Nat \ {0}
    /\ Addr # {}
    /\ NoName \notin Addr \union Nat
    /\ MaxArrivals \in Nat
    /\ MaxEarly \in Nat
    /\ MaxFailures \in Nat
    /\ MaxRestarts \in Nat

Thread == 1 .. N                        \* recv_thread_arr
Slot   == 1 .. N                        \* recv_io_datas

VARIABLES
    \* the completion port and the receive slots
    started,   \* how many slots init() has posted; thread i runs once i <= started
    ops,       \* ops[s]: receives posted on slot s and not completed
    cq,        \* completions queued at h_iocp
    buf,       \* buf[s]: the datagram in recv_buf, client_addr of slot s
    \* the receive threads
    pc,        \* where each thread is in _iocp_recv_loop and handle_packet
    slot,      \* p_recv_io_data: the slot a thread is handling
    id,        \* client_id: the local of handle_packet, case 0
    \* shared state of the handlers
    mutex,     \* the holder of session_mutex, 0 if it is free
    sessions,  \* the session table
    sendq,     \* send_queue
    up,        \* FALSE once the process has died
    \* what the outside has seen
    sent,      \* replies handed to sendto by this run of the process
    granted,   \* <<a, i>>: a packet_1 with id i has been sent to a, in any run
    arrivals, early, failures, restarts,
    wild       \* sessions[] was indexed beyond its size

portVars   == <<started, ops, cq, buf>>
threadVars == <<pc, slot, id>>
tableVars  == <<mutex, sessions>>
outVars    == <<sendq, sent, granted>>
countVars  == <<arrivals, early, failures, restarts>>
vars == <<portVars, threadVars, tableVars, outVars, countVars, up, wild>>

-----------------------------------------------------------------------------
(* Datagrams, completions, sessions and replies.                           *)

Kind == {"hello",   \* packet_0 whose length agrees with its name_len
         "ack",     \* packet_2
         "probe",   \* packet_3
         "other"}   \* packet_6, packet_0 of a wrong length, unknown types:
                    \* handle_packet only logs them

\* The number read as a client_id from a datagram that has none: the bytes
\* of a name, or of another structure, beyond any size the table can have.
GarbageId == MaxArrivals

Datagram   == [kind: Kind, addr: Addr \union {NoName}, id: Nat, tag: Nat]
Completion == [slot: Slot, ok: BOOLEAN]
Session    == [c_name: Addr \union {NoName}, c_id: Nat, connected: BOOLEAN]
Reply      == [kind: {"welcome", "echo"}, id: Nat, addr: Addr \union {NoName}, tag: Nat]

\* Each client session registers under a name of its own, so the model names
\* a session after the address its packet_0 came from.
NameIn(d) == IF d.kind = "hello" THEN d.addr ELSE NoName

\* What clients may send next: an address uses only ids it has been granted.
Incoming ==
    {[kind |-> k, addr |-> a, id |-> GarbageId, tag |-> arrivals + 1] :
        k \in {"hello", "other"}, a \in Addr}
    \union
    {[kind |-> k, addr |-> g[1], id |-> g[2], tag |-> arrivals + 1] :
        k \in {"ack", "probe"}, g \in granted}

Live(i) == i < Len(sessions)            \* sessions[i] is an element

Loc == {"wait", "dispatch", "lock", "push", "welcome", "ack", "echo", "rearm"}

-----------------------------------------------------------------------------
\* What a receive buffer holds before its first datagram.
Blank == [kind |-> "other", addr |-> NoName, id |-> 0, tag |-> 0]

\* The state of a process that has just been started.
Boot ==
    /\ started = 0
    /\ ops = [s \in Slot |-> 0]
    /\ cq = <<>>
    /\ buf = [s \in Slot |-> Blank]
    /\ pc = [t \in Thread |-> "wait"]
    /\ slot = [t \in Thread |-> t]
    /\ id = [t \in Thread |-> 0]
    /\ mutex = 0
    /\ sessions = <<>>
    /\ sendq = <<>>
    /\ sent = {}
    /\ up = TRUE

Init ==
    /\ Boot
    /\ granted = {}
    /\ arrivals = 0 /\ early = 0 /\ failures = 0 /\ restarts = 0
    /\ wild = FALSE

-----------------------------------------------------------------------------
(* server::init: post one receive per slot, then start its thread.         *)

\* WSARecvFrom answers WSA_IO_PENDING: leave the loop, start the thread.
InitPending ==
    /\ up /\ started < N
    /\ ops' = [ops EXCEPT ![started + 1] = @ + 1]
    /\ started' = started + 1
    /\ UNCHANGED <<cq, buf, threadVars, tableVars, outVars, countVars, up, wild>>

\* A datagram was already waiting: WSARecvFrom answers 0, its completion is
\* queued all the same, and the loop posts the same slot again.
InitImmediate(d) ==
    /\ up /\ started < N
    /\ early < MaxEarly /\ arrivals < MaxArrivals
    /\ buf' = [buf EXCEPT ![started + 1] = d]
    /\ cq' = Append(cq, [slot |-> started + 1, ok |-> TRUE])
    /\ early' = early + 1
    /\ arrivals' = arrivals + 1
    /\ UNCHANGED <<started, ops, threadVars, tableVars, outVars, failures, restarts, up, wild>>

-----------------------------------------------------------------------------
(* The kernel side of the socket and of the completion port.               *)

\* A datagram completes one of the receives posted on slot s.
Deliver(s, d) ==
    /\ up /\ ops[s] > 0 /\ arrivals < MaxArrivals
    /\ ops' = [ops EXCEPT ![s] = @ - 1]
    /\ buf' = [buf EXCEPT ![s] = d]
    /\ cq' = Append(cq, [slot |-> s, ok |-> TRUE])
    /\ arrivals' = arrivals + 1
    /\ UNCHANGED <<started, threadVars, tableVars, outVars, early, failures, restarts, up, wild>>

\* A posted receive completes with an error and leaves the buffer alone.
FailReceive(s) ==
    /\ up /\ ops[s] > 0 /\ failures < MaxFailures
    /\ ops' = [ops EXCEPT ![s] = @ - 1]
    /\ cq' = Append(cq, [slot |-> s, ok |-> FALSE])
    /\ failures' = failures + 1
    /\ UNCHANGED <<started, buf, threadVars, tableVars, outVars, arrivals, early, restarts, up, wild>>

-----------------------------------------------------------------------------
(* _iocp_recv_loop and handle_packet, run by thread t.                     *)

At(t, loc) == up /\ t <= started /\ pc[t] = loc

Goto(t, loc) == pc' = [pc EXCEPT ![t] = loc]

\* Mutant: the OVERLAPPED is not the first member of recv_io_data, and the
\* pointer names the slot after it.
TakeNextSlot(t) ==
    /\ At(t, "wait") /\ cq # <<>> /\ Head(cq).ok
    /\ slot' = [slot EXCEPT ![t] = Head(cq).slot + 1]
    /\ cq' = Tail(cq)
    /\ Goto(t, "dispatch")
    /\ UNCHANGED <<started, ops, buf, id, tableVars, outVars, countVars, up, wild>>

\* GetQueuedCompletionStatus returns a datagram.
Take(t) ==
    /\ At(t, "wait") /\ cq # <<>> /\ Head(cq).ok
    /\ slot' = [slot EXCEPT ![t] = Head(cq).slot]
    /\ cq' = Tail(cq)
    /\ Goto(t, "dispatch")
    /\ UNCHANGED <<started, ops, buf, id, tableVars, outVars, countVars, up, wild>>

\* GetQueuedCompletionStatus reports a failed receive: "continue", and the
\* slot is not posted again.
TakeFailed(t) ==
    /\ At(t, "wait") /\ cq # <<>> /\ ~Head(cq).ok
    /\ cq' = Tail(cq)
    /\ UNCHANGED <<started, ops, buf, threadVars, tableVars, outVars, countVars, up, wild>>

\* Mutant: packets that are only logged skip the next WSARecvFrom.
CaseOfNoRearm(kind) ==
    CASE kind = "hello" -> "lock"
      [] kind = "ack"   -> "ack"
      [] kind = "probe" -> "echo"
      [] kind = "other" -> "wait"

\* Where "switch (packet_type)" leads.
CaseOf(kind) ==
    CASE kind = "hello" -> "lock"
      [] kind = "ack"   -> "ack"
      [] kind = "probe" -> "echo"
      [] kind = "other" -> "rearm"

\* Mutant: the slot is posted again before its datagram is handled.
DispatchRearmFirst(t) ==
    /\ At(t, "dispatch")
    /\ ops' = [ops EXCEPT ![slot[t]] = @ + 1]
    /\ Goto(t, CaseOf(buf[slot[t]].kind))
    /\ UNCHANGED <<started, cq, buf, slot, id, tableVars, outVars, countVars, up, wild>>

Dispatch(t) ==
    /\ At(t, "dispatch")
    /\ Goto(t, CaseOf(buf[slot[t]].kind))
    /\ UNCHANGED <<portVars, slot, id, tableVars, outVars, countVars, up, wild>>

\* Mutant: no session_mutex.
LockFree(t) ==
    /\ At(t, "lock")
    /\ mutex' = t
    /\ id' = [id EXCEPT ![t] = Len(sessions)]
    /\ Goto(t, "push")
    /\ UNCHANGED <<portVars, slot, sessions, outVars, countVars, up, wild>>

\* Mutant: ids are counted from one.
LockOneBased(t) ==
    /\ At(t, "lock") /\ mutex = 0
    /\ mutex' = t
    /\ id' = [id EXCEPT ![t] = Len(sessions) + 1]
    /\ Goto(t, "push")
    /\ UNCHANGED <<portVars, slot, sessions, outVars, countVars, up, wild>>

\* case 0: session_mutex.lock(); client_id = sessions.size()
Lock(t) ==
    /\ At(t, "lock") /\ mutex = 0
    /\ mutex' = t
    /\ id' = [id EXCEPT ![t] = Len(sessions)]
    /\ Goto(t, "push")
    /\ UNCHANGED <<portVars, slot, sessions, outVars, countVars, up, wild>>

\* Mutant: no "connected = false".
PushSessionConnected(t) ==
    /\ At(t, "push")
    /\ sessions' = Append(sessions, [c_name |-> NameIn(buf[slot[t]]),
                                     c_id |-> id[t],
                                     connected |-> TRUE])
    /\ mutex' = 0
    /\ Goto(t, "welcome")
    /\ UNCHANGED <<portVars, slot, id, outVars, countVars, up, wild>>

\* Mutant: no session_mutex.unlock().
PushSessionLocked(t) ==
    /\ At(t, "push")
    /\ sessions' = Append(sessions, [c_name |-> NameIn(buf[slot[t]]),
                                     c_id |-> id[t],
                                     connected |-> FALSE])
    /\ Goto(t, "welcome")
    /\ UNCHANGED <<portVars, slot, id, mutex, outVars, countVars, up, wild>>

\* case 0: sessions.push_back(...); session_mutex.unlock()
PushSession(t) ==
    /\ At(t, "push")
    /\ sessions' = Append(sessions, [c_name |-> NameIn(buf[slot[t]]),
                                     c_id |-> id[t],
                                     connected |-> FALSE])
    /\ mutex' = 0
    /\ Goto(t, "welcome")
    /\ UNCHANGED <<portVars, slot, id, outVars, countVars, up, wild>>

\* Mutant: the id sent is sessions.size() - 1, read after the unlock.
PushWelcomeLast(t) ==
    /\ At(t, "welcome")
    /\ sendq' = Append(sendq, [kind |-> "welcome", id |-> Len(sessions) - 1,
                               addr |-> buf[slot[t]].addr, tag |-> buf[slot[t]].tag])
    /\ Goto(t, "rearm")
    /\ UNCHANGED <<portVars, slot, id, tableVars, sent, granted, countVars, up, wild>>

\* case 0: send_queue.push([id = client_id, addr = *p_addr] ...)
PushWelcome(t) ==
    /\ At(t, "welcome")
    /\ sendq' = Append(sendq, [kind |-> "welcome", id |-> id[t],
                               addr |-> buf[slot[t]].addr, tag |-> buf[slot[t]].tag])
    /\ Goto(t, "rearm")
    /\ UNCHANGED <<portVars, slot, id, tableVars, sent, granted, countVars, up, wild>>

\* sessions[i] has no bounds check.  Out of range it is undefined: the
\* process dies, or the access hits memory that holds no session.
Index(i) ==
    \/ Live(i) /\ UNCHANGED <<up, wild>>
    \/ ~Live(i) /\ wild' = TRUE /\ up' \in BOOLEAN

\* case 2: sessions[p_packet->client_id].connected = true
Ack(t) ==
    /\ At(t, "ack")
    /\ LET i == buf[slot[t]].id IN
         /\ Index(i)
         /\ sessions' = IF Live(i) THEN [sessions EXCEPT ![i + 1].connected = TRUE]
                                   ELSE sessions
    /\ Goto(t, "rearm")
    /\ UNCHANGED <<portVars, slot, id, mutex, outVars, countVars>>

\* Mutant: the echo is queued twice.
PushEchoTwice(t) ==
    /\ At(t, "echo")
    /\ LET d == buf[slot[t]]
           e == [kind |-> "echo", id |-> d.id, addr |-> d.addr, tag |-> d.tag]
       IN  sendq' = sendq \o <<e, e>>
    /\ Goto(t, "rearm")
    /\ UNCHANGED <<portVars, slot, id, tableVars, sent, granted, countVars, up, wild>>

\* case 3: send_queue.push([id = p_packet->client_id, ...] ...); the
\* sequence number and the client's time stamp travel with the tag.
PushEcho(t) ==
    /\ At(t, "echo")
    /\ LET d == buf[slot[t]] IN
         sendq' = Append(sendq, [kind |-> "echo", id |-> d.id, addr |-> d.addr, tag |-> d.tag])
    /\ Goto(t, "rearm")
    /\ UNCHANGED <<portVars, slot, id, tableVars, sent, granted, countVars, up, wild>>

\* Mutant: a thread posts the slot of its own number.
RearmOwn(t) ==
    /\ At(t, "rearm")
    /\ ops' = [ops EXCEPT ![t] = @ + 1]
    /\ Goto(t, "wait")
    /\ UNCHANGED <<started, cq, buf, slot, id, tableVars, outVars, countVars, up, wild>>

\* The next WSARecvFrom on the slot, and back to the completion port.
Rearm(t) ==
    /\ At(t, "rearm")
    /\ ops' = [ops EXCEPT ![slot[t]] = @ + 1]
    /\ Goto(t, "wait")
    /\ UNCHANGED <<started, cq, buf, slot, id, tableVars, outVars, countVars, up, wild>>

\* WSARecvFrom fails: "continue", and the slot is not posted again.
RearmFails(t) ==
    /\ At(t, "rearm") /\ failures < MaxFailures
    /\ failures' = failures + 1
    /\ Goto(t, "wait")
    /\ UNCHANGED <<portVars, slot, id, tableVars, outVars, arrivals, early, restarts, up, wild>>

-----------------------------------------------------------------------------
\* Mutant: the reply is read from the queue but not removed.
SendOneKeeps ==
    /\ up /\ started = N /\ sendq # <<>>
    /\ LET j == Head(sendq) IN
         /\ Index(j.id)
         /\ sent' = IF up' THEN sent \union {j} ELSE sent
         /\ granted' = IF up' /\ j.kind = "welcome"
                       THEN granted \union {<<j.addr, j.id>>} ELSE granted
    /\ UNCHANGED <<sendq, portVars, threadVars, tableVars, countVars>>

(* _send_loop: pop a reply, build it (which logs sessions[id].c_name) and  *)
(* send it.  Whether sendto succeeds changes nothing here.                 *)
SendOne ==
    /\ up /\ started = N /\ sendq # <<>>
    /\ LET j == Head(sendq) IN
         /\ Index(j.id)
         /\ sent' = IF up' THEN sent \union {j} ELSE sent
         /\ granted' = IF up' /\ j.kind = "welcome"
                       THEN granted \union {<<j.addr, j.id>>} ELSE granted
    /\ sendq' = Tail(sendq)
    /\ UNCHANGED <<portVars, threadVars, tableVars, countVars>>

-----------------------------------------------------------------------------
\* The process is stopped, or has died, and is started again; its clients
\* run on with the ids they have.
Restart ==
    /\ restarts < MaxRestarts
    /\ restarts' = restarts + 1
    /\ started' = 0
    /\ ops' = [s \in Slot |-> 0]
    /\ cq' = <<>>
    /\ buf' = [s \in Slot |-> Blank]
    /\ pc' = [t \in Thread |-> "wait"]
    /\ slot' = [t \in Thread |-> t]
    /\ id' = [t \in Thread |-> 0]
    /\ mutex' = 0
    /\ sessions' = <<>>
    /\ sendq' = <<>>
    /\ sent' = {}
    /\ up' = TRUE
    /\ UNCHANGED <<granted, arrivals, early, failures, wild>>

-----------------------------------------------------------------------------
ThreadStep(t) ==
    \/ Take(t) \/ TakeFailed(t)
    \/ Dispatch(t)
    \/ Lock(t) \/ PushSession(t) \/ PushWelcome(t)
    \/ Ack(t)
    \/ PushEcho(t)
    \/ Rearm(t) \/ RearmFails(t)

Kernel ==
    \/ \E d \in Incoming : InitImmediate(d)
    \/ \E s \in Slot, d \in Incoming : Deliver(s, d)
    \/ \E s \in Slot : FailReceive(s)

Next ==
    \/ InitPending
    \/ Kernel
    \/ \E t \in Thread : ThreadStep(t)
    \/ SendOne
    \/ Restart

Spec == Init /\ [][Next]_vars

\* The operating system keeps scheduling the main thread, which runs init()
\* and then the send loop, and every receive thread.  Nothing is assumed of
\* the network, of failures or of restarts.
Fairness ==
    /\ WF_vars(InitPending)
    /\ WF_vars(SendOne)
    /\ \A t \in Thread : WF_vars(ThreadStep(t))

FairSpec == Spec /\ Fairness

-----------------------------------------------------------------------------
(* Properties.                                                             *)

TypeOK ==
    /\ started \in 0 .. N
    /\ ops \in [Slot -> Nat]
    /\ cq \in Seq(Completion)
    /\ buf \in [Slot -> Datagram]
    /\ pc \in [Thread -> Loc]
    /\ slot \in [Thread -> Slot]
    /\ id \in [Thread -> Nat]
    /\ mutex \in 0 .. N
    /\ sessions \in Seq(Session)
    /\ sendq \in Seq(Reply)
    /\ sent \subseteq Reply
    /\ granted \subseteq (Addr \union {NoName}) \X Nat
    /\ arrivals \in Nat /\ early \in Nat /\ failures \in Nat /\ restarts \in Nat
    /\ up \in BOOLEAN /\ wild \in BOOLEAN

\* A session's c_id is its index in sessions, whatever the two receive threads
\* do between sessions.size() and push_back: every later sessions[client_id]
\* of the code relies on it.
IdMatchesIndex == \A i \in 1 .. Len(sessions) : sessions[i].c_id = i - 1

Welcome(j) == j.kind = "welcome"

\* No two packet_1, queued or sent, carry the same client_id, so two clients
\* are never told that they are the same session.
UniqueIds ==
    /\ \A m, n \in 1 .. Len(sendq) :
        Welcome(sendq[m]) /\ Welcome(sendq[n]) /\ sendq[m].id = sendq[n].id => m = n
    /\ \A m \in 1 .. Len(sendq), j \in sent :
        Welcome(sendq[m]) /\ Welcome(j) => sendq[m].id # j.id
    /\ \A j, k \in sent : Welcome(j) /\ Welcome(k) /\ j.id = k.id => j = k

Holds(t, s) == pc[t] # "wait" /\ slot[t] = s

\* A slot's OVERLAPPED and buffer have one user: a posted receive, a queued
\* completion or the thread that handles it, and never two of them.  The loop
\* of init() breaks this when a receive completes at once, hence "early = 0".
ExclusiveSlot ==
    early = 0 =>
    /\ \A s \in Slot : ops[s] <= 1
    /\ \A k \in 1 .. Len(cq) : ops[cq[k].slot] = 0
    /\ \A k, m \in 1 .. Len(cq) : cq[k].slot = cq[m].slot => k = m
    /\ \A t \in Thread, s \in Slot :
        Holds(t, s) => /\ ops[s] = 0
                       /\ \A k \in 1 .. Len(cq) : cq[k].slot # s
                       /\ \A u \in Thread : Holds(u, s) => u = t

\* The session that a packet_1 announces is the one made from the name of the
\* client it is addressed to: the name and the address are read from the same
\* receive buffer at two different times.
WelcomeToOwner ==
    early = 0 =>
    \A j \in {sendq[m] : m \in 1 .. Len(sendq)} \union sent :
        Welcome(j) => Live(j.id) /\ sessions[j.id + 1].c_name = j.addr

\* The unchecked sessions[client_id] stays inside the table as long as the
\* process has not been restarted under its clients and no receive completed
\* inside init().
WildOnlyAfterRestart == wild => restarts > 0 \/ early > 0

\* A session is marked connected only after its packet_1 went to its owner.
ConnectedWasGranted ==
    early = 0 /\ restarts = 0 =>
    \A i \in 1 .. Len(sessions) :
        sessions[i].connected => <<sessions[i].c_name, i - 1>> \in granted

\* A datagram is answered at most once, though two threads, a queue and a
\* re-posted buffer all handle it.
AnsweredOnce ==
    early = 0 =>
    /\ \A m, n \in 1 .. Len(sendq) : sendq[m].tag = sendq[n].tag => m = n
    /\ \A m \in 1 .. Len(sendq), j \in sent : sendq[m].tag # j.tag
    /\ \A j, k \in sent : j.tag = k.tag => j = k

Deaf == started = N /\ (\A s \in Slot : ops[s] = 0) /\ cq = <<>>
                   /\ (\A t \in Thread : pc[t] = "wait")

\* Every failed receive loses its slot for good, but nothing else does: the
\* server stops receiving only after as many failures as it has slots.
DeafOnlyAfterFailures == up /\ Deaf => failures >= N
=============================================================================
