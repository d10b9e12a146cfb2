------------------------------ MODULE MacClient ------------------------------
(***************************************************************************)
(* The macOS client, mac_client/main.c, and its IPv6 variant,              *)
(* mac_client/main_thread.c: an array of sessions, each with a receive     *)
(* thread and, once connected, a delay thread, and the main thread, which  *)
(* starts them, waits for "exit" and takes the array from under them.      *)
(*                                                                         *)
(* A step of a thread is one access to its session; building a packet and  *)
(* sending it are two steps of the delay thread.  Whatever the server can  *)
(* have answered may arrive, any number of times, in any order, or never.  *)
(*                                                                         *)
(* Bounds: MaxProbes packets are built by delay threads, MaxReceives       *)
(* datagrams arrive, and MaxFailures calls fail, over all sessions.        *)
(***************************************************************************)
EXTENDS Integers, Sequences, SequencesExt

CONSTANTS
    SessionCount,     \* sock_arr.count
    Id,               \* the client_ids a server may grant
    RetriesSpawn,     \* TRUE for main_thread.c: see HandleRefusal
    MaxProbes, MaxReceives, MaxFailures

ASSUME MacAssumption ==
    /\ SessionCount \in Nat \ {0}
    /\ Id \subseteq Nat
    /\ RetriesSpawn \in BOOLEAN
    /\ MaxProbes \in Nat /\ MaxReceives \in Nat /\ MaxFailures \in Nat

Session == 1 .. SessionCount

VARIABLES
    main,           \* where main() is
    next,           \* the session its loop is at
    freed,          \* free(sessions) was called
    open,           \* the sessions whose socket is open
    client_id, seq_num, is_connected,
    delay_thread,   \* how many delay threads the session has
    recv_pc,        \* where session_receive is
    buffer,         \* the datagram in its buffer
    built,          \* built[s]: packets its delay threads have built and not sent
    tries,          \* tries[s]: the packets handed to sendto, and whether it took them
    stray,          \* what threads have done with the freed sessions
    probes, receives, failures

mainVars    == <<main, next, freed>>
sessionVars == <<client_id, seq_num, is_connected>>
countVars   == <<probes, receives, failures>>
vars == <<mainVars, open, sessionVars, delay_thread, recv_pc, buffer, built, tries, stray, countVars>>

-----------------------------------------------------------------------------
(* Packets.                                                                *)

Message ==
    [type: {"welcome"}, id: Id] \union [type: {"refused"}] \union
    [type: {"echo"}, seq: Nat] \union [type: {"bye"}] \union [type: {"none"}]

Packet == [kind: {"hello", "ack", "probe", "bye", "report"}, id: Nat, seq: Nat]

Pkt(k, i, n) == [kind |-> k, id |-> i, seq |-> n]

\* The datagrams session s may get: answers to what it sent, and packet_5.
Receivable(s) ==
    {m \in {[type |-> "welcome", id |-> i] : i \in Id} \union {[type |-> "refused"], [type |-> "bye"]} :
        \E n \in 1 .. Len(tries[s]) : tries[s][n].packet.kind = "hello" /\ tries[s][n].ok}
    \union
    {[type |-> "echo", seq |-> tries[s][n].packet.seq] :
        n \in {k \in 1 .. Len(tries[s]) : tries[s][k].packet.kind = "probe" /\ tries[s][k].ok}}

\* send_packet(): sendto fails on a closed socket, and may fail on an open one.
Send(s, packet) ==
    \E ok \in BOOLEAN :
        /\ ok => s \in open
        /\ ~ok /\ s \in open => failures < MaxFailures
        /\ failures' = IF ~ok /\ s \in open THEN failures + 1 ELSE failures
        /\ tries' = [tries EXCEPT ![s] = Append(@, [packet |-> packet, ok |-> ok])]

-----------------------------------------------------------------------------
Init ==
    /\ main = "start" /\ next = 1 /\ freed = FALSE
    /\ open = Session
    /\ client_id = [s \in Session |-> 0]
    /\ seq_num = [s \in Session |-> 0]
    /\ is_connected = [s \in Session |-> FALSE]
    /\ delay_thread = [s \in Session |-> 0]
    /\ recv_pc = [s \in Session |-> "off"]
    /\ buffer = [s \in Session |-> [type |-> "none"]]
    /\ built = [s \in Session |-> <<>>]
    /\ tries = [s \in Session |-> <<>>]
    /\ stray = "no"
    /\ probes = 0 /\ receives = 0 /\ failures = 0

-----------------------------------------------------------------------------
(* main().                                                                 *)

Advance(loop, then) ==
    /\ next' = IF next = SessionCount THEN 1 ELSE next + 1
    /\ main' = IF next = SessionCount THEN then ELSE loop

\* Send the packet_0 of a session, whether or not it goes out.
SendInit ==
    /\ main = "start"
    /\ Send(next, Pkt("hello", 0, 0))
    /\ main' = "thread"
    /\ UNCHANGED <<next, freed, open, sessionVars, delay_thread, recv_pc, buffer, built, stray,
                   probes, receives>>

\* pthread_create(session_receive), which may fail.
StartReceive ==
    /\ main = "thread"
    /\ \/ recv_pc' = [recv_pc EXCEPT ![next] = "call"] /\ UNCHANGED failures
       \/ failures < MaxFailures /\ failures' = failures + 1 /\ UNCHANGED recv_pc
    /\ Advance("start", "wait")
    /\ UNCHANGED <<freed, open, sessionVars, delay_thread, buffer, built, tries, stray, probes, receives>>

\* "exit" is typed.
Exit ==
    /\ main = "wait"
    /\ main' = "disconnect"
    /\ UNCHANGED <<next, freed, open, sessionVars, delay_thread, recv_pc, buffer, built, tries, stray, countVars>>

\* Send the packet_4 of a session.
Disconnect ==
    /\ main = "disconnect"
    /\ Send(next, Pkt("bye", client_id[next], 0))
    /\ main' = "close"
    /\ UNCHANGED <<next, freed, open, sessionVars, delay_thread, recv_pc, buffer, built, stray,
                   probes, receives>>

\* Mutant: only the sockets of connected sessions are closed.
CloseConnected ==
    /\ main = "close"
    /\ open' = IF is_connected[next] THEN open \ {next} ELSE open
    /\ Advance("disconnect", "free")
    /\ UNCHANGED <<freed, sessionVars, delay_thread, recv_pc, buffer, built, tries, stray, countVars>>

\* close(sessions[i].sock), and on to the next session.
Close ==
    /\ main = "close"
    /\ open' = open \ {next}
    /\ Advance("disconnect", "free")
    /\ UNCHANGED <<freed, sessionVars, delay_thread, recv_pc, buffer, built, tries, stray, countVars>>

\* free(sessions)
Free ==
    /\ main = "free"
    /\ freed' = TRUE
    /\ main' = "return"
    /\ UNCHANGED <<next, open, sessionVars, delay_thread, recv_pc, buffer, built, tries, stray, countVars>>

\* return 0, which ends every thread.
Return ==
    /\ main = "return"
    /\ main' = "gone"
    /\ UNCHANGED <<next, freed, open, sessionVars, delay_thread, recv_pc, buffer, built, tries, stray, countVars>>

-----------------------------------------------------------------------------
(* session_receive().                                                      *)

\* The threads use their session as long as it is allocated.
Running == ~freed /\ main # "gone"

At(s, loc) == Running /\ recv_pc[s] = loc

Goto(s, loc) == recv_pc' = [recv_pc EXCEPT ![s] = loc]

\* recvfrom(s->sock, ...): the socket is read from the session, then the call
\* blocks.
CallReceive(s) ==
    /\ At(s, "call")
    /\ Goto(s, "blocked")
    /\ UNCHANGED <<mainVars, open, sessionVars, delay_thread, buffer, built, tries, stray, countVars>>

\* A datagram: recv_len > 0.
Receive(s, m) ==
    /\ At(s, "blocked") /\ s \in open /\ receives < MaxReceives
    /\ buffer' = [buffer EXCEPT ![s] = m]
    /\ receives' = receives + 1
    /\ Goto(s, "handle")
    /\ UNCHANGED <<mainVars, open, sessionVars, delay_thread, built, tries, stray, probes, failures>>

\* recv_len is 0 or -1: nothing is handled, and the loop calls recvfrom again.
ReceiveFails(s) ==
    /\ At(s, "blocked")
    /\ s \in open => failures < MaxFailures
    /\ failures' = IF s \in open THEN failures + 1 ELSE failures
    /\ Goto(s, "call")
    /\ UNCHANGED <<mainVars, open, sessionVars, delay_thread, buffer, built, tries, stray, probes, receives>>

\* case 1, res == 0: s->client_id = p->client_id; s->is_connected = 1
HandleWelcome(s) ==
    /\ At(s, "handle") /\ buffer[s].type = "welcome"
    /\ client_id' = [client_id EXCEPT ![s] = buffer[s].id]
    /\ is_connected' = [is_connected EXCEPT ![s] = TRUE]
    /\ Goto(s, "ack")
    /\ UNCHANGED <<mainVars, open, seq_num, delay_thread, buffer, built, tries, stray, countVars>>

\* case 1, res == 0: send the packet_2.
SendAck(s) ==
    /\ At(s, "ack")
    /\ Send(s, Pkt("ack", client_id[s], 0))
    /\ Goto(s, "spawn")
    /\ UNCHANGED <<mainVars, open, sessionVars, delay_thread, buffer, built, stray, probes, receives>>

\* case 1, res != 0: main.c is done with it; main_thread.c still starts the
\* delay thread if an earlier packet_1 connected the session.
HandleRefusal(s) ==
    /\ At(s, "handle") /\ buffer[s].type = "refused"
    /\ Goto(s, IF RetriesSpawn /\ is_connected[s] THEN "spawn" ELSE "call")
    /\ UNCHANGED <<mainVars, open, sessionVars, delay_thread, buffer, built, tries, stray, countVars>>

\* Mutant: every packet_1 starts a delay thread.
SpawnAlways(s) ==
    /\ At(s, "spawn")
    /\ \/ delay_thread' = [delay_thread EXCEPT ![s] = @ + 1] /\ UNCHANGED failures
       \/ failures < MaxFailures /\ failures' = failures + 1 /\ UNCHANGED delay_thread
    /\ Goto(s, "call")
    /\ UNCHANGED <<mainVars, open, sessionVars, buffer, built, tries, stray, probes, receives>>

\* Mutant: only a session that has a delay thread gets one.
SpawnNever(s) ==
    /\ At(s, "spawn")
    /\ Goto(s, "call")
    /\ UNCHANGED <<mainVars, open, sessionVars, delay_thread, buffer, built, tries, stray, countVars>>

\* case 1: start the delay thread unless there is one; pthread_create may fail.
Spawn(s) ==
    /\ At(s, "spawn")
    /\ \/ delay_thread[s] # 0 /\ UNCHANGED <<delay_thread, failures>>
       \/ delay_thread[s] = 0 /\ delay_thread' = [delay_thread EXCEPT ![s] = 1] /\ UNCHANGED failures
       \/ /\ delay_thread[s] = 0 /\ failures < MaxFailures
          /\ failures' = failures + 1 /\ UNCHANGED delay_thread
    /\ Goto(s, "call")
    /\ UNCHANGED <<mainVars, open, sessionVars, buffer, built, tries, stray, probes, receives>>

\* case 3: send the packet_6.
HandleEcho(s) ==
    /\ At(s, "handle") /\ buffer[s].type = "echo"
    /\ Send(s, Pkt("report", client_id[s], buffer[s].seq))
    /\ Goto(s, "call")
    /\ UNCHANGED <<mainVars, open, sessionVars, delay_thread, buffer, built, stray, probes, receives>>

\* case 5: close(s->sock); pthread_exit().  The delay thread goes on.
HandleBye(s) ==
    /\ At(s, "handle") /\ buffer[s].type = "bye"
    /\ open' = open \ {s}
    /\ Goto(s, "off")
    /\ UNCHANGED <<mainVars, sessionVars, delay_thread, buffer, built, tries, stray, countVars>>

-----------------------------------------------------------------------------
(* session_delay().                                                        *)

\* A delay thread without a packet builds one: s->seq_num++.
BuildProbe(s) ==
    /\ Running /\ Len(built[s]) < delay_thread[s] /\ probes < MaxProbes
    /\ built' = [built EXCEPT ![s] = Append(@, Pkt("probe", client_id[s], seq_num[s]))]
    /\ seq_num' = [seq_num EXCEPT ![s] = @ + 1]
    /\ probes' = probes + 1
    /\ UNCHANGED <<mainVars, open, client_id, is_connected, delay_thread, recv_pc, buffer, tries, stray,
                   receives, failures>>

\* One of them sends what it has built, then sleeps.
SendProbe(s) ==
    /\ Running
    /\ \E n \in 1 .. Len(built[s]) :
        /\ Send(s, built[s][n])
        /\ built' = [built EXCEPT ![s] = RemoveAt(@, n)]
    /\ UNCHANGED <<mainVars, open, sessionVars, delay_thread, recv_pc, buffer, stray, probes, receives>>

-----------------------------------------------------------------------------
\* A thread of session s that still runs uses the freed array.  Any value may
\* stand where s->sock was: a packet goes out if that names an open socket.
\* The access may also end the process.
UseFreed(s) ==
    /\ freed /\ main # "gone"
    /\ recv_pc[s] # "off" \/ delay_thread[s] > 0
    /\ stray' \in {"silent"} \union (IF open = {} THEN {} ELSE {"sent"})
    /\ main' \in {main, "gone"}
    /\ UNCHANGED <<next, freed, open, sessionVars, delay_thread, recv_pc, buffer, built, tries, countVars>>

Main == SendInit \/ StartReceive \/ Exit \/ Disconnect \/ Close \/ Free \/ Return

ReceiveThread(s) ==
    \/ CallReceive(s)
    \/ \E m \in Receivable(s) : Receive(s, m)
    \/ ReceiveFails(s)
    \/ HandleWelcome(s) \/ SendAck(s) \/ HandleRefusal(s) \/ Spawn(s)
    \/ HandleEcho(s)
    \/ HandleBye(s)

Next ==
    \/ Main
    \/ \E s \in Session :
        ReceiveThread(s) \/ BuildProbe(s) \/ SendProbe(s) \/ UseFreed(s)

Spec == Init /\ [][Next]_vars

-----------------------------------------------------------------------------
(* Properties.                                                             *)

TypeOK ==
    /\ main \in {"start", "thread", "wait", "disconnect", "close", "free", "return", "gone"}
    /\ next \in Session /\ freed \in BOOLEAN
    /\ open \subseteq Session
    /\ client_id \in [Session -> Nat] /\ seq_num \in [Session -> Nat]
    /\ is_connected \in [Session -> BOOLEAN]
    /\ delay_thread \in [Session -> Nat]
    /\ recv_pc \in [Session -> {"off", "call", "blocked", "handle", "ack", "spawn"}]
    /\ buffer \in [Session -> Message]
    /\ built \in [Session -> Seq(Packet)]
    /\ tries \in [Session -> Seq([packet: Packet, ok: BOOLEAN])]
    /\ stray \in {"no", "silent", "sent"}
    /\ probes \in Nat /\ receives \in Nat /\ failures \in Nat

ProbeAt(s, n) == tries[s][n].packet.kind = "probe"

\* The probes of a session are handed to sendto in the order 0, 1, 2, ...
\* however often its packet_1 is delivered.
ProbesInOrder ==
    \A s \in Session : \A n \in 1 .. Len(tries[s]) : ProbeAt(s, n) =>
        LET before == {k \in 1 .. n - 1 : ProbeAt(s, k)} IN
        /\ before = {} => tries[s][n].packet.seq = 0
        /\ before # {} => \E k \in before : tries[s][n].packet.seq = tries[s][k].packet.seq + 1
        /\ \A k \in before : tries[s][k].packet.seq < tries[s][n].packet.seq

\* A session acknowledges its id before it sends a probe, although nothing
\* orders the two threads but the start of one by the other.
AckBeforeProbe ==
    \A s \in Session : \A n \in 1 .. Len(tries[s]) : ProbeAt(s, n) =>
        \E k \in 1 .. n - 1 : tries[s][k].packet.kind = "ack"

\* A packet_6 reports on a probe that was sent, whatever calls fail.
ReportsMatchProbe ==
    \A s \in Session : \A n \in 1 .. Len(tries[s]) : tries[s][n].packet.kind = "report" =>
        \E k \in 1 .. n - 1 : ProbeAt(s, k) /\ tries[s][k].ok
                              /\ tries[s][k].packet.seq = tries[s][n].packet.seq

\* What a session sends makes sense to the server, however often and in whatever
\* order its datagrams are delivered, and whatever calls fail.
PacketsInOrder == TypeOK /\ ProbesInOrder /\ AckBeforeProbe /\ ReportsMatchProbe

\* A session that is connected and waits for datagrams measures delays, unless
\* a call failed.
ConnectedMeasures ==
    \A s \in Session :
        is_connected[s] /\ recv_pc[s] \in {"call", "blocked"} /\ failures = 0 => delay_thread[s] > 0

\* The threads outlive the array of sessions, but by then every socket is
\* closed: nothing is sent from freed memory.
SilentOnceFreed == stray # "sent"
=============================================================================
