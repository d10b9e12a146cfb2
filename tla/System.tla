------------------------------- MODULE System -------------------------------
(***************************************************************************)
(* A session of the Windows client and the server, over a network that     *)
(* loses, duplicates and reorders datagrams.  A step is a step of Client,  *)
(* of Server, of both when a datagram passes, or of the network.           *)
(*                                                                         *)
(* Client and Server are checked alone against guesses of what may arrive: *)
(* C!Receivable and S!Incoming.  Here what arrives is what the other one   *)
(* sent, and the guesses become properties.  The datagrams of the other    *)
(* addresses are still those of S!Incoming.                                *)
(*                                                                         *)
(* Bounds: those of Client and Server, MaxLost, MaxDuplicates, MaxFaults   *)
(* faults of all kinds together, and MaxOthers datagrams of the other      *)
(* addresses, which leave room for those of the session.                   *)
(***************************************************************************)
EXTENDS Integers, Sequences

CONSTANTS
    N, Addr, NoName, MaxArrivals, MaxEarly, MaxFailures, MaxRestarts,
    SizeRange, Junk, MaxTicks, MaxReceives, MaxRecvFailures, MaxSendFailures,
    Me,                     \* the address of the session
    MaxLost, MaxDuplicates, MaxFaults, MaxOthers

ASSUME SystemAssumption ==
    /\ N \in Nat \ {0}
    /\ Me \in Addr /\ NoName \notin Addr \union Nat
    /\ {MaxArrivals, MaxEarly, MaxFailures, MaxRestarts} \subseteq Nat
    /\ SizeRange \in Nat /\ SizeRange > 48
    /\ {MaxTicks, MaxReceives, MaxRecvFailures, MaxSendFailures} \subseteq Nat
    /\ {MaxLost, MaxDuplicates, MaxFaults, MaxOthers} \subseteq Nat

VARIABLES
    \* Server
    started, ops, cq, buf, pc, slot, id, mutex, sessions, sendq, up,
    sent, granted, arrivals, early, failures, restarts, wild,
    \* Client
    c_id, seq_num, send_queue, recv_buffer, recv_len, recv_pc, delaying, alive,
    tries, welcomed, ticks, receives, recvFailures, sendFailures,
    \* the network
    toServer,       \* datagrams under way to the server: their numbers in tries
    toClient,       \* datagrams under way to the session, with the tag they answer
    seqOf,          \* seqOf[tag]: the sequence number in the datagram with that tag
    lost, duplicated, others

S == INSTANCE Server

C == INSTANCE Client WITH Id <- 0 .. MaxArrivals, NoId <- -1

ASSUME JunkAssumption == Junk # {} /\ Junk \subseteq C!Message

serverVars ==
    <<started, ops, cq, buf, pc, slot, id, mutex, sessions, sendq, up,
      sent, granted, arrivals, early, failures, restarts, wild>>

clientVars ==
    <<c_id, seq_num, send_queue, recv_buffer, recv_len, recv_pc, delaying, alive,
      tries, welcomed, ticks, receives, recvFailures, sendFailures>>

network == <<toServer, toClient, seqOf, lost, duplicated, others>>

vars == <<serverVars, clientVars, network>>

-----------------------------------------------------------------------------
Init ==
    /\ S!Init /\ C!Init
    /\ toServer = {} /\ toClient = {} /\ seqOf = <<>>
    /\ lost = 0 /\ duplicated = 0 /\ others = 0

\* A packet of the client as the server's handlers tell it apart.
DatagramOf(packet) ==
    [kind |-> IF packet.kind = "report" THEN "other" ELSE packet.kind,
     addr |-> Me,
     id   |-> IF packet.kind \in {"ack", "probe"} THEN packet.id ELSE S!GarbageId,
     tag  |-> arrivals + 1]

\* A reply of the server as the client reads it.
MessageOf(reply) ==
    IF reply.kind = "welcome" THEN [type |-> "welcome", id |-> reply.id]
                              ELSE [type |-> "echo", seq |-> seqOf[reply.tag]]

\* What the code does not recover from.
Faults == lost + duplicated + early + restarts + failures + recvFailures + sendFailures

FaultsBounded == Faults' <= MaxFaults

-----------------------------------------------------------------------------
ClientSends(ok) ==
    /\ C!SendOne(ok)
    /\ toServer' = IF ok THEN toServer \union {Len(tries) + 1} ELSE toServer
    /\ UNCHANGED <<serverVars, toClient, seqOf, lost, duplicated, others>>
    /\ FaultsBounded

ClientActs ==
    /\ C!RecvThread \/ C!Tick \/ C!ReceiveFails
    /\ UNCHANGED <<serverVars, network>>
    /\ FaultsBounded

\* A datagram reaches a slot of the server.
Arrives(d) == (\E s \in S!Slot : S!Deliver(s, d)) \/ S!InitImmediate(d)

ServerReceives(n) ==
    /\ Arrives(DatagramOf(tries[n].packet))
    /\ toServer' = toServer \ {n}
    /\ seqOf' = Append(seqOf, tries[n].packet.seq)
    /\ UNCHANGED <<clientVars, toClient, lost, duplicated, others>>
    /\ FaultsBounded

\* Another address sends.
ServerReceivesOther ==
    /\ others < MaxOthers /\ others' = others + 1
    /\ \E d \in S!Incoming : d.addr # Me /\ Arrives(d)
    /\ seqOf' = Append(seqOf, 0)
    /\ UNCHANGED <<clientVars, toServer, toClient, lost, duplicated>>
    /\ FaultsBounded

ServerActs ==
    /\ S!InitPending \/ (\E t \in S!Thread : S!ThreadStep(t)) \/ (\E s \in S!Slot : S!FailReceive(s))
    /\ UNCHANGED <<clientVars, network>>
    /\ FaultsBounded

\* Mutant: every answer is sent to this client.
ServerSendsToMe ==
    /\ S!SendOne
    /\ toClient' = IF up' THEN toClient \union {[tag |-> Head(sendq).tag, message |-> MessageOf(Head(sendq))]}
                   ELSE toClient
    /\ UNCHANGED <<clientVars, toServer, seqOf, lost, duplicated, others>>

ServerSends ==
    /\ S!SendOne
    /\ LET reply == Head(sendq) IN
         toClient' = IF up' /\ reply.addr = Me
                     THEN toClient \union {[tag |-> reply.tag, message |-> MessageOf(reply)]}
                     ELSE toClient
    /\ UNCHANGED <<clientVars, toServer, seqOf, lost, duplicated, others>>

ServerRestarts == S!Restart /\ UNCHANGED <<clientVars, network>> /\ FaultsBounded

ClientReceives(a) ==
    /\ C!Receive(a.message)
    /\ toClient' = toClient \ {a}
    /\ UNCHANGED <<serverVars, toServer, seqOf, lost, duplicated, others>>

\* The network forgets a datagram.
Lose ==
    /\ lost < MaxLost
    /\ lost' = lost + 1
    /\ \/ \E n \in toServer : toServer' = toServer \ {n} /\ UNCHANGED toClient
       \/ \E a \in toClient : toClient' = toClient \ {a} /\ UNCHANGED toServer
    /\ UNCHANGED <<serverVars, clientVars, seqOf, duplicated, others>>
    /\ FaultsBounded

\* The network delivers a datagram and keeps it.
Duplicate ==
    /\ duplicated < MaxDuplicates
    /\ duplicated' = duplicated + 1
    /\ \/ /\ \E n \in toServer :
                /\ Arrives(DatagramOf(tries[n].packet))
                /\ seqOf' = Append(seqOf, tries[n].packet.seq)
          /\ UNCHANGED clientVars
       \/ /\ \E a \in toClient : C!Receive(a.message)
          /\ UNCHANGED <<serverVars, seqOf>>
    /\ UNCHANGED <<toServer, toClient, lost, others>>
    /\ FaultsBounded

Next ==
    \/ \E ok \in BOOLEAN : ClientSends(ok)
    \/ ClientActs
    \/ \E n \in toServer : ServerReceives(n)
    \/ ServerReceivesOther
    \/ ServerActs
    \/ ServerSends
    \/ ServerRestarts
    \/ \E a \in toClient : ClientReceives(a)
    \/ Lose
    \/ Duplicate

Spec == Init /\ [][Next]_vars

\* The threads of both programs are scheduled, and the network delivers what
\* it does not lose.
FairSpec ==
    /\ Spec
    /\ WF_vars(\E ok \in BOOLEAN : ClientSends(ok))
    /\ WF_vars(C!RecvThread /\ UNCHANGED <<serverVars, network>>)
    /\ WF_vars(C!Tick /\ UNCHANGED <<serverVars, network>>)
    /\ WF_vars(S!InitPending /\ UNCHANGED <<clientVars, network>>)
    /\ \A t \in S!Thread : WF_vars(S!ThreadStep(t) /\ UNCHANGED <<clientVars, network>>)
    /\ WF_vars(ServerSends)
    /\ WF_vars(\E n \in toServer : ServerReceives(n))
    /\ WF_vars(\E a \in toClient : ClientReceives(a))

-----------------------------------------------------------------------------
(* Properties.                                                             *)

\* What the server sends is what Client lets arrive: an id or the echo of a
\* probe that was sent.  As long as no receive has completed inside init(), every
\* step is one of Client or leaves it alone; afterwards two threads may have the
\* datagrams of two clients in one buffer, and answer one for the other.
ServerKeepsToProtocol == C!Init /\ [][early = 0 => C!Next]_clientVars

\* What the client sends is what Server lets arrive: packets 2 and 3 with an id
\* it was granted.  Every run of the system is a run of Server.
ClientKeepsToProtocol == S!Spec

Mine(i) == S!Live(i) /\ sessions[i + 1].c_name = Me

\* The id a session uses is the index of the entry the server made of its own
\* packet 0, and an entry of this client is marked connected only after it
\* acknowledged that id, whatever the other clients and the network do, as long
\* as the server is not restarted.
IdIsMine ==
    early = 0 /\ restarts = 0 =>
        /\ c_id # -1 => Mine(c_id)
        /\ \A i \in 1 .. Len(sessions) :
            sessions[i].connected /\ sessions[i].c_name = Me
            => \E n \in 1 .. Len(tries) : tries[n].packet.kind = "ack" /\ tries[n].packet.id = i - 1

Reports(s) == {n \in 1 .. Len(tries) : tries[n].packet.kind = "report" /\ tries[n].packet.seq = s}

\* Client and server alone never produce a second packet 1 or report a probe
\* twice: the first kills the client, the second counts a delay twice, and both
\* take a datagram delivered twice, one handled again after recvfrom failed, or
\* two completions of the server on one buffer.
OnceUnlessDuplicated ==
    duplicated = 0 /\ recvFailures = 0 /\ early = 0 =>
        /\ alive
        /\ \A s \in 0 .. MaxTicks - 1 : \A m, n \in Reports(s) : m = n

\* Packet 0 and every probe are sent once and never again: the session starts to
\* measure and every probe is sent back and reported, if no datagram is lost,
\* no call fails and the server runs on.
ReportsWhenSmooth == <>(Faults > 0 \/ \A s \in 0 .. MaxTicks - 1 : Reports(s) # {})
=============================================================================
