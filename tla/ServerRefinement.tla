-------------------------- MODULE ServerRefinement --------------------------
(***************************************************************************)
(* Server implements Responder when no receive completes inside init().    *)
(* A request is open from the moment its completion is queued until        *)
(* _send_loop hands the reply to sendto.                                   *)
(***************************************************************************)
EXTENDS Server

Wants(kind) == IF kind = "hello" THEN "welcome" ELSE "echo"

RequestOf(d) == [wants |-> Wants(d.kind), addr |-> d.addr, tag |-> d.tag]

\* The datagrams queued at the completion port or in the hands of a thread
\* that has not queued the reply yet.
InHand ==
    {buf[cq[k].slot] : k \in {m \in 1 .. Len(cq) : cq[m].ok}}
    \union
    {buf[slot[t]] : t \in {u \in Thread : pc[u] \notin {"wait", "rearm"}}}

RequestIn(j) == [wants |-> j.kind, addr |-> j.addr, tag |-> j.tag]

OpenRequests ==
    IF ~up THEN {}
    ELSE {RequestOf(d) : d \in {e \in InHand : e.kind \in {"hello", "probe"}}}
         \union {RequestIn(sendq[m]) : m \in 1 .. Len(sendq)}

AnswersSent ==
    IF ~up THEN {}
    ELSE {[request |-> RequestIn(j),
           id |-> IF Welcome(j) THEN j.id ELSE NoName] : j \in sent}

R == INSTANCE Responder WITH
        Host <- Addr, Tag <- 1 .. MaxArrivals, Id <- 0 .. MaxArrivals, NoId <- NoName,
        open <- OpenRequests, answered <- AnswersSent

\* Threads, buffers, the lock and the two queues do what the abstract server
\* does: no answer is duplicated, misdirected or made from a reused id, and no
\* request is forgotten short of a restart.
ImplementsResponder == R!Spec

\* A request that reaches the completion port does not stay there, whichever
\* thread takes it and whatever receives fail.
AnswersEverything == R!Progress
=============================================================================
