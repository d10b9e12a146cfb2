------------------------------ MODULE Responder ------------------------------
(***************************************************************************)
(* What the delay server promises its clients, without threads, buffers,   *)
(* locks or queues: a request is open until it is answered, it is answered *)
(* at most once and to the address it came from, the client_id of every    *)
(* packet_1 is new in this run of the process, and while the process lives *)
(* no request stays open for ever.                                         *)
(***************************************************************************)

CONSTANTS
    Host,   \* where requests come from
    Tag,    \* what tells the requests apart
    Id,     \* the client_ids
    NoId    \* the id of an answer to a packet_3, none of Id

VARIABLES
    open,      \* the requests received and not answered yet
    answered   \* the answers sent

vars == <<open, answered>>

Request == [wants: {"welcome", "echo"}, addr: Host, tag: Tag]

Init == open = {} /\ answered = {}

OpenTags == {r.tag : r \in open}

Tags == OpenTags \union {a.request.tag : a \in answered}

Receive(r) ==
    /\ r.tag \notin Tags
    /\ open' = open \union {r}
    /\ UNCHANGED answered

\* The ids that may go into the answer to r.
IdsFor(r) ==
    IF r.wants = "welcome" THEN Id \ {a.id : a \in answered} ELSE {NoId}

Respond(r, i) ==
    /\ i \in IdsFor(r)
    /\ open' = open \ {r}
    /\ answered' = answered \union {[request |-> r, id |-> i]}

\* The process dies: its requests and its sessions are gone.
Crash == open' = {} /\ answered' = {}

Next ==
    \/ \E r \in Request : Receive(r)
    \/ \E r \in open : \E i \in IdsFor(r) : Respond(r, i)
    \/ Crash

Spec == Init /\ [][Next]_vars

\* Every request is answered, or lost with the process.
Progress == \A t \in Tag : t \in OpenTags ~> t \notin OpenTags
=============================================================================
