----------------------------- MODULE BindSocks -----------------------------
(***************************************************************************)
(* get_binded_socks() of network_core: a socket for every usable address   *)
(* of the machine's adapters, up to max_count.  Any call of the system may *)
(* fail.  The server takes the first socket of the result, the client      *)
(* makes a session of each.                                                *)
(***************************************************************************)
EXTENDS Naturals, Sequences

CONSTANTS
    Machines,       \* the lists of adapters GetAdaptersAddresses may give
    MaxCounts       \* the values of max_count

\* IfType of the adapters, with the two kinds the callers' adapter_filter names.
IfType == {"zero", "ethernet", "wifi", "loopback", "other"}

adapter_filter == {"ethernet", "wifi"}

Address == {"routable", "link_local", "not_inet"}

Adapter == [up: BOOLEAN, type: IfType, unicast: Seq(Address)]

ASSUME BindAssumption ==
    /\ Machines \subseteq Seq(Adapter)
    /\ MaxCounts \subseteq Nat

VARIABLES
    adapters, max_count,
    adapter, unicast,   \* where the loops are
    made,               \* how many sockets were made
    open,               \* those that are open
    socks,              \* the result: the sockets and what they are bound to
    failed,             \* the addresses some call failed for
    at

bind_vars == <<adapters, max_count, adapter, unicast, made, open, socks, failed, at>>

-----------------------------------------------------------------------------
BindInit ==
    /\ adapters \in Machines /\ max_count \in MaxCounts
    /\ adapter = 1 /\ unicast = 1
    /\ made = 0 /\ open = {} /\ socks = <<>> /\ failed = {}
    /\ at = "query"

\* GetAdaptersAddresses, the second call after a resize included.
Query ==
    /\ at = "query"
    /\ at' = "adapter"
    /\ UNCHANGED <<adapters, max_count, adapter, unicast, made, open, socks, failed>>

QueryFails ==
    /\ at = "query"
    /\ at' = "failed"
    /\ UNCHANGED <<adapters, max_count, adapter, unicast, made, open, socks, failed>>

\* The three tests of an adapter; a type of 0 passes the filter.
Usable(a) == a.up /\ a.type # "loopback" /\ (a.type # "zero" => a.type \in adapter_filter)

SkipAdapter ==
    /\ at = "adapter" /\ adapter <= Len(adapters)
    /\ ~Usable(adapters[adapter])
    /\ adapter' = adapter + 1
    /\ UNCHANGED <<adapters, max_count, unicast, made, open, socks, failed, at>>

EnterAdapter ==
    /\ at = "adapter" /\ adapter <= Len(adapters)
    /\ Usable(adapters[adapter])
    /\ unicast' = 1
    /\ at' = "unicast"
    /\ UNCHANGED <<adapters, max_count, adapter, made, open, socks, failed>>

LeaveAdapter ==
    /\ at = "unicast" /\ unicast > Len(adapters[adapter].unicast)
    /\ adapter' = adapter + 1
    /\ at' = "adapter"
    /\ UNCHANGED <<adapters, max_count, unicast, made, open, socks, failed>>

SkipAddress ==
    /\ at = "unicast" /\ unicast <= Len(adapters[adapter].unicast)
    /\ adapters[adapter].unicast[unicast] \in {"link_local", "not_inet"}
    /\ unicast' = unicast + 1
    /\ UNCHANGED <<adapters, max_count, adapter, made, open, socks, failed, at>>

SocketFails ==
    /\ at = "unicast" /\ unicast <= Len(adapters[adapter].unicast)
    /\ adapters[adapter].unicast[unicast] = "routable"
    /\ failed' = failed \union {<<adapter, unicast>>}
    /\ unicast' = unicast + 1
    /\ UNCHANGED <<adapters, max_count, adapter, made, open, socks, at>>

MakeSocket ==
    /\ at = "unicast" /\ unicast <= Len(adapters[adapter].unicast)
    /\ adapters[adapter].unicast[unicast] = "routable"
    /\ made' = made + 1
    /\ open' = open \union {made + 1}
    /\ at' = "bind"
    /\ UNCHANGED <<adapters, max_count, adapter, unicast, socks, failed>>

\* Mutant: the socket is not closed.
BindFailsOpen ==
    /\ at = "bind"
    /\ failed' = failed \union {<<adapter, unicast>>}
    /\ unicast' = unicast + 1
    /\ at' = "unicast"
    /\ UNCHANGED <<adapters, max_count, adapter, made, open, socks>>

\* Mutant: the rest of the adapter is given up.
BindFailsBreaks ==
    /\ at = "bind"
    /\ open' = open \ {made}
    /\ failed' = failed \union {<<adapter, unicast>>}
    /\ adapter' = adapter + 1
    /\ at' = "adapter"
    /\ UNCHANGED <<adapters, max_count, unicast, made, socks>>

BindFails ==
    /\ at = "bind"
    /\ open' = open \ {made}
    /\ failed' = failed \union {<<adapter, unicast>>}
    /\ unicast' = unicast + 1
    /\ at' = "unicast"
    /\ UNCHANGED <<adapters, max_count, adapter, made, socks>>

\* Mutant: the count is compared before the socket is added.
BindCountsFirst ==
    /\ at = "bind"
    /\ socks' = Append(socks, [sock |-> made, place |-> <<adapter, unicast>>])
    /\ at' = IF Len(socks) >= max_count THEN "done" ELSE "unicast"
    /\ unicast' = unicast + 1
    /\ UNCHANGED <<adapters, max_count, adapter, made, open, failed>>

Bind ==
    /\ at = "bind"
    /\ socks' = Append(socks, [sock |-> made, place |-> <<adapter, unicast>>])
    /\ at' = IF Len(socks') >= max_count THEN "done" ELSE "unicast"
    /\ unicast' = unicast + 1
    /\ UNCHANGED <<adapters, max_count, adapter, made, open, failed>>

Return ==
    /\ at = "adapter" /\ adapter > Len(adapters)
    /\ at' = "done"
    /\ UNCHANGED <<adapters, max_count, adapter, unicast, made, open, socks, failed>>

BindNext ==
    \/ Query \/ QueryFails
    \/ SkipAdapter \/ EnterAdapter \/ LeaveAdapter \/ SkipAddress
    \/ SocketFails \/ MakeSocket \/ BindFails \/ Bind
    \/ Return

BindSpec == BindInit /\ [][BindNext]_bind_vars

-----------------------------------------------------------------------------
(* Properties.                                                             *)

BindTypeOK ==
    /\ adapters \in Machines /\ max_count \in MaxCounts
    /\ adapter \in Nat \ {0} /\ unicast \in Nat \ {0}
    /\ at \in {"unicast", "bind"} => adapter <= Len(adapters)
    /\ made \in Nat /\ open \subseteq 1 .. made
    /\ socks \in Seq([sock: Nat, place: Nat \X Nat])
    /\ failed \subseteq Nat \X Nat
    /\ at \in {"query", "adapter", "unicast", "bind", "done", "failed"}

\* Whatever fails, the sockets left open are those of the result: none leaks.
NoSocketLeaks ==
    at \in {"done", "failed"} => open = {socks[n].sock : n \in 1 .. Len(socks)}

\* No two sockets of the result are the same socket, or bound to one address.
SocketsDistinct ==
    \A m, n \in 1 .. Len(socks) :
        m # n => socks[m].sock # socks[n].sock /\ socks[m].place # socks[n].place

\* The result never has more than max_count sockets, but a max_count of 0 gives
\* one as well.
CountRespected == Len(socks) <= (IF max_count = 0 THEN 1 ELSE max_count)

Eligible(i, j) == Usable(adapters[i]) /\ adapters[i].unicast[j] = "routable"

\* Only eligible addresses are bound, so that the server, which takes the first
\* socket, never listens on a loopback or link-local address; and one is left
\* out only because a call failed for it, or because there are max_count sockets
\* already.
NothingMissed ==
    /\ \A n \in 1 .. Len(socks) : Eligible(socks[n].place[1], socks[n].place[2])
    /\ at = "done" /\ Len(socks) < max_count =>
        \A i \in 1 .. Len(adapters) : \A j \in 1 .. Len(adapters[i].unicast) :
            Eligible(i, j) =>
                \/ <<i, j>> \in failed
                \/ \E n \in 1 .. Len(socks) : socks[n].place = <<i, j>>
=============================================================================
