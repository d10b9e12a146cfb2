--------------------------- MODULE MCServerSocket ---------------------------
(* Machines of up to two adapters with up to two addresses.                  *)
EXTENDS ServerSocket

UpTo2(S) == {<<>>} \cup {<<x>> : x \in S} \cup (S \X S)

SmallAdapters == [up: BOOLEAN, type: IfType, unicast: UpTo2(Address)]

SmallMachines ==
    UpTo2([up: {TRUE}, type: {"zero", "ethernet"}, unicast: UpTo2({"routable", "link_local"})])
    \cup {<<a, b>> : a \in SmallAdapters, b \in [up: {TRUE}, type: {"wifi"}, unicast: {<<"routable", "routable">>}]}
=============================================================================
