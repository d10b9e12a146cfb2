---------------------------- MODULE ServerSocket ----------------------------
(***************************************************************************)
(* From get_binded_socks() in server::init() to the receive buffer: the    *)
(* server takes the first of up to ten sockets, and nobody closes or reads *)
(* the others.  Any other value of max_count ends with the result of       *)
(* get_binded_socks(), which a client makes sessions of.                   *)
(***************************************************************************)
EXTENDS WireFormat, BindSocks

start_vars == <<vars, bind_vars>>

StartInit == BindInit /\ Init

GetBindedSocks == BindNext /\ UNCHANGED vars

\* server_socket = socks[0].  The lists are locals and gone; the sockets of the
\* result stay open, numbered anew.
TakeSocket ==
    /\ at = "done" /\ max_count = 10 /\ socks # <<>>
    /\ made' = Len(socks) /\ open' = 1 .. Len(socks)
    /\ adapters' = <<>> /\ adapter' = 1 /\ unicast' = 1 /\ socks' = <<>> /\ failed' = {}
    /\ at' = "listening"
    /\ UNCHANGED <<max_count, vars>>

\* A datagram comes to the first socket.
Listen == at = "listening" /\ Next /\ UNCHANGED bind_vars

StartNext == GetBindedSocks \/ TakeSocket \/ Listen

StartSpec == StartInit /\ [][StartNext]_start_vars
=============================================================================
