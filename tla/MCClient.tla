------------------------------ MODULE MCClient ------------------------------
(* Model values for model-checking Client.                                  *)
EXTENDS Client

CONSTANTS i1, i2

MCId == {i1, i2}

\* Whatever the heap held: no packet, a packet_1 or a packet_3.
MCJunk == {[type |-> "other"], [type |-> "welcome", id |-> i1], [type |-> "echo", seq |-> 7]}

\* The heap is zeroed, so that recv_buffer starts as a type no case handles.
MCZeroed == {[type |-> "other"]}
=============================================================================
