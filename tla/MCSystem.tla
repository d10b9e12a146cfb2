------------------------------ MODULE MCSystem ------------------------------
(* Model values for model-checking System.                                  *)
EXTENDS System

CONSTANTS me, other

MCAddr == {me, other}

\* The heap of the client is zeroed: recv_buffer starts as a type no case handles.
MCZeroed == {[type |-> "other"]}
=============================================================================
