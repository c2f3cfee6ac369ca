------------------------------- MODULE MCCore -------------------------------
(***************************************************************************)
(* The handle table and a message queue, for TLC.  They share nothing;     *)
(* part says which one a behaviour is about.  A small initial array and    *)
(* threshold make a backlog of MaxLength messages double the array several *)
(* times and cross several overload thresholds.                            *)
(***************************************************************************)
EXTENDS MCHandleStorage, MessageQueue

CONSTANT MaxLength      \* bound on the backlog

VARIABLE part

QueuePart == /\ part = "queue" /\ MQNext /\ skynet_mq_length' <= MaxLength
             /\ UNCHANGED <<part, vars>>
HandlePart == part = "handle" /\ Next /\ Bound /\ UNCHANGED <<part, mqvars>>

CoreInit == part \in {"queue", "handle"} /\ MQInit /\ Init

CoreSpec == CoreInit /\ [][QueuePart \/ HandlePart]_<<part, mqvars, vars>>
=============================================================================
