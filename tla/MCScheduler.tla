----------------------------- MODULE MCScheduler -----------------------------
(***************************************************************************)
(* Scheduler for TLC.  The first worker takes one message at a time        *)
(* (weight -1), the others the whole queue or half of it, as in the        *)
(* weight table of skynet_start.c.                                         *)
(***************************************************************************)
EXTENDS Scheduler

CONSTANTS w1, w2, f, s1, s2, s3

TwoServices == <<s1, s2>>
Weights == [w \in Worker |-> IF w = w1 THEN -1 ELSE 0]
=============================================================================
