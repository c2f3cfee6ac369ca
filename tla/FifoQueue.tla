------------------------------ MODULE FifoQueue ------------------------------
(***************************************************************************)
(* What a service's message queue promises, whatever its representation:   *)
(* messages leave in the order they came, none is lost, duplicated or      *)
(* invented.  skynet_mq.c is shown to implement this specification in      *)
(* module MessageQueue.                                                    *)
(***************************************************************************)
EXTENDS Sequences

CONSTANT Message

VARIABLE contents

Init == contents = << >>

\* A sender appends one message.
Push == \E m \in Message : contents' = Append(contents, m)

\* The dispatcher takes the oldest message.
Pop == contents # << >> /\ contents' = Tail(contents)

Next == Push \/ Pop

Spec == Init /\ [][Next]_contents
=============================================================================
