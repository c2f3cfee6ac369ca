----------------------------- MODULE MessageQueue -----------------------------
(***************************************************************************)
(* One struct message_queue of skynet-src/skynet_mq.c: the circular buffer *)
(* that doubles when it fills, the overload meter, and the in_global flag  *)
(* that says whether the queue is on the global list or with a worker.     *)
(* Every operation runs under the queue's spin lock, so it is one step.    *)
(* Module Scheduler models many queues, the global list and the threads.   *)
(***************************************************************************)
EXTENDS Naturals, Sequences

CONSTANTS Message,              \* what a sender may push
          DEFAULT_QUEUE_SIZE,   \* 64 in the code
          MQ_OVERLOAD,          \* 1024 in the code
          Unset                 \* contents of a slot nobody has written

ASSUME SizeAssumption == DEFAULT_QUEUE_SIZE \in Nat \ {0}
ASSUME OverloadAssumption == MQ_OVERLOAD \in Nat \ {0}
ASSUME UnsetAssumption == Unset \notin Message

VARIABLES cap, head, tail, queue,       \* the ring buffer
          overload, overload_threshold, \* the overload meter
          in_global,                    \* 1: on the global list or dispatched
          owner                         \* who may call skynet_mq_pop
mqvars == <<cap, head, tail, queue, overload, overload_threshold, in_global, owner>>

ring == <<cap, head, tail, queue>>
meter == <<overload, overload_threshold>>

\* skynet_mq_create, called by skynet_context_new: the creator keeps the
\* queue until the service's init has succeeded.
skynet_mq_create ==
    /\ cap = DEFAULT_QUEUE_SIZE
    /\ head = 0 /\ tail = 0
    /\ queue = [i \in 0 .. cap - 1 |-> Unset]
    /\ overload = 0 /\ overload_threshold = MQ_OVERLOAD
    /\ in_global = 1
    /\ owner = "creator"

Wrap(i, c) == IF i >= c THEN 0 ELSE i

\* The number of messages from head h to tail t in a ring of capacity c.
Length(h, t, c) == IF h <= t THEN t - h ELSE t + c - h

skynet_mq_length == Length(head, tail, cap)

\* Mutant: the array is copied as it lies, without unrolling it at the head.
expand_queue_Straight(q, c, h) ==
    [i \in 0 .. 2 * c - 1 |-> IF i < c THEN q[i] ELSE Unset]

\* expand_queue: copy the full ring q (capacity c, oldest message at h)
\* into the lower half of an array twice as large.
expand_queue(q, c, h) ==
    [i \in 0 .. 2 * c - 1 |-> IF i < c THEN q[(h + i) % c] ELSE Unset]

\* skynet_mq_push; linking the queue on the global list makes "global" its
\* owner, and is done only for a queue that was not on it (in_global = 0).
skynet_mq_push(m) ==
    LET stored == [queue EXCEPT ![tail] = m]
        next == Wrap(tail + 1, cap)
    IN  /\ IF head = next
           THEN /\ queue' = expand_queue(stored, cap, head)
                /\ head' = 0
                /\ tail' = cap
                /\ cap' = 2 * cap
           ELSE /\ queue' = stored
                /\ tail' = next
                /\ UNCHANGED <<head, cap>>
        /\ in_global' = 1
        /\ owner' = IF in_global = 0 THEN "global" ELSE owner
        /\ UNCHANGED meter

\* What the while loop of skynet_mq_pop may leave in overload_threshold when
\* it starts from t: the least t * 2^k (k >= 0) that is not below length.
Doubled(t, length) ==
    {u \in t .. t + 2 * length :
        /\ u >= length
        /\ u = t \/ u < 2 * length
        /\ \E k \in 0 .. length : u = t * 2^k}

\* skynet_mq_pop on a queue that has a message: take the oldest one and let
\* the overload meter catch up with what is left.
PopMessage ==
    LET next == Wrap(head + 1, cap)
        length == Length(next, tail, cap)
    IN  /\ owner = "worker"
        /\ head # tail
        /\ head' = next
        /\ overload' = IF length > overload_threshold THEN length ELSE overload
        /\ overload_threshold' \in Doubled(overload_threshold, length)
        /\ owner' = "dispatching"
        /\ UNCHANGED <<cap, tail, queue, in_global>>

\* Mutant: in_global is not cleared when the queue is found empty.
PopEmpty_KeepsFlag ==
    /\ owner = "worker"
    /\ head = tail
    /\ overload_threshold' = MQ_OVERLOAD
    /\ owner' = "nobody"
    /\ UNCHANGED <<ring, overload, in_global>>

\* skynet_mq_pop on an empty queue: the worker loses the queue, which is on
\* no list until the next push.
PopEmpty ==
    /\ owner = "worker"
    /\ head = tail
    /\ overload_threshold' = MQ_OVERLOAD
    /\ in_global' = 0
    /\ owner' = "nobody"
    /\ UNCHANGED <<ring, overload>>

\* skynet_mq_overload: the worker reads the meter and clears it, after every
\* message it has popped; then it dispatches the message.
skynet_mq_overload ==
    /\ owner = "dispatching"
    /\ overload' = 0
    /\ owner' = "worker"
    /\ UNCHANGED <<ring, overload_threshold, in_global>>

\* skynet_globalmq_push by the creator once the service has been initialised,
\* or by the worker when it lets another queue go first.
skynet_globalmq_push ==
    /\ owner \in {"creator", "worker"}
    /\ owner' = "global"
    /\ UNCHANGED <<ring, meter, in_global>>

\* skynet_globalmq_pop by a worker.
skynet_globalmq_pop ==
    /\ owner = "global"
    /\ owner' = "worker"
    /\ UNCHANGED <<ring, meter, in_global>>

MQInit == skynet_mq_create

MQNext ==
    \/ \E m \in Message : skynet_mq_push(m)
    \/ PopMessage
    \/ PopEmpty
    \/ skynet_mq_overload
    \/ skynet_globalmq_push
    \/ skynet_globalmq_pop

MQSpec == MQInit /\ [][MQNext]_mqvars
-----------------------------------------------------------------------------
\* The messages of the queue, oldest first.
Contents(q, h, t, c) == [i \in 1 .. Length(h, t, c) |-> q[(h + i - 1) % c]]

contents == Contents(queue, head, tail, cap)

Fifo == INSTANCE FifoQueue

\* Type invariant: the indices stay inside the array, which is never full
\* when no operation is running (a full array is expanded before unlock).
MQTypeOK ==
    /\ cap \in Nat \ {0}
    /\ head \in 0 .. cap - 1
    /\ tail \in 0 .. cap - 1
    /\ queue \in [0 .. cap - 1 -> Message \cup {Unset}]
    /\ overload \in Nat
    /\ overload_threshold \in Nat \ {0}
    /\ in_global \in {0, 1}
    /\ owner \in {"creator", "global", "worker", "dispatching", "nobody"}

\* The circular buffer, through wrapping and any number of expansions, is a
\* first-in first-out queue: skynet_mq_push and skynet_mq_pop implement the
\* abstract FIFO, and no other operation changes the contents.
ImplementsFifo == Fifo!Spec

\* Between the head and the tail every slot holds a message some sender
\* stored: skynet_mq_pop never returns memory nobody wrote, also right after
\* expand_queue has moved the messages.
PopsOnlyMessages == \A i \in DOMAIN contents : contents[i] \in Message

\* A queue that no list and no thread holds (in_global = 0) is empty: the
\* messages of a service are never stranded where no worker finds them.
NoStrandedMessage ==
    /\ in_global = 0 <=> owner = "nobody"
    /\ owner = "nobody" => head = tail

\* The overload meter reports a backlog once per doubling of MQ_OVERLOAD: a
\* reported length lies in the upper half of the current threshold, and no
\* report outlives the message that caused it.
OverloadReport ==
    /\ overload # 0 => /\ owner = "dispatching"
                       /\ overload <= overload_threshold
                       /\ overload_threshold < 2 * overload
    /\ owner = "nobody" => overload_threshold = MQ_OVERLOAD
=============================================================================
