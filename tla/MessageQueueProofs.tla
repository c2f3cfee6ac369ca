-------------------------- MODULE MessageQueueProofs --------------------------
(***************************************************************************)
(* Proofs about MessageQueue, for every initial size, overload threshold   *)
(* and set of messages: the ring buffer of skynet_mq.c implements a FIFO   *)
(* queue, hands out only stored messages and never strands one.            *)
(***************************************************************************)
EXTENDS MessageQueue, TLAPS

\* What a slot of the array may hold.
Cell == Message \cup {Unset}

\* The slot of the i-th message of a ring of capacity c whose head is at h.
Slot(h, i, c) == IF h + i - 1 < c THEN h + i - 1 ELSE h + i - 1 - c

\* Reduction of a ring index that has not reached the end of the array.
LEMMA ModSmall ==
    ASSUME NEW a \in Nat, NEW c \in Nat \ {0}, a < c
    PROVE  a % c = a
  BY SMT

\* Reduction of a ring index that has passed the end of the array once.
LEMMA ModWrap ==
    ASSUME NEW a \in Nat, NEW c \in Nat \ {0}, c <= a, a < 2 * c
    PROVE  a % c = a - c
  BY SMT

\* The index skynet_mq.c computes with % is Slot, a valid index.
LEMMA SlotIndex ==
    ASSUME NEW c \in Nat \ {0}, NEW h \in 0 .. c - 1, NEW i \in 1 .. c
    PROVE  /\ (h + i - 1) % c = Slot(h, i, c)
           /\ Slot(h, i, c) \in 0 .. c - 1
  <1> DEFINE a == h + i - 1
  <1>1. a \in Nat /\ a < 2 * c
    OBVIOUS
  <1>2. a < c => a % c = a
    BY <1>1, ModSmall
  <1>3. c <= a => a % c = a - c
    BY <1>1, ModWrap
  <1> QED BY <1>1, <1>2, <1>3 DEF Slot

\* A ring has fewer messages than slots, and none when head and tail meet.
LEMMA LengthBound ==
    ASSUME NEW c \in Nat \ {0}, NEW h \in 0 .. c - 1, NEW t \in 0 .. c - 1
    PROVE  Length(h, t, c) \in 0 .. c - 1 /\ (Length(h, t, c) = 0 <=> h = t)
  BY DEF Length

\* The contents of a ring are the slots from the head on.
LEMMA ContentsAt ==
    ASSUME NEW c \in Nat \ {0}, NEW h \in 0 .. c - 1, NEW t \in 0 .. c - 1,
           NEW q \in [0 .. c - 1 -> Cell], NEW i \in 1 .. Length(h, t, c)
    PROVE  /\ Contents(q, h, t, c)[i] = q[Slot(h, i, c)]
           /\ Slot(h, i, c) \in 0 .. c - 1
  <1>0. Length(h, t, c) \in 0 .. c - 1
    BY LengthBound
  <1>1. i \in 1 .. c
    BY <1>0
  <1>2. (h + i - 1) % c = Slot(h, i, c) /\ Slot(h, i, c) \in 0 .. c - 1
    BY <1>1, SlotIndex
  <1> QED BY <1>2 DEF Contents

\* The contents of a ring are a sequence with one element per message.
LEMMA ContentsSeq ==
    ASSUME NEW c \in Nat \ {0}, NEW h \in 0 .. c - 1, NEW t \in 0 .. c - 1,
           NEW q \in [0 .. c - 1 -> Cell]
    PROVE  /\ Contents(q, h, t, c) \in Seq(Cell)
           /\ Len(Contents(q, h, t, c)) = Length(h, t, c)
  <1>1. \A i \in 1 .. Length(h, t, c) : Contents(q, h, t, c)[i] \in Cell
    BY ContentsAt
  <1>2. Length(h, t, c) \in Nat
    BY LengthBound
  <1> QED BY <1>1, <1>2 DEF Contents

\* skynet_mq_push on a ring that does not become full appends the message.
LEMMA StoreAppends ==
    ASSUME NEW c \in Nat \ {0}, NEW h \in 0 .. c - 1, NEW t \in 0 .. c - 1,
           NEW q \in [0 .. c - 1 -> Cell], NEW m \in Cell,
           h # Wrap(t + 1, c)
    PROVE  Contents([q EXCEPT ![t] = m], h, Wrap(t + 1, c), c)
             = Append(Contents(q, h, t, c), m)
  <1> DEFINE L == Length(h, t, c)
             n == Wrap(t + 1, c)
             r == [q EXCEPT ![t] = m]
  <1>1. n \in 0 .. c - 1 /\ r \in [0 .. c - 1 -> Cell]
    BY DEF Wrap
  <1>2. L \in 0 .. c - 2 /\ Length(h, n, c) = L + 1 /\ Slot(h, L + 1, c) = t
    BY DEF Wrap, Length, Slot
  <1>3. \A i \in 1 .. L : Slot(h, i, c) # t /\ Slot(h, i, c) \in 0 .. c - 1
    BY DEF Length, Slot
  <1>4. /\ Contents(q, h, t, c) \in Seq(Cell)
        /\ Len(Contents(q, h, t, c)) = L
        /\ \A i \in 1 .. L : Contents(q, h, t, c)[i] = q[Slot(h, i, c)]
    BY ContentsSeq, ContentsAt, ZenonT(60)
  <1>5. \A i \in 1 .. L + 1 :
           r[Slot(h, i, c)] = IF i = L + 1 THEN m ELSE q[Slot(h, i, c)]
    BY <1>2, <1>3
  <1> HIDE DEF n, r, L
  <1>6. /\ Contents(r, h, n, c) \in Seq(Cell)
        /\ Len(Contents(r, h, n, c)) = L + 1
        /\ \A i \in 1 .. L + 1 : Contents(r, h, n, c)[i] = r[Slot(h, i, c)]
    <2>1. /\ Contents(r, h, n, c) \in Seq(Cell)
          /\ Len(Contents(r, h, n, c)) = Length(h, n, c)
      BY <1>1, ContentsSeq
    <2>2. \A i \in 1 .. Length(h, n, c) :
             Contents(r, h, n, c)[i] = r[Slot(h, i, c)]
      BY <1>1, ContentsAt
    <2> QED BY <1>2, <2>1, <2>2
  <1>7. \A i \in 1 .. L + 1 : Contents(r, h, n, c)[i]
                                = Append(Contents(q, h, t, c), m)[i]
    BY <1>2, <1>4, <1>5, <1>6
  <1>8. Contents(r, h, n, c) = Append(Contents(q, h, t, c), m)
    BY <1>2, <1>4, <1>6, <1>7
  <1> QED BY <1>8 DEF n, r

\* The messages of a full ring, which head and tail alone cannot tell from an
\* empty one.
Full(r, h, c) == [i \in 1 .. c |-> r[Slot(h, i, c)]]

\* skynet_mq_push on a ring with one free slot: r, the array with the message
\* stored, is full and holds the old contents followed by the message.
LEMMA StoreFills ==
    ASSUME NEW c \in Nat \ {0}, NEW h \in 0 .. c - 1, NEW t \in 0 .. c - 1,
           NEW q \in [0 .. c - 1 -> Cell], NEW m \in Cell,
           h = Wrap(t + 1, c)
    PROVE  Full([q EXCEPT ![t] = m], h, c) = Append(Contents(q, h, t, c), m)
  <1> DEFINE r == [q EXCEPT ![t] = m]
  <1>1. r[t] = m /\ \A j \in 0 .. c - 1 : j # t => r[j] = q[j]
    OBVIOUS
  <1>2. Length(h, t, c) = c - 1 /\ Slot(h, c, c) = t
    BY DEF Wrap, Length, Slot
  <1>3. \A i \in 1 .. c - 1 : Slot(h, i, c) # t /\ Slot(h, i, c) \in 0 .. c - 1
    BY DEF Wrap, Slot
  <1>4. /\ Contents(q, h, t, c) \in Seq(Cell)
        /\ Len(Contents(q, h, t, c)) = c - 1
        /\ \A i \in 1 .. c - 1 : Contents(q, h, t, c)[i] = q[Slot(h, i, c)]
    <2>1. /\ Contents(q, h, t, c) \in Seq(Cell)
          /\ Len(Contents(q, h, t, c)) = Length(h, t, c)
      BY ContentsSeq
    <2>2. \A i \in 1 .. Length(h, t, c) :
             Contents(q, h, t, c)[i] = q[Slot(h, i, c)]
      BY ContentsAt
    <2> QED BY <1>2, <2>1, <2>2
  <1> HIDE DEF r
  <1>5. ASSUME NEW i \in 1 .. c
        PROVE  r[Slot(h, i, c)] = Append(Contents(q, h, t, c), m)[i]
    <2>1. CASE i = c
      BY <1>1, <1>2, <1>4, <2>1
    <2>2. CASE i \in 1 .. c - 1
      <3>1. r[Slot(h, i, c)] = q[Slot(h, i, c)]
        BY <1>1, <1>3, <2>2
      <3>2. Append(Contents(q, h, t, c), m)[i] = Contents(q, h, t, c)[i]
        BY <1>4, <2>2
      <3>3. Contents(q, h, t, c)[i] = q[Slot(h, i, c)]
        BY <1>4, <2>2
      <3> QED BY <3>1, <3>2, <3>3
    <2>3. i = c \/ i \in 1 .. c - 1
      OBVIOUS
    <2> QED BY <2>1, <2>2, <2>3, Zenon
  <1>6. Full(r, h, c) = Append(Contents(q, h, t, c), m)
    BY <1>4, <1>5 DEF Full
  <1> QED BY <1>6 DEF r

\* expand_queue moves the messages of a full ring, oldest first, to the front
\* of an array twice as large, whose head is 0 and whose tail is c.
LEMMA ExpandKeeps ==
    ASSUME NEW c \in Nat \ {0}, NEW h \in 0 .. c - 1,
           NEW r \in [0 .. c - 1 -> Cell]
    PROVE  /\ expand_queue(r, c, h) \in [0 .. 2 * c - 1 -> Cell]
           /\ Contents(expand_queue(r, c, h), 0, c, 2 * c) = Full(r, h, c)
  <1> DEFINE e == expand_queue(r, c, h)
             d == 2 * c
  <1>1. ASSUME NEW i \in 0 .. c - 1
        PROVE  /\ (h + i) % c = Slot(h, i + 1, c)
               /\ Slot(h, i + 1, c) \in 0 .. c - 1
    <2>1. i + 1 \in 1 .. c /\ h + (i + 1) - 1 = h + i
      OBVIOUS
    <2> QED BY <2>1, SlotIndex
  <1>2. e \in [0 .. d - 1 -> Cell]
    <2>1. \A i \in 0 .. c - 1 : r[(h + i) % c] \in Cell
      BY <1>1
    <2>2. Unset \in Cell
      BY DEF Cell
    <2>3. \A i \in 0 .. 2 * c - 1 :
             (IF i < c THEN r[(h + i) % c] ELSE Unset) \in Cell
      BY <2>1, <2>2
    <2> QED BY <2>3 DEF expand_queue
  <1>3. ASSUME NEW i \in 1 .. c PROVE e[i - 1] = r[Slot(h, i, c)]
    <2>1. i - 1 \in 0 .. c - 1 /\ (i - 1) + 1 = i /\ i - 1 \in 0 .. 2 * c - 1
      OBVIOUS
    <2>2. (h + (i - 1)) % c = Slot(h, i, c)
      BY <1>1, <2>1
    <2>3. e[i - 1] = r[(h + (i - 1)) % c]
      BY <2>1 DEF expand_queue
    <2> QED BY <2>2, <2>3
  <1>4. d \in Nat \ {0} /\ 0 \in 0 .. d - 1 /\ c \in 0 .. d - 1
    OBVIOUS
  <1>5. Length(0, c, d) = c /\ \A i \in 1 .. c : Slot(0, i, d) = i - 1
    BY DEF Slot, Length
  <1> HIDE DEF d, e
  <1>6. ASSUME NEW i \in 1 .. c
        PROVE  Contents(e, 0, c, d)[i] = r[Slot(h, i, c)]
    <2>1. i \in 1 .. Length(0, c, d)
      BY <1>5
    <2>2. Contents(e, 0, c, d)[i] = e[Slot(0, i, d)]
      BY <1>2, <1>4, <2>1, ContentsAt
    <2> QED BY <1>3, <1>5, <2>2
  <1>7. Contents(e, 0, c, d) = Full(r, h, c)
    BY <1>5, <1>6 DEF Contents, Full
  <1> QED BY <1>2, <1>7 DEF d, e

\* skynet_mq_pop on a ring with a message removes the oldest one.
LEMMA TakeTail ==
    ASSUME NEW c \in Nat \ {0}, NEW h \in 0 .. c - 1, NEW t \in 0 .. c - 1,
           NEW q \in [0 .. c - 1 -> Cell], h # t
    PROVE  Contents(q, Wrap(h + 1, c), t, c) = Tail(Contents(q, h, t, c))
  <1> DEFINE L == Length(h, t, c)
             n == Wrap(h + 1, c)
  <1>1. n \in 0 .. c - 1
    BY DEF Wrap
  <1>2. L \in 1 .. c - 1 /\ Length(n, t, c) = L - 1
    BY DEF Wrap, Length
  <1>3. \A i \in 1 .. L - 1 : Slot(n, i, c) = Slot(h, i + 1, c)
    BY DEF Wrap, Slot, Length
  <1>4. /\ Contents(q, h, t, c) \in Seq(Cell)
        /\ Len(Contents(q, h, t, c)) = L
        /\ \A i \in 1 .. L : Contents(q, h, t, c)[i] = q[Slot(h, i, c)]
    BY ContentsSeq, ContentsAt, ZenonT(60)
  <1> HIDE DEF n, L
  <1>5. /\ Contents(q, n, t, c) \in Seq(Cell)
        /\ Len(Contents(q, n, t, c)) = L - 1
        /\ \A i \in 1 .. L - 1 : Contents(q, n, t, c)[i] = q[Slot(n, i, c)]
    <2>1. /\ Contents(q, n, t, c) \in Seq(Cell)
          /\ Len(Contents(q, n, t, c)) = Length(n, t, c)
      BY <1>1, ContentsSeq
    <2>2. \A i \in 1 .. Length(n, t, c) :
             Contents(q, n, t, c)[i] = q[Slot(n, i, c)]
      BY <1>1, ContentsAt
    <2> QED BY <1>2, <2>1, <2>2
  <1>6. /\ Tail(Contents(q, h, t, c)) \in Seq(Cell)
        /\ Len(Tail(Contents(q, h, t, c))) = L - 1
        /\ \A i \in 1 .. L - 1 :
              Tail(Contents(q, h, t, c))[i] = Contents(q, h, t, c)[i + 1]
    BY <1>2, <1>4
  <1>7. Contents(q, n, t, c) = Tail(Contents(q, h, t, c))
    BY <1>2, <1>3, <1>4, <1>5, <1>6
  <1> QED BY <1>7 DEF n
-----------------------------------------------------------------------------
(***************************************************************************)
(* The inductive invariant is the conjunction of the properties: the meter *)
(* needs the owner's state, the owner needs in_global, and everything      *)
(* needs the types.                                                        *)
(***************************************************************************)
Inv == MQTypeOK /\ PopsOnlyMessages /\ NoStrandedMessage /\ OverloadReport

\* skynet_mq_push keeps the types and appends its message.
LEMMA PushStep ==
    ASSUME MQTypeOK, NEW m \in Message, skynet_mq_push(m)
    PROVE  MQTypeOK' /\ contents' = Append(contents, m)
  <1>1. /\ cap \in Nat \ {0} /\ head \in 0 .. cap - 1 /\ tail \in 0 .. cap - 1
        /\ queue \in [0 .. cap - 1 -> Cell] /\ m \in Cell
    BY DEF MQTypeOK, Cell
  <1>2. /\ overload' \in Nat /\ overload_threshold' \in Nat \ {0}
        /\ in_global' \in {0, 1}
        /\ owner' \in {"creator", "global", "worker", "dispatching", "nobody"}
    BY DEF MQTypeOK, skynet_mq_push, meter
  <1>3. CASE head = Wrap(tail + 1, cap)
    <2>1. /\ queue' = expand_queue([queue EXCEPT ![tail] = m], cap, head)
          /\ head' = 0 /\ tail' = cap /\ cap' = 2 * cap
      BY <1>3 DEF skynet_mq_push
    <2>2. cap' \in Nat \ {0} /\ head' \in 0 .. cap' - 1 /\ tail' \in 0 .. cap' - 1
      BY <1>1, <2>1
    <2>3. /\ queue' \in [0 .. cap' - 1 -> Cell]
          /\ Contents(queue', 0, cap, cap')
                = Append(Contents(queue, head, tail, cap), m)
      <3> DEFINE r == [queue EXCEPT ![tail] = m]
      <3>1. /\ r \in [0 .. cap - 1 -> Cell]
            /\ queue' = expand_queue(r, cap, head) /\ cap' = 2 * cap
        BY <1>1, <2>1
      <3>2. Full(r, head, cap) = Append(Contents(queue, head, tail, cap), m)
        BY <1>1, <1>3, StoreFills
      <3> HIDE DEF r
      <3> QED BY <1>1, <3>1, <3>2, ExpandKeeps
    <2> QED BY <1>2, <2>1, <2>2, <2>3 DEF contents, MQTypeOK, Cell
  <1>4. CASE head # Wrap(tail + 1, cap)
    <2>1. /\ queue' = [queue EXCEPT ![tail] = m]
          /\ head' = head /\ tail' = Wrap(tail + 1, cap) /\ cap' = cap
      BY <1>4 DEF skynet_mq_push
    <2>2. tail' \in 0 .. cap - 1 /\ queue' \in [0 .. cap - 1 -> Cell]
      BY <1>1, <2>1 DEF Wrap
    <2>3. contents' = Append(contents, m)
      BY <1>1, <1>4, <2>1, StoreAppends DEF contents
    <2> QED BY <1>1, <1>2, <2>1, <2>2, <2>3 DEF MQTypeOK, Cell
  <1> QED BY <1>3, <1>4

\* skynet_mq_pop of a message keeps the types and removes the oldest message.
LEMMA PopStep ==
    ASSUME MQTypeOK, PopMessage
    PROVE  MQTypeOK' /\ contents # << >> /\ contents' = Tail(contents)
  <1> USE DEF MQTypeOK, Cell
  <1>1. /\ head # tail /\ head' = Wrap(head + 1, cap)
        /\ UNCHANGED <<cap, tail, queue, in_global>> /\ owner' = "dispatching"
    BY DEF PopMessage
  <1>2. head' \in 0 .. cap - 1
    BY <1>1 DEF Wrap
  <1> DEFINE L == Length(head', tail, cap)
  <1>3. L \in Nat
    BY <1>2, LengthBound
  <1>4. overload' \in Nat /\ overload_threshold' \in Nat \ {0}
    BY <1>1, <1>3 DEF PopMessage, Doubled
  <1>5. contents' = Tail(contents)
    BY <1>1, TakeTail DEF contents
  <1>6. Len(contents) # 0
    <2>1. Len(Contents(queue, head, tail, cap)) = Length(head, tail, cap)
      BY ContentsSeq
    <2>2. Length(head, tail, cap) # 0
      BY <1>1, LengthBound
    <2> QED BY <2>1, <2>2 DEF contents
  <1>7. contents # << >>
    BY <1>6
  <1> QED BY <1>1, <1>2, <1>4, <1>5, <1>7

\* The other operations leave the ring alone.
LEMMA OtherStep ==
    ASSUME MQTypeOK,
           \/ PopEmpty \/ skynet_mq_overload
           \/ skynet_globalmq_push \/ skynet_globalmq_pop
           \/ UNCHANGED mqvars
    PROVE  MQTypeOK' /\ contents' = contents
  BY OverloadAssumption DEF MQTypeOK, contents, PopEmpty, skynet_mq_overload,
     skynet_globalmq_push, skynet_globalmq_pop, ring, meter, mqvars

\* Every step keeps the types and acts on the contents as a step of the FIFO.
LEMMA StepSimulates ==
    ASSUME MQTypeOK, [MQNext]_mqvars
    PROVE  MQTypeOK' /\ [Fifo!Next]_contents
  <1>1. ASSUME NEW m \in Message, skynet_mq_push(m)
        PROVE  MQTypeOK' /\ [Fifo!Next]_contents
    BY <1>1, PushStep DEF Fifo!Next, Fifo!Push
  <1>2. CASE PopMessage
    BY <1>2, PopStep DEF Fifo!Next, Fifo!Pop
  <1>3. CASE \/ PopEmpty \/ skynet_mq_overload
             \/ skynet_globalmq_push \/ skynet_globalmq_pop
             \/ UNCHANGED mqvars
    BY <1>3, OtherStep
  <1> QED BY <1>1, <1>2, <1>3 DEF MQNext

\* The initial ring is typed and empty.
LEMMA InitEmpty ==
    ASSUME MQInit
    PROVE  MQTypeOK /\ contents = << >>
  <1>1. MQTypeOK
    BY SizeAssumption, OverloadAssumption DEF MQInit, skynet_mq_create, MQTypeOK
  <1>2. Length(head, tail, cap) = 0
    BY DEF MQInit, skynet_mq_create, Length
  <1> QED BY <1>1, <1>2 DEF contents, Contents

\* The circular buffer of skynet_mq.c, with its wrapping indices and its
\* expansion, implements a FIFO queue, whatever the initial size.
THEOREM RingImplementsFifo == MQSpec => ImplementsFifo
  <1>1. MQInit => MQTypeOK /\ Fifo!Init
    BY InitEmpty DEF Fifo!Init
  <1>2. MQTypeOK /\ [MQNext]_mqvars => MQTypeOK' /\ [Fifo!Next]_contents
    BY StepSimulates
  <1> QED BY <1>1, <1>2, PTL DEF MQSpec, ImplementsFifo, Fifo!Spec

\* Every operation keeps the four properties.
LEMMA InvStep == Inv /\ [MQNext]_mqvars => Inv'
  <1> SUFFICES ASSUME Inv, [MQNext]_mqvars PROVE Inv'
    OBVIOUS
  <1> USE OverloadAssumption DEF Inv, NoStrandedMessage, OverloadReport
  <1>1. MQTypeOK' /\ [Fifo!Next]_contents
    BY StepSimulates
  <1>2. PopsOnlyMessages'
    <2>1. contents \in Seq(Message)
      <3>1. contents \in Seq(Cell)
        BY ContentsSeq DEF contents, MQTypeOK, Cell
      <3> QED BY <3>1 DEF PopsOnlyMessages
    <2>2. contents' \in Seq(Message)
      BY <1>1, <2>1 DEF Fifo!Next, Fifo!Push, Fifo!Pop
    <2> QED BY <2>2 DEF PopsOnlyMessages
  <1>3. ASSUME NEW m \in Message, skynet_mq_push(m)
        PROVE  NoStrandedMessage' /\ OverloadReport'
    BY <1>3 DEF skynet_mq_push, meter, MQTypeOK
  <1>4. ASSUME PopMessage
        PROVE  NoStrandedMessage' /\ OverloadReport'
    <2> DEFINE n == Wrap(head + 1, cap)
               L == Length(n, tail, cap)
    <2>1. owner' = "dispatching" /\ in_global' = in_global /\ in_global = 1
      BY <1>4 DEF PopMessage, MQTypeOK
    <2>2. n \in 0 .. cap - 1 /\ overload = 0
      BY <1>4 DEF PopMessage, MQTypeOK, Wrap
    <2>3. L \in Nat
      <3> HIDE DEF n
      <3> QED BY <2>2, LengthBound DEF MQTypeOK
    <2>4. /\ overload' = IF L > overload_threshold THEN L ELSE overload
          /\ overload_threshold' \in Doubled(overload_threshold, L)
      BY <1>4 DEF PopMessage
    <2> HIDE DEF L
    <2>5. overload' # 0 => /\ overload' <= overload_threshold'
                           /\ overload_threshold' < 2 * overload'
      BY <2>2, <2>3, <2>4 DEF Doubled, MQTypeOK
    <2> QED BY <2>1, <2>5
  <1>5. ASSUME \/ PopEmpty \/ skynet_mq_overload
               \/ skynet_globalmq_push \/ skynet_globalmq_pop
               \/ UNCHANGED mqvars
        PROVE  NoStrandedMessage' /\ OverloadReport'
    BY <1>5 DEF PopEmpty, skynet_mq_overload, skynet_globalmq_push,
       skynet_globalmq_pop, ring, meter, mqvars, MQTypeOK
  <1> QED BY <1>1, <1>2, <1>3, <1>4, <1>5 DEF MQNext

\* The invariant holds of every behaviour of the queue.
LEMMA Invariance == MQSpec => []Inv
  <1>1. MQInit => Inv
    <2> SUFFICES ASSUME MQInit PROVE Inv
      OBVIOUS
    <2>1. MQTypeOK /\ contents = << >>
      BY InitEmpty
    <2>2. PopsOnlyMessages
      BY <2>1 DEF PopsOnlyMessages
    <2> QED BY <2>1, <2>2
         DEF Inv, MQInit, skynet_mq_create, NoStrandedMessage, OverloadReport
  <1> QED BY <1>1, InvStep, PTL DEF MQSpec

\* The indices of the ring buffer stay inside its array.
THEOREM TypeCorrect == MQSpec => []MQTypeOK
  BY Invariance, PTL DEF Inv

\* skynet_mq_pop returns only memory some skynet_mq_push has written.
THEOREM PopsStored == MQSpec => []PopsOnlyMessages
  BY Invariance, PTL DEF Inv

\* A queue that is on no list and with no thread has no message in it.
THEOREM NothingStranded == MQSpec => []NoStrandedMessage
  BY Invariance, PTL DEF Inv

\* A reported backlog is the one that made the threshold what it is.
THEOREM OverloadIsCurrent == MQSpec => []OverloadReport
  BY Invariance, PTL DEF Inv
=============================================================================
