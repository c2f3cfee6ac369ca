------------------------- MODULE SchedulerInvariant -------------------------
(***************************************************************************)
(* The inductive invariant behind the safety properties of Scheduler: where *)
(* each thread may be and what it holds there, who has a reference to which *)
(* context, in which place each queue is, and how the lives of contexts and *)
(* queues relate.                                                          *)
(***************************************************************************)
EXTENDS Scheduler

(* The inductive invariant *)
\* A thread that pushes, releases or deletes returns to ret.
Calling == {"push", "release", "delete"}
At(t) == IF pc[t] \in Calling THEN ret[t] ELSE pc[t]

\* The places where a worker has a service of its own to dispatch.
Serving == {"pop_first", "pop", "length", "callback", "rotate", "pushback", "retire",
            "mq_create", "init", "launched", "publish", "publish_dead", "report", "failed"}

Launching == {"launched", "publish", "publish_dead", "report", "failed"}
Dropping == {"mq_release", "drop"}
TypedContexts ==
    /\ slot \in [Handle -> BOOLEAN] /\ init \in [Handle -> BOOLEAN]
    /\ ref \in [Handle -> Nat] /\ life \in [Handle -> Life] /\ total \in Int

TypedQueues ==
    /\ qlife \in [Handle -> Life] /\ mq \in [Handle -> Seq(Message)]
    /\ in_global \in [Handle -> {0, 1}] /\ release \in [Handle -> {0, 1}]
    /\ globalmq \in Seq(Handle)

TypedPlaces == pc \in [Thread -> Pc] /\ ret \in [Thread -> Pc]
TypedLocals ==
    /\ q \in [Thread -> Handle \cup {None}] /\ nq \in [Thread -> Handle \cup {None}]
    /\ cur \in [Thread -> Handle \cup {None}] /\ obj \in [Thread -> Handle \cup {None}]
    /\ new \in [Thread -> Handle \cup {None}] /\ made \in [Thread -> Handle \cup {None}]
    /\ victim \in [Thread -> Handle \cup {None}]

Typed ==
    TypedContexts /\ TypedQueues /\ TypedPlaces /\ TypedLocals /\ known \subseteq Handle

\* Which local variables of a thread are set, by the place it is at.
ShapeOf(t) ==
    /\ obj[t] # None <=> pc[t] \in Calling
    /\ pc[t] = "push" => ret[t] \in {"callback", "init", "feed", "drop", "retire"}
    /\ pc[t] \in Calling => ret[t] \in {"callback", "init", "feed", "drop", "retire", "nextq",
                                        "dispatch", "launched", "failed", "mq_release"}
    /\ cur[t] # None => cur[t] = q[t]
    /\ At(t) \in Serving => cur[t] # None
    /\ At(t) \in {"dispatch", "nextq", "feed"} => cur[t] = None
    /\ At(t) \in {"nextq", "feed"} => q[t] = None
    /\ nq[t] # None <=> At(t) = "pushback"
    /\ new[t] # None => At(t) \in {"mq_create", "init", "retire"}
    /\ At(t) \in {"mq_create", "init"} => new[t] # None
    /\ new[t] # None => cur[t] # Remote
    /\ made[t] # None => At(t) \in Launching \cup Dropping
    /\ At(t) \in Launching => made[t] # None
    /\ At(t) \in Dropping => q[t] # None /\ (made[t] # None <=> cur[t] # None)
    /\ victim[t] # None <=> At(t) = "retire"
    /\ pc[t] \in {"release", "delete"} /\ ret[t] \in {"launched", "failed"} => obj[t] = made[t]

Shape == \A t \in Thread : ShapeOf(t)

\* The counted pointers of the threads, and who points to c; the count of a
\* context is their number, one for the handle table and one for REMOTE.  A
\* thread that deletes a context has given up its pointer.
RPlace == {"cur", "new", "obj"} \X Thread
ObjRef(t) == IF pc[t] = "delete" THEN None ELSE obj[t]
RAt(p) == CASE p[1] = "cur" -> cur[p[2]]
            [] p[1] = "new" -> new[p[2]]
            [] p[1] = "obj" -> ObjRef(p[2])

Held == [p \in RPlace |-> RAt(p)]
Who(h, c) == {p \in RPlace : h[p] = c}
Counts == \A c \in Handle :
    ref[c] = Cardinality(Who(Held, c)) + (IF slot[c] THEN 1 ELSE 0) + Reserved(c)

\* What is pointed to has a count (it follows from Counts).
Pointed == \A c \in Handle :
    \/ slot[c] \/ c = Remote
    \/ \E t \in Thread : c \in {cur[t], new[t], ObjRef(t)}
    => ref[c] # 0

\* A context is freed with its last reference and marks its queue then; the
\* queue is freed later.  A queue that is on nobody's list is empty.
LivesOf(c) ==
    /\ life[c] # "alive" => ref[c] = 0
    /\ release[c] = 1 <=> life[c] = "freed"
    /\ qlife[c] = "freed" => life[c] = "freed"
    /\ life[c] = "none" => qlife[c] = "none"
    /\ qlife[c] = "none" => in_global[c] = 0
    /\ in_global[c] = 0 => mq[c] = << >>
    /\ life[c] # "none" /\ qlife[c] = "none" =>
          \E t \in Thread : new[t] = c /\ pc[t] = "mq_create"

Lives == \A c \in Handle : LivesOf(c)

\* Whoever can be sent to, told of or killed has got its queue.
Existing == {c \in Handle : qlife[c] # "none"} \cup {None}
Reachable ==
    /\ known \cup {Monitor, Remote} \subseteq Existing
    /\ \A t \in Thread :
          /\ obj[t] \in Existing /\ victim[t] \in Existing /\ made[t] \in Existing
          /\ pc[t] # "mq_create" => new[t] \in Existing
          /\ pc[t] = "mq_create" => qlife[new[t]] = "none"
    /\ \A c \in Handle : \A i \in 1 .. Len(mq[c]) : mq[c][i].source \in Existing

\* One thread deletes a context, when there is no reference to it.
Deleting ==
    /\ \A t \in Thread : pc[t] = "delete" => ref[obj[t]] = 0 /\ life[obj[t]] = "alive"
    /\ \A t, u \in Thread : pc[t] = "delete" /\ pc[u] = "delete" /\ obj[t] = obj[u] => t = u

\* The places of a thread that can hold a queue, and what they hold; a worker
\* that only reports its launch no longer has the queue it made.
QPlace == {"q", "nq", "new", "made"} \X Thread
MadeQ(t) == IF pc[t] = "report" THEN None ELSE made[t]
QAt(p) == CASE p[1] = "q" -> q[p[2]]
            [] p[1] = "nq" -> nq[p[2]]
            [] p[1] = "new" -> new[p[2]]
            [] p[1] = "made" -> MadeQ(p[2])

Placed == [p \in QPlace |-> QAt(p)]

\* With the list g and f in these places: no queue is in two of them, and which
\* ones are in any.
UniqueIn(g, f) ==
    /\ \A i, j \in 1 .. Len(g) : g[i] = g[j] => i = j
    /\ \A p, r \in QPlace : f[p] = f[r] /\ f[p] # None => p = r
    /\ \A p \in QPlace : \A i \in 1 .. Len(g) : g[i] # f[p]

OwnedIn(g, f, c) == (\E i \in 1 .. Len(g) : g[i] = c) \/ (\E p \in QPlace : f[p] = c)
Unique == UniqueIn(globalmq, Placed)
Owned(c) == OwnedIn(globalmq, Placed, c)

\* The queues in these places exist, but for the ones about to be created.
Present == \A c \in Handle : Owned(c) =>
    \/ qlife[c] = "alive"
    \/ \E t \in Thread : new[t] = c /\ pc[t] = "mq_create"

\* The flags of a queue say whether it is in one of them; a queue is dropped
\* when its context is gone.
Flagged ==
    /\ \A c \in Handle : qlife[c] = "alive" =>
          (Owned(c) <=> in_global[c] = 1 \/ release[c] = 1)
    /\ \A t \in Thread : At(t) = "drop" => release[Dropped(t)] = 1

\* A registered service has been initialised, or its launch is on the way.
Starting(t, c) == new[t] = c \/ (made[t] = c /\ At(t) \in {"launched", "failed"})
Initialised ==
    /\ \A t \in Thread : cur[t] # None => init[cur[t]]
    /\ \A c \in Handle : slot[c] => init[c] \/ \E t \in Thread : Starting(t, c)

\* The contexts G_NODE.total counts.
Counted == {c \in Handle : life[c] = "alive" /\ qlife[c] # "none" /\ c # Remote}
Totalled == IsFiniteSet(Counted) /\ total = Cardinality(Counted)
IInv == Typed /\ Shape /\ Counts /\ Pointed /\ Lives /\ Reachable /\ Deleting
              /\ Unique /\ Present /\ Flagged /\ Initialised /\ Totalled
=============================================================================
