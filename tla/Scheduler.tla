------------------------------ MODULE Scheduler ------------------------------
(***************************************************************************)
(* The core of skynet: services (skynet_context), their message queues,    *)
(* the global list of queues and the threads that serve it.                *)
(*   skynet-src/skynet_mq.c      queues, in_global and release flags       *)
(*   skynet-src/skynet_server.c  reference counts, launch, exit, dispatch  *)
(*   skynet-src/skynet_handle.c  grab and retire                           *)
(*   skynet-src/skynet_harbor.c  the reserved service REMOTE               *)
(* A step is what a thread does under one lock, or with one atomic         *)
(* instruction, together with the thread-local work around it.  A context  *)
(* and its queue are named by the context's handle, which is never reused  *)
(* here (module HandleStorage models how handles are found).  The contents *)
(* of a queue are a sequence: module MessageQueue shows that the circular  *)
(* buffer implements it.                                                   *)
(***************************************************************************)
EXTENDS Integers, Sequences, FiniteSets

CONSTANTS Handle,       \* the handles of all contexts ever created
          Worker,       \* worker threads (thread_worker)
          Feeder,       \* timer and socket threads, which only push messages
          Initial,      \* sequence of the services that run at the start
          Monitor,      \* G_NODE.monitor_exit, or None
          Remote,       \* REMOTE, the harbor service, or None before there is one
          Weight,       \* weight of each worker
          MaxOps,       \* bound: operations services and feeders start
          None

ASSUME ThreadAssumption == Worker \cap Feeder = {} /\ IsFiniteSet(Worker \cup Feeder)
ASSUME NoneAssumption == None \notin Handle
ASSUME InitialAssumption ==
    /\ Initial \in Seq(Handle)
    /\ \A i, j \in 1 .. Len(Initial) : Initial[i] = Initial[j] => i = j
ASSUME WeightAssumption == Weight \in [Worker -> Int]

Thread == Worker \cup Feeder

VARIABLES
    slot,       \* slot[h]: the handle table maps h to its context
    ref,        \* reference count of the context
    life,       \* memory of the context: "none", "alive", "freed"
    init,       \* ctx->init
    total,      \* G_NODE.total
    known,      \* handles other services have been told of
    mq,         \* the messages of the queue
    in_global,  \* 1: on the global list or being dispatched
    release,    \* 1: its context is gone
    qlife,      \* memory of the queue
    globalmq,   \* the global list of queues
    ops,        \* operations started so far
    pc, ret,    \* where the thread is, where release returns to
    q, nq,      \* queues the worker has taken from the global list
    left,       \* messages the worker may still dispatch from q
    cur,        \* context the worker has grabbed to dispatch
    obj,        \* context grabbed to push to, or about to be released
    new,        \* context being initialised
    made,       \* context (no longer referenced) whose launch is finishing
    victim      \* handle about to be retired

contexts == <<slot, ref, life, init, total>>
queues == <<mq, in_global, release, qlife, globalmq>>
locals == <<q, nq, left, cur, obj, new, made, victim>>
vars == <<contexts, known, queues, ops, pc, ret, locals>>

Message == [source : Handle \cup {None}, type : {"request", "error"}]

Go(t, l) == pc' = [pc EXCEPT ![t] = l]

\* The services that run at the start; one of them may watch the exits of others.
Running == {Initial[i] : i \in 1 .. Len(Initial)}
ASSUME MonitorAssumption == Monitor \in Running \cup {None}
ASSUME RemoteAssumption == Remote \in Running \cup {None}

\* skynet_context_reserve, which skynet_harbor_start calls for the harbor service:
\* REMOTE is a reference to it that is released only after the threads have been
\* joined (skynet_harbor_exit), and the service no longer counts in G_NODE.total.
Reserved(h) == IF h = Remote THEN 1 ELSE 0
Uncounted == IF Remote = None THEN 0 ELSE 1

\* The state after the bootstrap: the initial services are registered, their
\* queues hold one message and are on the global list, and the harbor service,
\* which the bootstrap launches in every process, has been reserved.
Init ==
    /\ slot = [h \in Handle |-> h \in Running]
    /\ ref = [h \in Handle |-> (IF h \in Running THEN 1 ELSE 0) + Reserved(h)]
    /\ life = [h \in Handle |-> IF h \in Running THEN "alive" ELSE "none"]
    /\ init = [h \in Handle |-> h \in Running]
    /\ total = Len(Initial) - Uncounted
    /\ known = Running
    /\ mq = [h \in Handle |-> IF h \in Running
                              THEN <<[source |-> None, type |-> "request"]>>
                              ELSE << >>]
    /\ in_global = [h \in Handle |-> IF h \in Running THEN 1 ELSE 0]
    /\ release = [h \in Handle |-> 0]
    /\ qlife = life
    /\ globalmq = Initial
    /\ ops = 0
    /\ pc = [t \in Thread |-> IF t \in Worker THEN "dispatch" ELSE "feed"]
    /\ ret = [t \in Thread |-> "dispatch"]
    /\ left = [t \in Thread |-> 0]
    /\ q = [t \in Thread |-> None] /\ nq = q /\ cur = q /\ obj = q
    /\ new = q /\ made = q /\ victim = q
-----------------------------------------------------------------------------
(* Reference counts *)

\* h is the handle of a registered context (None, the handle 0, never is).
Registered(h) == IF h = None THEN FALSE ELSE slot[h]

\* Mutant: the context is found but not counted.
Grab_Uncounted(t, h, l) ==
    /\ Registered(h)
    /\ obj' = [obj EXCEPT ![t] = h]
    /\ Go(t, l)
    /\ UNCHANGED ref

\* skynet_handle_grab(h) by t, which then goes to l: the context found in the
\* table becomes obj[t].
Grab(t, h, l) ==
    /\ Registered(h)
    /\ ref' = [ref EXCEPT ![h] = @ + 1]
    /\ obj' = [obj EXCEPT ![t] = h]
    /\ Go(t, l)

\* skynet_context_release: one atomic decrement; the thread that reaches 0
\* deletes the context.
Release(t) ==
    LET c == obj[t] IN
    /\ pc[t] = "release"
    /\ ref' = [ref EXCEPT ![c] = @ - 1]
    /\ IF ref[c] = 1 THEN Go(t, "delete") /\ UNCHANGED obj
                     ELSE Go(t, ret[t]) /\ obj' = [obj EXCEPT ![t] = None]
    /\ UNCHANGED <<slot, life, init, total, known, queues, ops, ret>>
    /\ UNCHANGED <<q, nq, left, cur, new, made, victim>>

\* Mutants: a queue is linked without looking at in_global, or not at all.
Linked_Always(c) == Append(globalmq, c)
Linked_Never(c) == globalmq

\* The global list after queue c has been linked on it, which is done (by
\* skynet_mq_push and skynet_mq_mark_release) only when nobody has c.
Linked(c) == IF in_global[c] = 0 THEN Append(globalmq, c) ELSE globalmq

\* delete_context: skynet_mq_mark_release hands the queue to whoever holds it,
\* or links it on the global list; then the context is freed.
Delete(t) ==
    LET c == obj[t] IN
    /\ pc[t] = "delete"
    /\ release' = [release EXCEPT ![c] = 1]
    /\ globalmq' = Linked(c)
    /\ life' = [life EXCEPT ![c] = "freed"]
    /\ total' = total - 1
    /\ obj' = [obj EXCEPT ![t] = None]
    /\ Go(t, IF ret[t] = "launched" THEN "publish_dead" ELSE ret[t])
    /\ UNCHANGED <<slot, ref, init, known, mq, in_global, qlife, ops, ret>>
    /\ UNCHANGED <<q, nq, left, cur, new, made, victim>>
-----------------------------------------------------------------------------
(* skynet_context_message_dispatch *)

\* skynet_globalmq_pop by a worker that has no queue.
TakeQueue(t) ==
    /\ pc[t] = "dispatch" /\ q[t] = None
    /\ globalmq # << >>
    /\ q' = [q EXCEPT ![t] = Head(globalmq)]
    /\ globalmq' = Tail(globalmq)
    /\ UNCHANGED <<contexts, known, mq, in_global, release, qlife, ops, pc, ret>>
    /\ UNCHANGED <<nq, left, cur, obj, new, made, victim>>

\* skynet_handle_grab of the queue's service, which may be gone.
GrabContext(t) ==
    LET c == q[t] IN
    /\ pc[t] = "dispatch" /\ c # None
    /\ IF slot[c] THEN /\ ref' = [ref EXCEPT ![c] = @ + 1]
                       /\ cur' = [cur EXCEPT ![t] = c]
                       /\ Go(t, "pop_first")
                  ELSE Go(t, "mq_release") /\ UNCHANGED <<ref, cur>>
    /\ UNCHANGED <<slot, life, init, total, known, queues, ops, ret>>
    /\ UNCHANGED <<q, nq, left, obj, new, made, victim>>

\* skynet_mq_pop finds a message; the first one decides how many follow.
PopMessage(t) ==
    LET c == q[t] IN
    /\ pc[t] \in {"pop_first", "pop"}
    /\ mq[c] # << >>
    /\ mq' = [mq EXCEPT ![c] = Tail(@)]
    /\ left' = [left EXCEPT ![t] = IF pc[t] = "pop" THEN @ - 1 ELSE 0]
    /\ Go(t, IF pc[t] = "pop_first" /\ Weight[t] >= 0 THEN "length" ELSE "callback")
    /\ UNCHANGED <<contexts, known, in_global, release, qlife, globalmq, ops, ret>>
    /\ UNCHANGED <<q, nq, cur, obj, new, made, victim>>

\* n = skynet_mq_length(q) >> weight, in a lock region of its own; the loop
\* runs at least once.
MqLength(t) ==
    LET n == Len(mq[q[t]]) \div 2^Weight[t] IN
    /\ pc[t] = "length"
    /\ left' = [left EXCEPT ![t] = IF n > 0 THEN n - 1 ELSE 0]
    /\ Go(t, "callback")
    /\ UNCHANGED <<contexts, known, queues, ops, ret>>
    /\ UNCHANGED <<q, nq, cur, obj, new, made, victim>>

\* skynet_mq_pop finds nothing: the worker no longer has the queue and
\* releases the context before it asks for another one.
PopEmpty(t) ==
    LET c == q[t] IN
    /\ pc[t] \in {"pop_first", "pop"}
    /\ mq[c] = << >>
    /\ in_global' = [in_global EXCEPT ![c] = 0]
    /\ q' = [q EXCEPT ![t] = None]
    /\ obj' = [obj EXCEPT ![t] = cur[t]]
    /\ cur' = [cur EXCEPT ![t] = None]
    /\ ret' = [ret EXCEPT ![t] = "nextq"]
    /\ Go(t, "release")
    /\ UNCHANGED <<contexts, known, mq, release, qlife, globalmq, ops>>
    /\ UNCHANGED <<nq, left, new, made, victim>>

\* return skynet_globalmq_pop(): the result is the worker's next queue.
NextQueue(t) ==
    /\ pc[t] = "nextq"
    /\ IF globalmq = << >>
       THEN UNCHANGED <<q, globalmq>>
       ELSE /\ q' = [q EXCEPT ![t] = Head(globalmq)]
            /\ globalmq' = Tail(globalmq)
    /\ Go(t, "dispatch")
    /\ UNCHANGED <<contexts, known, mq, in_global, release, qlife, ops, ret>>
    /\ UNCHANGED <<nq, left, cur, obj, new, made, victim>>

\* The callback returns: on to the next message, or out of the loop.
Return(t) ==
    /\ pc[t] = "callback"
    /\ Go(t, IF left[t] > 0 THEN "pop" ELSE "rotate")
    /\ UNCHANGED <<contexts, known, queues, ops, ret, locals>>

\* nq = skynet_globalmq_pop() after the loop; without another queue the worker
\* keeps q.
Rotate(t) ==
    /\ pc[t] = "rotate"
    /\ IF globalmq = << >>
       THEN /\ obj' = [obj EXCEPT ![t] = cur[t]]
            /\ cur' = [cur EXCEPT ![t] = None]
            /\ ret' = [ret EXCEPT ![t] = "dispatch"]
            /\ Go(t, "release")
            /\ UNCHANGED <<nq, globalmq>>
       ELSE /\ nq' = [nq EXCEPT ![t] = Head(globalmq)]
            /\ globalmq' = Tail(globalmq)
            /\ Go(t, "pushback")
            /\ UNCHANGED <<obj, cur, ret>>
    /\ UNCHANGED <<contexts, known, mq, in_global, release, qlife, ops>>
    /\ UNCHANGED <<q, left, new, made, victim>>

\* skynet_globalmq_push(q); q = nq.
PushBack(t) ==
    /\ pc[t] = "pushback"
    /\ globalmq' = Append(globalmq, q[t])
    /\ q' = [q EXCEPT ![t] = nq[t]]
    /\ nq' = [nq EXCEPT ![t] = None]
    /\ obj' = [obj EXCEPT ![t] = cur[t]]
    /\ cur' = [cur EXCEPT ![t] = None]
    /\ ret' = [ret EXCEPT ![t] = "dispatch"]
    /\ Go(t, "release")
    /\ UNCHANGED <<contexts, known, mq, in_global, release, qlife, ops>>
    /\ UNCHANGED <<left, new, made, victim>>
-----------------------------------------------------------------------------
(* skynet_mq_release: called by a worker whose queue has no service any     *)
(* more, and by a failed launch for the queue it made.                      *)

Dropped(t) == IF made[t] # None THEN made[t] ELSE q[t]

\* The end of skynet_mq_release: t no longer has the queue.
Forget(t) ==
    /\ IF made[t] # None
       THEN made' = [made EXCEPT ![t] = None] /\ Go(t, "callback") /\ UNCHANGED q
       ELSE q' = [q EXCEPT ![t] = None] /\ Go(t, "nextq") /\ UNCHANGED made
    /\ UNCHANGED <<nq, left, cur, obj, new, victim>>

\* Mutant: a queue that cannot be dropped yet is forgotten.
Requeue_Forgets(t) ==
    /\ pc[t] = "mq_release" /\ release[Dropped(t)] = 0
    /\ Forget(t)
    /\ UNCHANGED <<contexts, known, queues, ops, ret>>

\* Someone still references the context: back on the global list.
Requeue(t) ==
    /\ pc[t] = "mq_release" /\ release[Dropped(t)] = 0
    /\ globalmq' = Append(globalmq, Dropped(t))
    /\ Forget(t)
    /\ UNCHANGED <<contexts, known, mq, in_global, release, qlife, ops, ret>>

\* Mutant: the queue is dropped while its context is still referenced.
StartDrop_Early(t) ==
    /\ pc[t] = "mq_release"
    /\ Go(t, "drop")
    /\ UNCHANGED <<contexts, known, queues, ops, ret, locals>>

\* The context is gone: drop the queue.
StartDrop(t) ==
    /\ pc[t] = "mq_release" /\ release[Dropped(t)] = 1
    /\ Go(t, "drop")
    /\ UNCHANGED <<contexts, known, queues, ops, ret, locals>>

\* _drop_queue pops a message, and drop_message reports an error to its
\* source, if there is one that is still registered.
DropMessage(t) ==
    LET c == Dropped(t)
        s == Head(mq[c]).source
    IN  /\ pc[t] = "drop" /\ mq[c] # << >>
        /\ mq' = [mq EXCEPT ![c] = Tail(@)]
        /\ \/ Grab(t, s, "push") /\ ret' = [ret EXCEPT ![t] = "drop"]
           \/ ~Registered(s) /\ UNCHANGED <<ref, obj, pc, ret>>
        /\ UNCHANGED <<slot, life, init, total, known>>
        /\ UNCHANGED <<in_global, release, qlife, globalmq, ops>>
        /\ UNCHANGED <<q, nq, left, cur, new, made, victim>>

\* _drop_queue finds the queue empty and frees it.
FreeQueue(t) ==
    LET c == Dropped(t) IN
    /\ pc[t] = "drop" /\ mq[c] = << >>
    /\ in_global' = [in_global EXCEPT ![c] = 0]
    /\ qlife' = [qlife EXCEPT ![c] = "freed"]
    /\ Forget(t)
    /\ UNCHANGED <<contexts, known, mq, release, globalmq, ops, ret>>
-----------------------------------------------------------------------------
(* What a service's code may do, in its callback or in its init function.   *)

Reach(t) == known \cup ({cur[t], new[t]} \ {None})

StartOp == ops < MaxOps /\ ops' = ops + 1

\* skynet_context_push, also by the timer and socket threads: grab the
\* destination, push, release.  A dead destination is reported to the caller.
Send(t, d) ==
    /\ pc[t] \in {"callback", "init", "feed"}
    /\ d \in Reach(t)
    /\ StartOp
    /\ \/ Grab(t, d, "push") /\ ret' = [ret EXCEPT ![t] = pc[t]]
       \/ ~Registered(d) /\ UNCHANGED <<ref, obj, pc, ret>>
    /\ UNCHANGED <<slot, life, init, total, known, queues>>
    /\ UNCHANGED <<q, nq, left, cur, new, made, victim>>

Sender(t) == CASE ret[t] = "drop" -> Dropped(t)
               [] ret[t] = "retire" -> victim[t]
               [] ret[t] = "init" -> new[t]
               [] OTHER -> cur[t]

\* skynet_mq_push; a queue that is nowhere is linked on the global list.
Push(t) ==
    LET c == obj[t]
        m == [source |-> Sender(t),
              type |-> IF ret[t] = "drop" THEN "error" ELSE "request"]
    IN  /\ pc[t] = "push"
        /\ mq' = [mq EXCEPT ![c] = Append(@, m)]
        /\ in_global' = [in_global EXCEPT ![c] = 1]
        /\ globalmq' = Linked(c)
        /\ Go(t, "release")
        /\ UNCHANGED <<contexts, known, release, qlife, ops, ret, locals>>

\* skynet_harbor_send, for a destination in another process: the message goes to
\* REMOTE through the reserved pointer, without a grab and whether or not the
\* harbor service is still registered.
HarborSend(t) ==
    LET m == [source |-> IF pc[t] = "init" THEN new[t] ELSE cur[t], type |-> "request"]
    IN  /\ pc[t] \in {"callback", "init"}
        /\ Remote # None
        /\ StartOp
        /\ mq' = [mq EXCEPT ![Remote] = Append(@, m)]
        /\ in_global' = [in_global EXCEPT ![Remote] = 1]
        /\ globalmq' = Linked(Remote)
        /\ UNCHANGED <<contexts, known, release, qlife, pc, ret, locals>>

\* handle_exit(context, h), for EXIT and KILL: tell the monitor, then retire.  The
\* harbor service only sends (service_harbor.c).
Exit(t, h) ==
    /\ pc[t] \in {"callback", "init"} /\ cur[t] # Remote
    /\ h \in Reach(t)
    /\ StartOp
    /\ victim' = [victim EXCEPT ![t] = h]
    /\ \/ Grab(t, Monitor, "push") /\ ret' = [ret EXCEPT ![t] = "retire"]
       \/ ~Registered(Monitor) /\ Go(t, "retire") /\ UNCHANGED <<ref, obj, ret>>
    /\ UNCHANGED <<slot, life, init, total, known, queues>>
    /\ UNCHANGED <<q, nq, left, cur, new, made>>

\* skynet_handle_retire: the table's reference passes to the thread, which
\* releases it outside the table's lock.
Retire(t) ==
    LET h == victim[t]
        back == IF new[t] # None THEN "init" ELSE "callback"
    IN  /\ pc[t] = "retire"
        /\ slot' = [slot EXCEPT ![h] = FALSE]
        /\ IF slot[h] THEN /\ obj' = [obj EXCEPT ![t] = h]
                           /\ ret' = [ret EXCEPT ![t] = back]
                           /\ Go(t, "release")
                      ELSE Go(t, back) /\ UNCHANGED <<obj, ret>>
        /\ victim' = [victim EXCEPT ![t] = None]
        /\ UNCHANGED <<ref, life, init, total, known, queues, ops>>
        /\ UNCHANGED <<q, nq, left, cur, new, made>>
-----------------------------------------------------------------------------
(* skynet_context_new *)

\* The context is allocated with two references, the table's and the
\* creator's, and registered.
Launch(t, h) ==
    /\ pc[t] = "callback" /\ cur[t] # Remote /\ life[h] = "none"
    /\ StartOp
    /\ slot' = [slot EXCEPT ![h] = TRUE]
    /\ ref' = [ref EXCEPT ![h] = 2]
    /\ life' = [life EXCEPT ![h] = "alive"]
    /\ new' = [new EXCEPT ![t] = h]
    /\ Go(t, "mq_create")
    /\ UNCHANGED <<init, total, known, queues, ret>>
    /\ UNCHANGED <<q, nq, left, cur, obj, made, victim>>

\* Mutant: the new queue is not marked, so a push during init links it.
MqCreate_Unmarked(t) ==
    LET h == new[t] IN
    /\ pc[t] = "mq_create"
    /\ qlife' = [qlife EXCEPT ![h] = "alive"]
    /\ in_global' = [in_global EXCEPT ![h] = 0]
    /\ total' = total + 1
    /\ Go(t, "init")
    /\ UNCHANGED <<slot, ref, life, init, known, mq, release, globalmq, ops, ret, locals>>

\* Mutant: the new context is not counted in G_NODE.total.
MqCreate_NotCounted(t) ==
    LET h == new[t] IN
    /\ pc[t] = "mq_create"
    /\ qlife' = [qlife EXCEPT ![h] = "alive"]
    /\ in_global' = [in_global EXCEPT ![h] = 1]
    /\ Go(t, "init")
    /\ UNCHANGED <<contexts, known, mq, release, globalmq, ops, ret, locals>>

\* skynet_mq_create with in_global set, then context_inc.
MqCreate(t) ==
    LET h == new[t] IN
    /\ pc[t] = "mq_create"
    /\ qlife' = [qlife EXCEPT ![h] = "alive"]
    /\ in_global' = [in_global EXCEPT ![h] = 1]
    /\ total' = total + 1
    /\ Go(t, "init")
    /\ UNCHANGED <<slot, ref, life, init, known, mq, release, globalmq, ops, ret, locals>>

\* The init function publishes the service's handle (command REG with a name).
TellName(t) ==
    /\ pc[t] = "init"
    /\ known' = known \cup {new[t]}
    /\ UNCHANGED <<contexts, queues, ops, pc, ret, locals>>

\* The init function returns, with success or not; the creator's reference is
\* dropped, the pointers it keeps (ctx and queue) are not counted.
InitReturns(t, result) ==
    /\ pc[t] = "init"
    /\ obj' = [obj EXCEPT ![t] = new[t]]
    /\ made' = [made EXCEPT ![t] = new[t]]
    /\ new' = [new EXCEPT ![t] = None]
    /\ ret' = [ret EXCEPT ![t] = result]
    /\ Go(t, "release")
    /\ UNCHANGED <<contexts, known, queues, ops>>
    /\ UNCHANGED <<q, nq, left, cur, victim>>

\* ctx->init = true, through a pointer that is no longer counted; a write to
\* memory that has been freed changes no context.
SetInit(t) ==
    LET h == made[t] IN
    /\ pc[t] = "launched"
    /\ init' = [init EXCEPT ![h] = life[h] = "alive"]
    /\ Go(t, "publish")
    /\ UNCHANGED <<slot, ref, life, total, known, queues, ops, ret, locals>>

\* skynet_globalmq_push(queue): from now on workers dispatch the service, or
\* drop the queue of one that died during its launch.
Publish(t) ==
    LET h == made[t] IN
    /\ pc[t] \in {"publish", "publish_dead"}
    /\ globalmq' = Append(globalmq, h)
    /\ IF pc[t] = "publish"
       THEN Go(t, "report") /\ UNCHANGED made
       ELSE Go(t, "callback") /\ made' = [made EXCEPT ![t] = None]
    /\ UNCHANGED <<contexts, known, mq, in_global, release, qlife, ops, ret>>
    /\ UNCHANGED <<q, nq, left, cur, obj, new, victim>>

\* skynet_error(ret, "LAUNCH") and id_to_hex(inst->handle) in cmd_launch read
\* the handle through the uncounted pointer and tell it to the launcher.
Report(t) ==
    /\ pc[t] = "report"
    /\ known' = known \cup {made[t]}
    /\ made' = [made EXCEPT ![t] = None]
    /\ Go(t, "callback")
    /\ UNCHANGED <<contexts, queues, ops, ret>>
    /\ UNCHANGED <<q, nq, left, cur, obj, new, victim>>

\* The failed launch retires the handle, then releases the queue.
RetireFailed(t) ==
    LET h == made[t] IN
    /\ pc[t] = "failed"
    /\ slot' = [slot EXCEPT ![h] = FALSE]
    /\ IF slot[h] THEN /\ obj' = [obj EXCEPT ![t] = h]
                       /\ ret' = [ret EXCEPT ![t] = "mq_release"]
                       /\ Go(t, "release")
                  ELSE Go(t, "mq_release") /\ UNCHANGED <<obj, ret>>
    /\ UNCHANGED <<ref, life, init, total, known, queues, ops>>
    /\ UNCHANGED <<q, nq, left, cur, new, made, victim>>
-----------------------------------------------------------------------------
Dispatch(t) ==
    \/ TakeQueue(t) \/ GrabContext(t) \/ PopMessage(t) \/ MqLength(t)
    \/ PopEmpty(t) \/ NextQueue(t) \/ Return(t) \/ Rotate(t) \/ PushBack(t)

DropQueue(t) == Requeue(t) \/ StartDrop(t) \/ DropMessage(t) \/ FreeQueue(t)

Finish(t) ==
    \/ MqCreate(t) \/ TellName(t)
    \/ \E result \in {"launched", "failed"} : InitReturns(t, result)
    \/ SetInit(t) \/ Publish(t) \/ Report(t) \/ RetireFailed(t)

Service(t) == HarborSend(t) \/ \E h \in Handle : Exit(t, h) \/ Launch(t, h)

Common(t) ==
    \/ Release(t) \/ Delete(t) \/ Push(t) \/ Retire(t)
    \/ \E h \in Handle : Send(t, h)

Next ==
    \/ \E t \in Worker : Dispatch(t) \/ DropQueue(t) \/ Finish(t) \/ Service(t)
    \/ \E t \in Thread : Common(t)

Spec == Init /\ [][Next]_vars

\* A thread that has started an operation goes on; only the decision of the
\* timer and socket threads to send is left open.  A callback that returns is
\* the services' obligation, here met because operations are bounded.
Obliged(t) ==
    /\ pc[t] # "feed"
    /\ \/ t \in Worker /\ (Dispatch(t) \/ DropQueue(t) \/ Finish(t))
       \/ Common(t)

FairSpec == Spec /\ \A t \in Thread : WF_vars(Obliged(t))
-----------------------------------------------------------------------------
Pc == {"dispatch", "pop_first", "pop", "length", "callback", "rotate",
       "pushback", "nextq", "mq_release", "drop", "feed", "push", "release",
       "delete", "retire", "mq_create", "init", "launched", "publish",
       "publish_dead", "report", "failed"}

Life == {"none", "alive", "freed"}

\* Type invariant.
TypeOK ==
    /\ slot \in [Handle -> BOOLEAN] /\ init \in [Handle -> BOOLEAN]
    /\ ref \in [Handle -> Nat] /\ total \in Int
    /\ life \in [Handle -> Life] /\ qlife \in [Handle -> Life]
    /\ known \subseteq Handle
    /\ mq \in [Handle -> Seq(Message)]
    /\ in_global \in [Handle -> {0, 1}] /\ release \in [Handle -> {0, 1}]
    /\ globalmq \in Seq(Handle)
    /\ ops \in 0 .. MaxOps
    /\ pc \in [Thread -> Pc] /\ ret \in [Thread -> Pc]
    /\ left \in [Thread -> Nat]
    /\ \A r \in {q, nq, cur, obj, new, made, victim} :
          r \in [Thread -> Handle \cup {None}]

\* The places that hold queue c: positions of the global list, the workers'
\* q and nq, and the creator until it publishes the queue.
Owners(c) ==
    {<<"globalmq", i>> : i \in {j \in 1 .. Len(globalmq) : globalmq[j] = c}}
    \cup {<<"q", t>> : t \in {u \in Thread : q[u] = c}}
    \cup {<<"nq", t>> : t \in {u \in Thread : nq[u] = c}}
    \cup {<<"new", t>> : t \in {u \in Thread : new[u] = c}}
    \cup {<<"made", t>> : t \in {u \in Thread : made[u] = c /\ pc[u] # "report"}}

\* A queue is in one place at a time: it is never linked twice on the global
\* list (assert(queue->next == NULL) in skynet_globalmq_push and _release) and
\* never in the hands of two workers.
SingleOwner == \A c \in Handle : Cardinality(Owners(c)) <= 1

\* A queue that is in no place is empty, marks itself so (in_global = 0) and
\* still has its context: the next push, or the deletion of the context, puts
\* it on the global list.  No message waits where no worker looks.
NoStrandedQueue ==
    \A c \in Handle : qlife[c] = "alive" /\ Owners(c) = {} =>
        /\ mq[c] = << >>
        /\ in_global[c] = 0 /\ release[c] = 0
        /\ life[c] = "alive"

\* A queue that may have messages is in exactly one place where a worker will
\* find it, or out of all of them with nothing in it.
OneOwner == SingleOwner /\ NoStrandedQueue

\* The references to context c: the handle table's, REMOTE and the threads'.
Holders(c) ==
    {<<"slot", h>> : h \in {g \in {c} : slot[g]}}
    \cup {<<"REMOTE", h>> : h \in {g \in {c} : g = Remote}}
    \cup {<<"cur", t>> : t \in {u \in Thread : cur[u] = c}}
    \cup {<<"new", t>> : t \in {u \in Thread : new[u] = c}}
    \cup {<<"obj", t>> : t \in {u \in Thread : obj[u] = c /\ pc[u] # "delete"}}

\* ctx->ref counts the references that exist, in every interleaving of grab,
\* retire and release.
RefCounted ==
    \A c \in Handle : /\ IsFiniteSet(Holders(c))
                      /\ ref[c] = Cardinality(Holders(c))

\* No thread follows a counted pointer to a context that has been freed, nor a
\* pointer to a queue that has been freed (or not been created).  The pointer
\* skynet_context_new keeps after its release is not counted, see SetInit.  REMOTE
\* is good as long as threads run, though the harbor service may be killed.
NoUseAfterFree ==
    /\ Remote # None => life[Remote] = "alive" /\ qlife[Remote] = "alive"
    /\ \A t \in Thread :
          /\ \A c \in {cur[t], obj[t], new[t]} \ {None} : life[c] = "alive"
          /\ \A c \in {q[t], nq[t]} \ {None} : qlife[c] = "alive"
          /\ made[t] # None /\ pc[t] # "report" => qlife[made[t]] = "alive"
          /\ pc[t] \in {"push", "delete"} => qlife[obj[t]] = "alive"
    /\ \A i \in 1 .. Len(globalmq) : qlife[globalmq[i]] = "alive"

\* t runs code of service c: its callback, its init function or its release
\* function (skynet_module_instance_release in delete_context).
Runs(t, c) ==
    \/ cur[t] = c /\ pc[t] \notin {"pop_first", "pop", "length", "rotate", "pushback"}
    \/ new[t] = c /\ pc[t] # "mq_create"
    \/ obj[t] = c /\ pc[t] = "delete"

\* A service is an actor: its code never runs on two threads at once, what
\* CHECKCALLING_BEGIN asserts when CALLING_CHECK is defined.
ExclusiveService ==
    \A c \in Handle : \A t, u \in Thread : Runs(t, c) /\ Runs(u, c) => t = u

\* assert(ctx->init) in dispatch_message: no message is dispatched to a
\* service before its launch has been completed.
DispatchAfterInit ==
    \A t \in Thread : cur[t] # None => init[cur[t]]

\* What the asserts around a service's callback say: it runs alone, and only
\* once the service is initialised.
RunsAlone == ExclusiveService /\ DispatchAfterInit

\* The threads stop when G_NODE.total is 0 (CHECK_ABORT): then no service but the
\* reserved one, which does not count, is registered, launched or executed by a
\* thread.
AbortIsSafe ==
    total = 0 => /\ \A c \in Handle : slot[c] => c = Remote
                 /\ \A t \in Thread : cur[t] \in {None, Remote} /\ new[t] = None

\* The harbor service has been killed: REMOTE keeps its context until the process
\* ends, so its queue goes round on the global list and is neither dispatched nor
\* dropped.
Kept(c) == c = Remote /\ ~slot[c]

\* Every queue with messages is eventually emptied, by dispatch or by drop, but
\* for the queue of a reserved service that was killed.
Served(c) == mq[c] = << >> \/ Kept(c)
EventuallyServed == \A c \in Handle : []<>Served(c)

\* A service that has left the handle table is eventually freed, and so is its
\* queue: nothing leaks but the reserved service.
Unreclaimed(c) == /\ life[c] # "none" /\ ~slot[c] /\ ~Kept(c)
                  /\ ~(life[c] = "freed" /\ qlife[c] = "freed")
EventuallyReclaimed == \A c \in Handle : []<>~Unreclaimed(c)
=============================================================================
