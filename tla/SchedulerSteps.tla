--------------------------- MODULE SchedulerSteps ---------------------------
(***************************************************************************)
(* What a step of a thread changes and what it leaves alone, and that it   *)
(* keeps the types and the shape of the threads; the places of queues.     *)
(***************************************************************************)
EXTENDS SchedulerInvariant, TLAPS

USE SMTT(100), ZenonT(100)

Put(h, p, v) == [h EXCEPT ![p] = v]

(* Steps, and what they leave alone *)
Sends(t) == \E h \in Handle : Send(t, h)
Exits(t) == \E h \in Handle : Exit(t, h)
Launches(t) == \E h \in Handle : Launch(t, h)
InitEnds(t) == \E r \in {"launched", "failed"} : InitReturns(t, r)
Step(t) == Dispatch(t) \/ DropQueue(t) \/ Finish(t) \/ Service(t) \/ Common(t)

\* Every step of the system is a step of one thread.
LEMMA NextIsStep == Next => \E t \in Thread : Step(t)
BY DEF Next, Step, Thread

\* A step of t leaves the local variables of the other threads alone.
Others(t) == \A u \in Thread : u # t =>
    /\ pc'[u] = pc[u] /\ ret'[u] = ret[u] /\ q'[u] = q[u] /\ nq'[u] = nq[u]
    /\ cur'[u] = cur[u] /\ obj'[u] = obj[u] /\ new'[u] = new[u] /\ made'[u] = made[u]
    /\ victim'[u] = victim[u]

\* A step of a thread changes the variables of that thread only.
LEMMA StepOthers == ASSUME NEW t \in Thread, Typed, Step(t) PROVE Others(t)
<1> TypedPlaces /\ TypedLocals
  BY DEF Typed
<1>1. CASE Dispatch(t)
  BY <1>1, ZenonT(100)
  DEF Dispatch, TakeQueue, GrabContext, PopMessage, MqLength, PopEmpty, NextQueue, Return,
              Rotate, PushBack, Go, locals, TypedPlaces, TypedLocals, Others
<1>2. CASE DropQueue(t)
  BY <1>2, ZenonT(100)
  DEF DropQueue, Requeue, StartDrop, DropMessage, FreeQueue, Forget, Grab, Go, locals,
              TypedPlaces, TypedLocals, Others
<1>3. CASE Finish(t)
  BY <1>3, ZenonT(100)
  DEF Finish, MqCreate, TellName, InitReturns, SetInit, Publish, Report, RetireFailed,
              Go, locals, TypedPlaces, TypedLocals, Others
<1>4. CASE Service(t)
  BY <1>4 DEF Service, HarborSend, Exit, Launch, Grab, Go, locals, TypedPlaces, TypedLocals,
              Others
<1>5. CASE Common(t)
  BY <1>5 DEF Common, Release, Delete, Push, Retire, Send, Grab, Go, locals,
              TypedPlaces, TypedLocals, Others
<1> QED
  BY <1>1, <1>2, <1>3, <1>4, <1>5 DEF Step

\* Which step changes what.
LEMMA Changes ==
    ASSUME NEW t \in Thread, Step(t)
    PROVE  /\ slot' = slot \/ Launches(t) \/ Retire(t) \/ RetireFailed(t)
           /\ \/ ref' = ref \/ GrabContext(t) \/ DropMessage(t) \/ Sends(t) \/ Exits(t)
              \/ Release(t) \/ Launches(t)
           /\ life' = life \/ Launches(t) \/ Delete(t)
           /\ init' = init \/ SetInit(t)
           /\ total' = total \/ MqCreate(t) \/ Delete(t)
           /\ known' = known \/ TellName(t) \/ Report(t)
           /\ mq' = mq \/ PopMessage(t) \/ DropMessage(t) \/ Push(t) \/ HarborSend(t)
           /\ \/ in_global' = in_global \/ PopEmpty(t) \/ FreeQueue(t) \/ Push(t) \/ MqCreate(t)
              \/ HarborSend(t)
           /\ release' = release \/ Delete(t)
           /\ qlife' = qlife \/ MqCreate(t) \/ FreeQueue(t)
           /\ \/ globalmq' = globalmq \/ TakeQueue(t) \/ NextQueue(t) \/ Rotate(t) \/ PushBack(t)
              \/ Requeue(t) \/ Delete(t) \/ Push(t) \/ Publish(t) \/ HarborSend(t)
<1>1. CASE Return(t) \/ StartDrop(t) \/ MqLength(t) \/ InitEnds(t)
  BY <1>1, ZenonT(100) DEF Return, StartDrop, MqLength, InitEnds, InitReturns, contexts, queues
<1>2. CASE TakeQueue(t) \/ NextQueue(t) \/ Rotate(t) \/ PushBack(t) \/ Requeue(t) \/ Publish(t)
  BY <1>2, ZenonT(100) DEF TakeQueue, NextQueue, Rotate, PushBack, Requeue, Publish, contexts
<1>3. CASE GrabContext(t) \/ Release(t)
  BY <1>3, ZenonT(100) DEF GrabContext, Release, queues
<1>4. CASE Sends(t) \/ Exits(t) \/ Launches(t)
  BY <1>4, ZenonT(100) DEF Sends, Exits, Launches, Send, Exit, Launch, queues
<1>5. CASE PopMessage(t) \/ PopEmpty(t) \/ Push(t) \/ HarborSend(t)
  BY <1>5, ZenonT(100) DEF PopMessage, PopEmpty, Push, HarborSend, contexts
<1>6. CASE DropMessage(t) \/ FreeQueue(t)
  BY <1>6, ZenonT(100) DEF DropMessage, FreeQueue, contexts
<1>7. CASE MqCreate(t) \/ TellName(t) \/ SetInit(t) \/ Report(t)
  BY <1>7, ZenonT(100) DEF MqCreate, TellName, SetInit, Report, contexts, queues
<1>8. CASE Retire(t) \/ RetireFailed(t) \/ Delete(t)
  BY <1>8, ZenonT(100) DEF Retire, RetireFailed, Delete, queues
<1> QED
  BY <1>1, <1>2, <1>3, <1>4, <1>5, <1>6, <1>7, <1>8, ZenonT(100)
  DEF Step, Dispatch, DropQueue, Finish, Service, Common, Sends, Exits, Launches, InitEnds

\* The reserved service is one of the services, or there is none.
LEMMA RemoteType == Remote \in Handle \cup {None}
BY RemoteAssumption, InitialAssumption DEF Running

\* What is set at each place is a handle.
LEMMA LocalTypes ==
    ASSUME NEW t \in Thread, Typed, ShapeOf(t)
    PROVE  /\ pc[t] \in Calling => obj[t] \in Handle
           /\ pc[t] \in Serving => q[t] \in Handle /\ cur[t] = q[t]
           /\ pc[t] = "pushback" => nq[t] \in Handle
           /\ pc[t] \in {"mq_create", "init"} => new[t] \in Handle
           /\ pc[t] \in Launching => made[t] \in Handle
           /\ At(t) \in Dropping => Dropped(t) \in Handle /\ q[t] \in Handle
           /\ pc[t] = "retire" => victim[t] \in Handle
           /\ pc[t] \in Pc /\ ret[t] \in Pc
BY NoneAssumption
DEF Typed, TypedPlaces, TypedLocals, ShapeOf, At, Calling, Serving, Launching, Dropping, Dropped

\* The types.  A thread that gives a reference back has one.
LEMMA StepContexts ==
    ASSUME NEW t \in Thread, Typed, ShapeOf(t), Step(t), pc[t] = "release" => ref[obj[t]] # 0
    PROVE  TypedContexts'
<1>1. slot' \in [Handle -> BOOLEAN]
  <2>1. slot \in [Handle -> BOOLEAN]
    BY DEF Typed, TypedContexts
  <2> QED
    BY <2>1, Changes, ZenonT(100) DEF Launches, Launch, Retire, RetireFailed
<1>2. ref' \in [Handle -> Nat]
  <2>1. ref \in [Handle -> Nat] /\ slot \in [Handle -> BOOLEAN]
    BY DEF Typed, TypedContexts
  <2>2. CASE GrabContext(t)
    <3>1. q[t] \in Handle
      BY <2>2 DEF GrabContext, Typed, TypedLocals
    <3> QED
      BY <2>1, <2>2, <3>1 DEF GrabContext
  <2>3. CASE DropMessage(t) \/ Sends(t) \/ Exits(t)
    BY <2>1, <2>3 DEF DropMessage, Sends, Exits, Send, Exit, Grab
  <2>4. CASE Release(t)
    <3>1. obj[t] \in Handle /\ ref[obj[t]] # 0
      BY <2>4, LocalTypes DEF Release, Calling
    <3> QED
      BY <2>1, <2>4, <3>1 DEF Release
  <2>5. CASE Launches(t)
    BY <2>1, <2>5 DEF Launches, Launch
  <2> QED
    BY <2>1, <2>2, <2>3, <2>4, <2>5, Changes, ZenonT(100)
<1>3. life' \in [Handle -> Life]
  <2>1. life \in [Handle -> Life]
    BY DEF Typed, TypedContexts
  <2> QED
    BY <2>1, Changes, ZenonT(100) DEF Launches, Launch, Delete, Life
<1>4. init' \in [Handle -> BOOLEAN]
  <2>1. init \in [Handle -> BOOLEAN]
    BY DEF Typed, TypedContexts
  <2> QED
    BY <2>1, Changes, ZenonT(100) DEF SetInit
<1>5. total' \in Int
  <2>1. total \in Int
    BY DEF Typed, TypedContexts
  <2>2. total' \in {total, total + 1, total - 1}
    BY Changes, ZenonT(100) DEF MqCreate, Delete
  <2> QED
    BY <2>1, <2>2
<1> QED
  BY <1>1, <1>2, <1>3, <1>4, <1>5 DEF TypedContexts

\* The handle of a queue that a step links on the global list.
LEMMA StepQueues == ASSUME NEW t \in Thread, Typed, ShapeOf(t), Step(t) PROVE TypedQueues'
<1>1. qlife' \in [Handle -> Life]
  <2>1. qlife \in [Handle -> Life]
    BY DEF Typed, TypedQueues
  <2> QED
    BY <2>1, Changes, ZenonT(100) DEF MqCreate, FreeQueue, Life
<1>2. mq' \in [Handle -> Seq(Message)]
  <2>1. mq \in [Handle -> Seq(Message)]
    BY DEF Typed, TypedQueues
  <2>2. CASE PopMessage(t)
    <3>1. q[t] \in Handle
      BY <2>2, LocalTypes, ZenonT(100) DEF PopMessage, Serving
    <3> QED
      BY <2>1, <2>2, <3>1 DEF PopMessage
  <2>3. CASE DropMessage(t)
    <3>1. Dropped(t) \in Handle
      BY <2>3, LocalTypes, ZenonT(100) DEF DropMessage, Dropping, At, Calling
    <3> QED
      BY <2>1, <2>3, <3>1 DEF DropMessage
  <2>4. CASE Push(t)
    <3>1. Sender(t) \in Handle \cup {None}
      BY DEF Typed, TypedLocals, Sender, Dropped
    <3>2. \A y \in {"request", "error"} : [source |-> Sender(t), type |-> y] \in Message
      BY <3>1 DEF Message
    <3>3. \E m \in Message : mq' = [mq EXCEPT ![obj[t]] = Append(@, m)]
      BY <2>4, <3>2, ZenonT(100) DEF Push
    <3>4. obj[t] \in Handle
      BY <2>4, LocalTypes, ZenonT(100) DEF Push, Calling
    <3> QED
      BY <2>1, <3>3, <3>4
  <2>5. CASE HarborSend(t)
    <3>1. \A s \in Handle \cup {None} : [source |-> s, type |-> "request"] \in Message
      BY DEF Message
    <3>2. (IF pc[t] = "init" THEN new[t] ELSE cur[t]) \in Handle \cup {None}
      BY DEF Typed, TypedLocals
    <3>3. \E m \in Message : mq' = [mq EXCEPT ![Remote] = Append(@, m)]
      BY <2>5, <3>1, <3>2, ZenonT(100) DEF HarborSend
    <3>4. Remote \in Handle
      BY <2>5, RemoteType, ZenonT(100) DEF HarborSend
    <3> QED
      BY <2>1, <3>3, <3>4
  <2> QED
    BY <2>1, <2>2, <2>3, <2>4, <2>5, Changes
<1>3. in_global' \in [Handle -> {0, 1}]
  <2>1. in_global \in [Handle -> {0, 1}]
    BY DEF Typed, TypedQueues
  <2> QED
    BY <2>1, Changes, ZenonT(100) DEF PopEmpty, FreeQueue, Push, MqCreate, HarborSend
<1>4. release' \in [Handle -> {0, 1}]
  <2>1. release \in [Handle -> {0, 1}]
    BY DEF Typed, TypedQueues
  <2> QED
    BY <2>1, Changes, ZenonT(100) DEF Delete
<1>5. globalmq' \in Seq(Handle)
  <2>1. globalmq \in Seq(Handle)
    BY DEF Typed, TypedQueues
  <2>2. CASE TakeQueue(t) \/ NextQueue(t) \/ Rotate(t)
    BY <2>1, <2>2 DEF TakeQueue, NextQueue, Rotate
  <2>3. CASE PushBack(t)
    <3>1. q[t] \in Handle
      BY <2>3, LocalTypes, ZenonT(100) DEF PushBack, Serving
    <3> QED
      BY <2>1, <2>3, <3>1 DEF PushBack
  <2>4. CASE Requeue(t)
    <3>1. Dropped(t) \in Handle
      BY <2>4, LocalTypes DEF Requeue, Dropping, At, Calling
    <3> QED
      BY <2>1, <2>4, <3>1 DEF Requeue
  <2>5. CASE Delete(t) \/ Push(t)
    <3>1. obj[t] \in Handle
      BY <2>5, LocalTypes, ZenonT(100) DEF Delete, Push, Calling
    <3> QED
      BY <2>1, <2>5, <3>1 DEF Delete, Push, Linked
  <2>6. CASE Publish(t)
    <3>1. made[t] \in Handle
      BY <2>6, LocalTypes, ZenonT(100) DEF Publish, Launching
    <3> QED
      BY <2>1, <2>6, <3>1 DEF Publish
  <2>7. CASE HarborSend(t)
    <3>1. Remote \in Handle
      BY <2>7, RemoteType, ZenonT(100) DEF HarborSend
    <3> QED
      BY <2>1, <2>7, <3>1 DEF HarborSend, Linked
  <2> QED
    BY <2>1, <2>2, <2>3, <2>4, <2>5, <2>6, <2>7, Changes, ZenonT(100)
<1> QED
  BY <1>1, <1>2, <1>3, <1>4, <1>5 DEF TypedQueues

\* The monitor is a service or there is none.
LEMMA MonitorType == Monitor \in Handle \cup {None}
BY MonitorAssumption, InitialAssumption DEF Running

\* A message that waits names a service as its source, or nobody.
LEMMA SourceType ==
    ASSUME Typed, NEW c \in Handle, mq[c] # << >>
    PROVE  Head(mq[c]).source \in Handle \cup {None}
<1>1. mq[c] \in Seq(Message)
  BY DEF Typed, TypedQueues
<1>2. Head(mq[c]) \in Message
  BY <1>1
<1> QED
  BY <1>2 DEF Message

\* A step keeps the types of what says where the threads are.
LEMMA StepPlaces == ASSUME NEW t \in Thread, Typed, ShapeOf(t), Step(t) PROVE TypedPlaces'
<1> TypedPlaces /\ pc[t] \in Pc /\ ret[t] \in Pc
  BY LocalTypes, ZenonT(100) DEF Typed
<1>1. CASE Dispatch(t)
  BY <1>1, ZenonT(100)
  DEF Dispatch, TakeQueue, GrabContext, PopMessage, MqLength, PopEmpty, NextQueue, Return,
              Rotate, PushBack, Go, TypedPlaces, Pc
<1>2. CASE DropQueue(t)
  BY <1>2, ZenonT(100)
  DEF DropQueue, Requeue, StartDrop, DropMessage, FreeQueue, Forget, Grab, Go, TypedPlaces, Pc
<1>3. CASE Finish(t)
  <2>1. CASE MqCreate(t) \/ TellName(t) \/ SetInit(t)
    BY <2>1, ZenonT(100) DEF MqCreate, TellName, SetInit, Go, TypedPlaces, Pc
  <2>2. CASE InitEnds(t)
    <3>1. PICK r \in {"launched", "failed"} : InitReturns(t, r)
      BY <2>2, ZenonT(100) DEF InitEnds
    <3> QED
      BY <3>1 DEF InitReturns, Go, TypedPlaces, Pc
  <2>3. CASE Publish(t) \/ Report(t)
    BY <2>3, ZenonT(100) DEF Publish, Report, Go, TypedPlaces, Pc
  <2>4. CASE RetireFailed(t)
    BY <2>4 DEF RetireFailed, Go, TypedPlaces, Pc
  <2> QED
    BY <1>3, <2>1, <2>2, <2>3, <2>4, ZenonT(100) DEF Finish, InitEnds
<1>4. CASE Service(t)
  BY <1>4, ZenonT(100) DEF Service, HarborSend, Exit, Launch, Grab, Go, TypedPlaces, Pc
<1>5. CASE Common(t)
  BY <1>5, ZenonT(100) DEF Common, Release, Delete, Push, Retire, Send, Grab, Go, TypedPlaces, Pc
<1> QED
  BY <1>1, <1>2, <1>3, <1>4, <1>5 DEF Step

\* A step keeps the types of the variables of the threads.
LEMMA StepLocals == ASSUME NEW t \in Thread, Typed, ShapeOf(t), Step(t) PROVE TypedLocals'
<1> TypedLocals /\ globalmq \in Seq(Handle)
  BY DEF Typed, TypedQueues
<1>1. CASE Dispatch(t)
  <2>1. CASE TakeQueue(t) \/ GrabContext(t)
    BY <2>1 DEF TakeQueue, GrabContext, TypedLocals
  <2>2. CASE PopMessage(t) \/ MqLength(t)
    BY <2>2, ZenonT(100) DEF PopMessage, MqLength, locals, TypedLocals
  <2>3. CASE PopEmpty(t) \/ Return(t)
    BY <2>3, ZenonT(100) DEF PopEmpty, Return, locals, TypedLocals
  <2>4. CASE NextQueue(t)
    BY <2>4 DEF NextQueue, TypedLocals
  <2>5. CASE Rotate(t)
    BY <2>5 DEF Rotate, TypedLocals
  <2>6. CASE PushBack(t)
    BY <2>6 DEF PushBack, TypedLocals
  <2> QED
    BY <1>1, <2>1, <2>2, <2>3, <2>4, <2>5, <2>6 DEF Dispatch
<1>2. CASE DropMessage(t)
  <2>1. Head(mq[Dropped(t)]).source \in Handle \cup {None}
    BY <1>2, SourceType, LocalTypes, ZenonT(100) DEF DropMessage, At, Calling, Dropping
  <2> QED
    BY <1>2, <2>1, ZenonT(100) DEF DropMessage, Grab, TypedLocals
<1>3. CASE Requeue(t) \/ StartDrop(t) \/ FreeQueue(t)
  BY <1>3, ZenonT(100) DEF Requeue, StartDrop, FreeQueue, Forget, locals, TypedLocals
<1>4. CASE Finish(t)
  BY <1>4, ZenonT(100)
  DEF Finish, MqCreate, TellName, InitReturns, SetInit, Publish, Report, RetireFailed,
              locals, TypedLocals
<1>5. CASE Service(t)
  BY <1>5, MonitorType DEF Service, HarborSend, Exit, Launch, Grab, locals, TypedLocals
<1>6. CASE Common(t)
  <2>1. CASE Release(t) \/ Delete(t) \/ Push(t)
    BY <2>1, ZenonT(100) DEF Release, Delete, Push, locals, TypedLocals
  <2>2. CASE Retire(t)
    BY <2>2, ZenonT(100) DEF Retire, TypedLocals
  <2>3. CASE Sends(t)
    <3>1. PICK h \in Handle : Send(t, h)
      BY <2>3, ZenonT(100) DEF Sends
    <3>2. UNCHANGED <<q, nq, cur, new, made, victim>> /\ (obj' = obj \/ obj' = [obj EXCEPT ![t] = h])
      BY <3>1, ZenonT(100) DEF Send, Grab
    <3> QED
      BY <3>2 DEF TypedLocals
  <2> QED
    BY <1>6, <2>1, <2>2, <2>3 DEF Common, Sends
<1> QED
  BY <1>1, <1>2, <1>3, <1>4, <1>5, <1>6 DEF Step, DropQueue

\* A step keeps all types; that a release needs a reference keeps ctx->ref a
\* natural number.
LEMMA StepTyped ==
    ASSUME NEW t \in Thread, Typed, ShapeOf(t), Step(t), pc[t] = "release" => ref[obj[t]] # 0
    PROVE  Typed'
<1>1. known' \subseteq Handle
  <2>1. known \subseteq Handle
    BY ZenonT(100) DEF Typed
  <2>2. CASE TellName(t)
    BY <2>1, <2>2, LocalTypes, ZenonT(100) DEF TellName
  <2>3. CASE Report(t)
    BY <2>1, <2>3, LocalTypes, ZenonT(100) DEF Report, Launching
  <2> QED
    BY <2>1, <2>2, <2>3, Changes, ZenonT(100)
<1> QED
  BY <1>1, StepContexts, StepQueues, StepPlaces, StepLocals, ZenonT(100) DEF Typed

\* The local variables of a thread fit the place it is at.
LEMMA StepShapeOf == ASSUME NEW t \in Thread, Typed, ShapeOf(t), Step(t) PROVE ShapeOf(t)'
<1>1. TypedPlaces /\ TypedLocals /\ TypedQueues
  BY DEF Typed
<1>2. CASE TakeQueue(t)
  <2>1. /\ pc[t] = "dispatch" /\ UNCHANGED <<pc, ret, nq, cur, obj, new, made, victim>>
        /\ q'[t] = Head(globalmq) /\ globalmq # << >>
    BY <1>1, <1>2 DEF TakeQueue, Go, TypedLocals
  <2>2. Head(globalmq) \in Handle
    BY <1>1, <2>1 DEF TypedQueues
  <2> QED
    BY <2>1, <2>2, NoneAssumption, ZenonT(100)
    DEF ShapeOf, At, Calling, Serving, Launching, Dropping
<1>3. CASE GrabContext(t)
  BY <1>1, <1>3, NoneAssumption, ZenonT(100)
  DEF GrabContext, Go, ShapeOf, At, Calling, Serving, Launching, Dropping, TypedPlaces,
      TypedLocals
<1>4. CASE PopMessage(t) \/ MqLength(t)
  BY <1>1, <1>4, NoneAssumption, ZenonT(100)
  DEF PopMessage, MqLength, Go, ShapeOf, At, Calling, Serving, Launching, Dropping, TypedPlaces,
      TypedLocals
<1>5. CASE PopEmpty(t)
  BY <1>1, <1>5, NoneAssumption, ZenonT(100)
  DEF PopEmpty, Go, ShapeOf, At, Calling, Serving, Launching, Dropping, TypedPlaces, TypedLocals
<1>6. CASE NextQueue(t) \/ Return(t)
  BY <1>1, <1>6, NoneAssumption, ZenonT(100)
  DEF NextQueue, Return, Go, locals, TypedQueues, ShapeOf, At, Calling, Serving, Launching,
      Dropping, TypedPlaces, TypedLocals
<1>7. CASE Rotate(t)
  <2>1. CASE globalmq = << >>
    <3>1. /\ pc[t] = "rotate" /\ pc'[t] = "release" /\ ret'[t] = "dispatch"
          /\ obj'[t] = cur[t] /\ cur'[t] = None /\ UNCHANGED <<q, nq, new, made, victim>>
      BY <1>1, <1>7, <2>1 DEF Rotate, Go, TypedPlaces, TypedLocals
    <3> QED
      BY <3>1, NoneAssumption, ZenonT(100)
      DEF ShapeOf, At, Calling, Serving, Launching, Dropping
  <2>2. CASE globalmq # << >>
    <3>1. /\ pc[t] = "rotate" /\ pc'[t] = "pushback" /\ nq'[t] = Head(globalmq)
          /\ UNCHANGED <<q, cur, obj, ret, new, made, victim>>
      BY <1>1, <1>7, <2>2, ZenonT(100) DEF Rotate, Go, TypedPlaces, TypedLocals
    <3>2. Head(globalmq) \in Handle
      BY <1>1, <2>2 DEF TypedQueues
    <3> QED
      BY <3>1, <3>2, NoneAssumption, ZenonT(100)
      DEF ShapeOf, At, Calling, Serving, Launching, Dropping
  <2> QED
    BY <2>1, <2>2
<1>8. CASE PushBack(t)
  <2>1. /\ pc[t] = "pushback" /\ pc'[t] = "release" /\ ret'[t] = "dispatch"
        /\ q'[t] = nq[t] /\ nq'[t] = None /\ obj'[t] = cur[t] /\ cur'[t] = None
        /\ UNCHANGED <<new, made, victim>>
    BY <1>1, <1>8, ZenonT(100) DEF PushBack, Go, TypedPlaces, TypedLocals
  <2> QED
    BY <2>1, NoneAssumption, ZenonT(100)
    DEF ShapeOf, At, Calling, Serving, Launching, Dropping
<1>9. CASE Requeue(t) \/ FreeQueue(t)
  <2>1. /\ pc[t] \in {"mq_release", "drop"}
        /\ UNCHANGED <<ret, nq, cur, obj, new, victim>>
        /\ \/ made[t] # None /\ made'[t] = None /\ pc'[t] = "callback" /\ q'[t] = q[t]
           \/ made[t] = None /\ q'[t] = None /\ pc'[t] = "nextq" /\ made'[t] = made[t]
    BY <1>1, <1>9, ZenonT(100) DEF Requeue, FreeQueue, Forget, Go, TypedPlaces, TypedLocals
  <2> QED
    BY <2>1, NoneAssumption, ZenonT(100)
    DEF ShapeOf, At, Calling, Serving, Launching, Dropping
<1>10. CASE StartDrop(t)
  BY <1>1, <1>10, NoneAssumption, ZenonT(100)
  DEF StartDrop, Go, locals, ShapeOf, At, Calling, Serving, Launching, Dropping, TypedPlaces,
      TypedLocals
<1>11. CASE DropMessage(t)
  BY <1>1, <1>11, NoneAssumption, ZenonT(100)
  DEF DropMessage, Grab, Registered, Go, ShapeOf, At, Calling, Serving, Launching, Dropping,
      TypedPlaces, TypedLocals
<1>12. CASE MqCreate(t) \/ TellName(t)
  BY <1>1, <1>12, NoneAssumption, ZenonT(100)
  DEF MqCreate, TellName, Go, locals, ShapeOf, At, Calling, Serving, Launching, Dropping,
      TypedPlaces, TypedLocals
<1>13. CASE InitEnds(t)
  <2>1. /\ pc[t] = "init" /\ pc'[t] = "release" /\ ret'[t] \in {"launched", "failed"}
        /\ obj'[t] = new[t] /\ made'[t] = new[t] /\ new'[t] = None
        /\ UNCHANGED <<q, nq, cur, victim>>
    BY <1>1, <1>13, ZenonT(100) DEF InitEnds, InitReturns, Go, TypedPlaces, TypedLocals
  <2> QED
    BY <2>1, NoneAssumption, ZenonT(100)
    DEF ShapeOf, At, Calling, Serving, Launching, Dropping
<1>14. CASE SetInit(t) \/ Publish(t) \/ Report(t)
  BY <1>1, <1>14, NoneAssumption, ZenonT(100)
  DEF SetInit, Publish, Report, Go, locals, ShapeOf, At, Calling, Serving, Launching, Dropping,
      TypedPlaces, TypedLocals
<1>15. CASE RetireFailed(t)
  <2>1. /\ pc[t] = "failed"
        /\ UNCHANGED <<q, nq, cur, new, made, victim>>
        /\ \/ obj'[t] = made[t] /\ ret'[t] = "mq_release" /\ pc'[t] = "release"
           \/ pc'[t] = "mq_release" /\ UNCHANGED <<obj, ret>>
    BY <1>1, <1>15, ZenonT(100) DEF RetireFailed, Go, TypedPlaces, TypedLocals
  <2> QED
    BY <2>1, NoneAssumption, ZenonT(100)
    DEF ShapeOf, At, Calling, Serving, Launching, Dropping
<1>16. CASE Retire(t)
  <2>1. /\ pc[t] = "retire" /\ victim'[t] = None
        /\ UNCHANGED <<q, nq, cur, new, made>>
        /\ \/ /\ obj'[t] = victim[t] /\ pc'[t] = "release"
              /\ ret'[t] = IF new[t] # None THEN "init" ELSE "callback"
           \/ /\ pc'[t] = IF new[t] # None THEN "init" ELSE "callback"
              /\ UNCHANGED <<obj, ret>>
    BY <1>1, <1>16, ZenonT(100) DEF Retire, Go, TypedPlaces, TypedLocals
  <2> QED
    BY <2>1, NoneAssumption, ZenonT(100)
    DEF ShapeOf, At, Calling, Serving, Launching, Dropping
<1>17. CASE Release(t)
  BY <1>1, <1>17, NoneAssumption, ZenonT(100)
  DEF Release, Go, ShapeOf, At, Calling, Serving, Launching, Dropping, TypedPlaces, TypedLocals
<1>22. CASE Delete(t)
  <2>1. /\ pc[t] = "delete" /\ obj'[t] = None
        /\ pc'[t] = IF ret[t] = "launched" THEN "publish_dead" ELSE ret[t]
        /\ UNCHANGED <<ret, q, nq, cur, new, made, victim>>
    BY <1>1, <1>22, ZenonT(100) DEF Delete, Go, TypedPlaces, TypedLocals
  <2> QED
    BY <2>1, NoneAssumption, ZenonT(100)
    DEF ShapeOf, At, Calling, Serving, Launching, Dropping
<1>18. CASE Push(t)
  BY <1>1, <1>18, NoneAssumption, ZenonT(100)
  DEF Push, Go, locals, ShapeOf, At, Calling, Serving, Launching, Dropping, TypedPlaces,
      TypedLocals
<1>19. CASE Sends(t)
  BY <1>1, <1>19, NoneAssumption, ZenonT(100)
  DEF Sends, Send, Grab, Registered, Go, ShapeOf, At, Calling, Serving, Launching, Dropping,
      TypedPlaces, TypedLocals
<1>20. CASE Exits(t)
  <2>1. PICK h \in Handle : Exit(t, h)
    BY <1>20, ZenonT(100) DEF Exits
  <2>2. /\ pc[t] \in {"callback", "init"} /\ victim'[t] = h
        /\ UNCHANGED <<q, nq, cur, new, made>>
        /\ \/ obj'[t] = Monitor /\ pc'[t] = "push" /\ ret'[t] = "retire" /\ Monitor # None
           \/ pc'[t] = "retire" /\ UNCHANGED <<obj, ret>>
    BY <1>1, <2>1, ZenonT(100), NoneAssumption
    DEF Exit, Grab, Registered, Go, TypedPlaces, TypedLocals
  <2> QED
    BY <2>2, NoneAssumption, ZenonT(100)
    DEF ShapeOf, At, Calling, Serving, Launching, Dropping
<1>21. CASE Launches(t)
  <2>1. /\ pc[t] = "callback" /\ pc'[t] = "mq_create" /\ new'[t] \in Handle
        /\ cur[t] # Remote /\ UNCHANGED <<q, nq, cur, obj, made, victim, ret>>
    BY <1>1, <1>21, ZenonT(100) DEF Launches, Launch, Go, TypedPlaces, TypedLocals
  <2> QED
    BY <2>1, NoneAssumption, ZenonT(100)
    DEF ShapeOf, At, Calling, Serving, Launching, Dropping
<1>23. CASE HarborSend(t)
  BY <1>23, ZenonT(100) DEF HarborSend, locals, ShapeOf, At
<1> QED
  BY <1>2, <1>3, <1>4, <1>5, <1>6, <1>7, <1>8, <1>9, <1>10, <1>11, <1>12, <1>13, <1>14, <1>15,
     <1>16, <1>17, <1>18, <1>19, <1>20, <1>21, <1>22, <1>23, ZenonT(100)
  DEF Step, Dispatch, DropQueue, Finish, Service, Common, Sends, Exits, Launches, InitEnds

\* A step keeps the shape of every thread.
LEMMA StepShape == ASSUME NEW t \in Thread, Typed, Shape, Step(t) PROVE Shape'
<1>1. ShapeOf(t)'
  BY StepShapeOf DEF Shape
<1>2. ASSUME NEW u \in Thread, u # t PROVE ShapeOf(u)'
  <2>1. /\ pc'[u] = pc[u] /\ ret'[u] = ret[u] /\ q'[u] = q[u] /\ nq'[u] = nq[u] /\ cur'[u] = cur[u]
        /\ obj'[u] = obj[u] /\ new'[u] = new[u] /\ made'[u] = made[u] /\ victim'[u] = victim[u]
    BY <1>2, StepOthers, ZenonT(100) DEF Others
  <2>2. ShapeOf(u)
    BY ZenonT(100) DEF Shape
  <2> QED
    BY <2>1, <2>2, ZenonT(100) DEF ShapeOf, At
<1> QED
  BY <1>1, <1>2 DEF Shape

\* A context that is pointed to has a count.
LEMMA Counted1 ==
    ASSUME IInv, NEW c \in Handle,
           \/ slot[c] \/ c = Remote
           \/ \E t \in Thread : c \in {cur[t], new[t], ObjRef(t)}
    PROVE  ref[c] # 0
BY DEF IInv, Pointed

(* The places of queues *)
InQ(t) == <<"q", t>>
NextQ(t) == <<"nq", t>>
NewQ(t) == <<"new", t>>
MadeP(t) == <<"made", t>>
Hands == [QPlace -> Handle \cup {None}]
PlacedIs ==
    /\ Placed \in Hands
    /\ \A t \in Thread :
          /\ InQ(t) \in QPlace /\ Placed[InQ(t)] = q[t]
          /\ NextQ(t) \in QPlace /\ Placed[NextQ(t)] = nq[t]
          /\ NewQ(t) \in QPlace /\ Placed[NewQ(t)] = new[t]
          /\ MadeP(t) \in QPlace /\ Placed[MadeP(t)] = MadeQ(t)

\* The places of queues are the four of each thread.
LEMMA QPlaces ==
    /\ \A t \in Thread : /\ InQ(t) \in QPlace /\ NextQ(t) \in QPlace
                         /\ NewQ(t) \in QPlace /\ MadeP(t) \in QPlace
    /\ \A p \in QPlace : \E t \in Thread : p \in {InQ(t), NextQ(t), NewQ(t), MadeP(t)}
BY DEF QPlace, InQ, NextQ, NewQ, MadeP

\* What is in each of these places.
LEMMA PlacedValues == Typed => PlacedIs
<1> SUFFICES ASSUME Typed PROVE PlacedIs
  OBVIOUS
<1>2. \A t \in Thread : /\ QAt(InQ(t)) = q[t] /\ QAt(NextQ(t)) = nq[t]
                        /\ QAt(NewQ(t)) = new[t] /\ QAt(MadeP(t)) = MadeQ(t)
  BY DEF QAt, InQ, NextQ, NewQ, MadeP
<1>3. \A t \in Thread : /\ q[t] \in Handle \cup {None} /\ nq[t] \in Handle \cup {None}
                        /\ new[t] \in Handle \cup {None} /\ MadeQ(t) \in Handle \cup {None}
  BY DEF Typed, TypedLocals, MadeQ
<1>4. \A p \in QPlace : QAt(p) \in Handle \cup {None}
  BY QPlaces, <1>2, <1>3
<1> QED
  BY QPlaces, <1>2, <1>4, ZenonT(100) DEF Placed, Hands, PlacedIs

\* A queue that is on the list or in a place of its own exists.
LEMMA PlacesAlive ==
    ASSUME IInv, NEW c \in Handle,
           \/ \E i \in 1 .. Len(globalmq) : globalmq[i] = c
           \/ \E t \in Thread : c \in {q[t], nq[t], MadeQ(t)}
    PROVE  qlife[c] = "alive"
<1>1. PlacedIs /\ Unique /\ Present /\ None # c
  BY PlacedValues, NoneAssumption, ZenonT(100) DEF IInv
<1>2. Owned(c)
  BY <1>1, ZenonT(100) DEF Owned, OwnedIn, PlacedIs
<1>3. ASSUME NEW u \in Thread, new[u] = c PROVE FALSE
  <2>1. NewQ(u) \in QPlace /\ Placed[NewQ(u)] = c
    BY <1>1, <1>3, ZenonT(100) DEF PlacedIs
  <2>2. CASE \E i \in 1 .. Len(globalmq) : globalmq[i] = c
    BY <1>1, <2>1, <2>2, ZenonT(100) DEF Unique, UniqueIn
  <2>3. CASE \E t \in Thread : c \in {q[t], nq[t], MadeQ(t)}
    <3>1. PICK t \in Thread : c \in {q[t], nq[t], MadeQ(t)}
      BY <2>3, ZenonT(100)
    <3>2. PICK p \in {InQ(t), NextQ(t), MadeP(t)} : p \in QPlace /\ Placed[p] = c
      BY <1>1, <3>1, ZenonT(100) DEF PlacedIs
    <3>3. p # NewQ(u)
      BY <3>2 DEF InQ, NextQ, MadeP, NewQ
    <3> QED
      BY <1>1, <2>1, <3>2, <3>3, ZenonT(100) DEF Unique, UniqueIn
  <2> QED
    BY <2>2, <2>3
<1> QED
  BY <1>1, <1>2, <1>3, ZenonT(100) DEF Present

\* The queues that a thread dispatches, drops or has made exist.
LEMMA QueuesPresent ==
    ASSUME IInv, NEW t \in Thread
    PROVE  /\ \A c \in {q[t], nq[t], cur[t]} \ {None} : qlife[c] = "alive"
           /\ made[t] # None /\ pc[t] # "report" => qlife[made[t]] = "alive"
           /\ At(t) \in Dropping => qlife[Dropped(t)] = "alive"
<1>1. /\ q[t] \in Handle \cup {None} /\ nq[t] \in Handle \cup {None}
      /\ MadeQ(t) \in Handle \cup {None}
  BY DEF IInv, Typed, TypedLocals, MadeQ
<1>2. ShapeOf(t)
  BY DEF IInv, Shape
<1>3. ASSUME NEW c \in {q[t], nq[t], MadeQ(t)}, c # None PROVE qlife[c] = "alive"
  <2>1. c \in Handle
    BY <1>1, <1>3, ZenonT(100)
  <2> QED
    BY <2>1, PlacesAlive, ZenonT(100)
<1> QED
  BY <1>2, <1>3, ZenonT(100) DEF ShapeOf, MadeQ, Dropped, At, Dropping, Calling

(* The lives of contexts and queues *)
\* Where a thread can do one thing only, it does that next.
LEMMA Waiting ==
    ASSUME NEW t \in Thread, Step(t)
    PROVE  /\ pc[t] = "mq_create" => MqCreate(t)
           /\ pc[t] = "delete" => Delete(t)
           /\ pc[t] = "release" => Release(t)
           /\ pc[t] = "launched" => SetInit(t)
           /\ pc[t] = "failed" => RetireFailed(t)
<1>1. CASE Dispatch(t) \/ DropQueue(t)
  BY <1>1, ZenonT(100)
  DEF Dispatch, TakeQueue, GrabContext, PopMessage, MqLength, PopEmpty, NextQueue, Return,
              Rotate, PushBack, DropQueue, Requeue, StartDrop, DropMessage, FreeQueue
<1>2. CASE Finish(t) \/ Service(t)
  BY <1>2, ZenonT(100)
  DEF Finish, TellName, InitReturns, SetInit, Publish, Report, RetireFailed, MqCreate,
              Service, HarborSend, Exit, Launch
<1>3. CASE Common(t)
  BY <1>3, ZenonT(100) DEF Common, Release, Push, Retire, Send, Delete
<1> QED
  BY <1>1, <1>2, <1>3, ZenonT(100) DEF Step

\* A thread has its counted pointers to living contexts only.
LEMMA PointersAlive ==
    ASSUME IInv, NEW t \in Thread, NEW c \in Handle,
           c \in {cur[t], new[t], obj[t]} \/ slot[c] \/ c = Remote
    PROVE  life[c] = "alive" /\ release[c] = 0
<1>1. LivesOf(c) /\ TypedQueues
  BY DEF IInv, Lives, Typed
<1>2. CASE pc[t] = "delete" /\ obj[t] = c
  BY <1>1, <1>2, ZenonT(100) DEF IInv, Deleting, LivesOf, TypedQueues
<1>3. CASE ~(pc[t] = "delete" /\ obj[t] = c)
  <2>1. slot[c] \/ c = Remote \/ c \in {cur[t], new[t], ObjRef(t)}
    BY <1>3, ZenonT(100) DEF ObjRef
  <2>2. ref[c] # 0
    BY <2>1, Counted1, ZenonT(100) DEF IInv
  <2> QED
    BY <1>1, <2>2 DEF LivesOf, TypedQueues
<1> QED
  BY <1>2, <1>3, ZenonT(100)

\* Who releases a context has a reference to it.
LEMMA ReleaseHeld ==
    ASSUME IInv, NEW t \in Thread, pc[t] = "release"
    PROVE  obj[t] \in Handle /\ ref[obj[t]] # 0
<1>1. obj[t] \in Handle
  BY LocalTypes, ZenonT(100) DEF IInv, Shape, Calling
<1>2. ObjRef(t) = obj[t]
  BY DEF ObjRef
<1> QED
  BY <1>1, <1>2, Counted1 DEF IInv
=============================================================================
