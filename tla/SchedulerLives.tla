--------------------------- MODULE SchedulerLives ---------------------------
(***************************************************************************)
(* A step keeps what the invariant says of the lives of contexts and       *)
(* queues, of deletions, of who can be reached, and of launches.  It keeps *)
(* every queue in one place at most, lets only queues that exist be there, *)
(* and keeps in_global and release true to it.                             *)
(***************************************************************************)
EXTENDS SchedulerSteps

USE SMTT(100), ZenonT(100)

\* A step keeps the relation between the life of a context and that of its queue.
LEMMA StepLives == ASSUME IInv, NEW t \in Thread, Step(t) PROVE Lives'
<1> SUFFICES ASSUME NEW c \in Handle PROVE LivesOf(c)'
  BY DEF Lives
<1>0. /\ TypedContexts /\ TypedQueues /\ TypedPlaces /\ TypedLocals /\ ShapeOf(t) /\ LivesOf(c)
      /\ Others(t)
  BY StepOthers DEF IInv, Typed, Shape, Lives
<1>1. Delete(t) => obj[t] \in Handle /\ ref[obj[t]] = 0 /\ ObjRef(t) = None
  BY <1>0, LocalTypes DEF IInv, Delete, Deleting, Calling, ObjRef
<1>2. (life[c] # "alive" => ref[c] = 0)'
  <2>1. CASE Launches(t)
    BY <1>0, <2>1 DEF Launches, Launch, TypedContexts, LivesOf
  <2>2. CASE Delete(t)
    BY <1>0, <1>1, <2>2 DEF Delete, TypedContexts, LivesOf
  <2>3. CASE Release(t)
    BY <1>0, <2>3, ReleaseHeld DEF Release, TypedContexts, LivesOf
  <2>4. CASE GrabContext(t)
    <3>1. slot[c] => life[c] = "alive"
      BY PointersAlive
    <3> QED
      BY <1>0, <2>4, <3>1 DEF GrabContext, TypedContexts, LivesOf
  <2>5. CASE DropMessage(t) \/ Sends(t) \/ Exits(t)
    <3>1. slot[c] => life[c] = "alive"
      BY PointersAlive
    <3>2. ref' = ref \/ \E h : Registered(h) /\ ref' = [ref EXCEPT ![h] = @ + 1]
      BY <2>5 DEF DropMessage, Sends, Send, Exits, Exit, Grab
    <3>3. life' = life
      BY <2>5 DEF DropMessage, Sends, Send, Exits, Exit
    <3> QED
      BY <1>0, <3>1, <3>2, <3>3 DEF Registered, TypedContexts, LivesOf
  <2> QED
    BY <1>0, <2>1, <2>2, <2>3, <2>4, <2>5, Changes DEF LivesOf
<1>3. (release[c] = 1 <=> life[c] = "freed")'
  <2>1. CASE Launches(t)
    BY <1>0, <2>1 DEF Launches, Launch, queues, TypedContexts, LivesOf
  <2>2. CASE Delete(t)
    BY <1>0, <1>1, <2>2 DEF Delete, TypedContexts, TypedQueues, LivesOf
  <2> QED
    BY <1>0, <2>1, <2>2, Changes DEF LivesOf
<1>4. (qlife[c] = "freed" => life[c] = "freed")'
  <2>1. life[c] = "freed" => life'[c] = "freed"
    BY <1>0, <1>1, Changes, ZenonT(100) DEF Launches, Launch, Delete, TypedContexts
  <2>2. CASE FreeQueue(t)
    <3>1. Dropped(t) \in Handle /\ release[Dropped(t)] = 1
      BY <1>0, <2>2, LocalTypes, ZenonT(100) DEF IInv, FreeQueue, At, Calling, Dropping, Flagged
    <3> QED
      BY <1>0, <2>1, <2>2, <3>1 DEF FreeQueue, TypedQueues, LivesOf
  <2>3. CASE ~FreeQueue(t)
    BY <1>0, <2>1, <2>3, Changes, ZenonT(100) DEF MqCreate, TypedQueues, LivesOf
  <2> QED
    BY <2>2, <2>3
<1>5. (life[c] = "none" => qlife[c] = "none")'
  <2>1. life'[c] = "none" => life[c] = "none"
    BY <1>0, Changes, ZenonT(100) DEF Launches, Launch, Delete, TypedContexts
  <2>2. MqCreate(t) => new[t] \in Handle /\ life[new[t]] = "alive"
    BY <1>0, LocalTypes, PointersAlive, ZenonT(100) DEF IInv, MqCreate
  <2>3. FreeQueue(t) => Dropped(t) \in Handle /\ qlife[Dropped(t)] = "alive"
    BY <1>0, LocalTypes, QueuesPresent, ZenonT(100) DEF IInv, FreeQueue, At, Calling, Dropping
  <2>4. CASE MqCreate(t)
    BY <1>0, <2>2, <2>4, ZenonT(100) DEF MqCreate, TypedQueues, LivesOf
  <2>5. CASE FreeQueue(t)
    BY <1>0, <2>3, <2>5, ZenonT(100) DEF FreeQueue, contexts, TypedQueues, LivesOf
  <2>6. CASE ~MqCreate(t) /\ ~FreeQueue(t)
    BY <1>0, <2>1, <2>6, Changes, ZenonT(100) DEF LivesOf
  <2> QED
    BY <2>4, <2>5, <2>6
<1>6. (qlife[c] = "none" => in_global[c] = 0)'
  <2>1. /\ Push(t) => qlife[obj[t]] # "none"
        /\ HarborSend(t) => qlife[Remote] # "none"
    BY <1>0, ZenonT(100) DEF Push, HarborSend, IInv, Reachable, Existing, ShapeOf, Calling
  <2>2. qlife'[c] = "none" => qlife[c] = "none"
    BY <1>0, Changes, ZenonT(100) DEF MqCreate, FreeQueue, TypedQueues
  <2>3. CASE MqCreate(t)
    BY <1>0, <2>3, ZenonT(100) DEF MqCreate, TypedQueues, LivesOf
  <2>4. CASE ~MqCreate(t)
    BY <1>0, <2>1, <2>2, <2>4, Changes, ZenonT(100)
    DEF PopEmpty, FreeQueue, Push, HarborSend, TypedQueues, LivesOf
  <2> QED
    BY <2>3, <2>4
<1>7. (in_global[c] = 0 => mq[c] = << >>)'
  <2>1. CASE PopMessage(t) \/ DropMessage(t)
    BY <1>0, <2>1, ZenonT(100) DEF PopMessage, DropMessage, TypedQueues, LivesOf
  <2>2. CASE PopEmpty(t) \/ FreeQueue(t)
    BY <1>0, <2>2 DEF PopEmpty, FreeQueue, TypedQueues, LivesOf
  <2>3. CASE Push(t)
    <3>1. in_global'[c] = (IF c = obj[t] THEN 1 ELSE in_global[c]) /\ (c # obj[t] => mq'[c] = mq[c])
      BY <1>0, <2>3, ZenonT(100) DEF Push, TypedQueues
    <3> QED
      BY <1>0, <3>1 DEF LivesOf
  <2>4. CASE MqCreate(t)
    BY <1>0, <2>4, ZenonT(100) DEF MqCreate, TypedQueues, LivesOf
  <2>5. CASE HarborSend(t)
    <3>1. in_global'[c] = (IF c = Remote THEN 1 ELSE in_global[c]) /\ (c # Remote => mq'[c] = mq[c])
      BY <1>0, <2>5, ZenonT(100) DEF HarborSend, TypedQueues
    <3> QED
      BY <1>0, <3>1 DEF LivesOf
  <2> QED
    BY <1>0, <2>1, <2>2, <2>3, <2>4, <2>5, Changes, ZenonT(100) DEF LivesOf
<1>8. (life[c] # "none" /\ qlife[c] = "none" =>
         \E u \in Thread : new[u] = c /\ pc[u] = "mq_create")'
  <2> SUFFICES ASSUME life'[c] # "none", qlife'[c] = "none"
               PROVE  \E u \in Thread : new'[u] = c /\ pc'[u] = "mq_create"
    OBVIOUS
  <2>1. CASE \E h \in Handle : Launch(t, h) /\ h = c
    BY <1>0, <2>1 DEF Launch, Go, TypedLocals, TypedPlaces
  <2>2. CASE ~ \E h \in Handle : Launch(t, h) /\ h = c
    <3>1. life[c] # "none"
      <4>1. Launches(t) => life'[c] = life[c]
        BY <1>0, <2>2, ZenonT(100) DEF Launches, Launch, TypedContexts
      <4>2. Delete(t) => life[c] = "alive" \/ life'[c] = life[c]
        BY <1>0 DEF Delete, Deleting, IInv, TypedContexts
      <4> QED
        BY <4>1, <4>2, Changes
    <3>2. qlife[c] = "none"
      BY <1>0, Changes, ZenonT(100) DEF MqCreate, FreeQueue, TypedQueues
    <3>3. PICK u \in Thread : new[u] = c /\ pc[u] = "mq_create"
      BY <1>0, <3>1, <3>2 DEF LivesOf
    <3>4. u # t
      BY <1>0, <3>3, Waiting, ZenonT(100) DEF MqCreate, TypedQueues
    <3> QED
      BY <1>0, <3>3, <3>4, ZenonT(100) DEF Others
  <2> QED
    BY <2>1, <2>2
<1> QED
  BY <1>2, <1>3, <1>4, <1>5, <1>6, <1>7, <1>8 DEF LivesOf

\* One thread deletes a context: the one that takes its count to 0.
LEMMA StepDeleting == ASSUME IInv, NEW t \in Thread, Step(t) PROVE Deleting'
<1>0. TypedContexts /\ TypedPlaces /\ TypedLocals /\ ShapeOf(t) /\ Others(t)
  BY StepOthers DEF IInv, Typed, Shape
<1>1. ASSUME NEW u \in Thread, u # t, pc[u] = "delete"
      PROVE  ref'[obj[u]] = 0 /\ life'[obj[u]] = "alive"
  <2>1. obj[u] \in Handle /\ ref[obj[u]] = 0 /\ life[obj[u]] = "alive" /\ ~slot[obj[u]]
    BY <1>1, LocalTypes, Counted1 DEF IInv, Deleting, Shape, Calling
  <2>2. life'[obj[u]] = "alive"
    <3>1. Delete(t) => obj[t] # obj[u]
      BY <1>1 DEF IInv, Deleting, Delete
    <3>2. Launches(t) => life'[obj[u]] = life[obj[u]]
      BY <1>0, <2>1 DEF Launches, Launch, TypedContexts
    <3>3. Delete(t) => life'[obj[u]] = life[obj[u]]
      BY <1>0, <2>1, <3>1, ZenonT(100) DEF Delete, TypedContexts
    <3> QED
      BY <2>1, <3>2, <3>3, Changes, ZenonT(100)
  <2>3. CASE Launches(t)
    BY <1>0, <2>1, <2>3 DEF Launches, Launch, TypedContexts
  <2>4. CASE Release(t)
    BY <1>0, <2>1, <2>4, ReleaseHeld DEF Release, TypedContexts
  <2>5. CASE GrabContext(t)
    BY <1>0, <2>1, <2>5 DEF GrabContext, TypedContexts
  <2>6. CASE DropMessage(t) \/ Sends(t) \/ Exits(t)
    <3>1. ref' = ref \/ \E h : Registered(h) /\ ref' = [ref EXCEPT ![h] = @ + 1]
      BY <2>6, ZenonT(100) DEF DropMessage, Sends, Send, Exits, Exit, Grab
    <3>2. ASSUME NEW h, Registered(h), ref' = [ref EXCEPT ![h] = @ + 1]
          PROVE  ref'[obj[u]] = ref[obj[u]]
      <4>1. h # obj[u]
        BY <2>1, <3>2, NoneAssumption DEF Registered
      <4> QED
        BY <1>0, <2>1, <3>2, <4>1 DEF TypedContexts
    <3> QED
      BY <2>1, <2>2, <3>1, <3>2
  <2> QED
    BY <2>1, <2>2, <2>3, <2>4, <2>5, <2>6, Changes, ZenonT(100)
<1>2. ASSUME pc'[t] = "delete"
      PROVE  Release(t) /\ ref[obj[t]] = 1 /\ obj'[t] = obj[t] /\ obj[t] \in Handle
  <2>1. Release(t)
    <3>1. CASE Dispatch(t) \/ DropQueue(t)
      BY <1>0, <1>2, <3>1, ZenonT(100)
      DEF Dispatch, TakeQueue, GrabContext, PopMessage, MqLength, PopEmpty, NextQueue, Return,
          Rotate, PushBack, DropQueue, Requeue, StartDrop, DropMessage, FreeQueue, Forget, Grab, Go,
          TypedPlaces
    <3>2. CASE Finish(t) \/ Service(t)
      BY <1>0, <1>2, <3>2, ZenonT(100)
      DEF Finish, TellName, InitReturns, SetInit, Publish, Report, RetireFailed, MqCreate,
          Service, HarborSend, Exit, Launch, Grab, Go, TypedPlaces
    <3>3. CASE Common(t)
      BY <1>0, <1>2, <3>3, ZenonT(100)
      DEF Common, Release, Delete, Push, Retire, Send, Grab, Go, TypedPlaces, ShapeOf, Calling
    <3> QED
      BY <3>1, <3>2, <3>3 DEF Step
  <2> QED
    BY <1>0, <1>2, <2>1, LocalTypes, ZenonT(100) DEF IInv, Release, Go, TypedPlaces, ShapeOf, Calling
<1>3. ASSUME pc'[t] = "delete" PROVE ref'[obj'[t]] = 0 /\ life'[obj'[t]] = "alive"
  <2>1. Release(t) /\ ref[obj[t]] = 1 /\ obj'[t] = obj[t] /\ obj[t] \in Handle
    BY <1>2, <1>3
  <2>2. life[obj[t]] = "alive"
    BY <2>1, PointersAlive, ZenonT(100)
  <2> QED
    BY <1>0, <2>1, <2>2 DEF Release, TypedContexts
<1>4. ASSUME NEW u \in Thread, u # t, pc[u] = "delete", pc'[t] = "delete" PROVE obj'[t] # obj[u]
  BY <1>2, <1>4 DEF IInv, Deleting
<1>5. ASSUME NEW u \in Thread, pc'[u] = "delete"
      PROVE  ref'[obj'[u]] = 0 /\ life'[obj'[u]] = "alive"
  BY <1>0, <1>1, <1>3, <1>5, ZenonT(100) DEF Others
<1>6. ASSUME NEW u \in Thread, NEW v \in Thread, pc'[u] = "delete", pc'[v] = "delete",
             obj'[u] = obj'[v]
      PROVE  u = v
  <2>1. CASE u = t \/ v = t
    BY <1>0, <1>4, <1>6, <2>1, ZenonT(100) DEF Others
  <2>2. CASE u # t /\ v # t
    BY <1>0, <1>6, <2>2 DEF Others, IInv, Deleting
  <2> QED
    BY <2>1, <2>2
<1> QED
  BY <1>5, <1>6 DEF Deleting

(* Whoever can be reached has its queue *)
\* A step gives nobody a context without a queue.
LEMMA StepReachable == ASSUME IInv, NEW t \in Thread, Step(t) PROVE Reachable'
<1>0. /\ TypedContexts /\ TypedQueues /\ TypedPlaces /\ TypedLocals /\ ShapeOf(t) /\ Others(t)
  BY StepOthers DEF IInv, Typed, Shape
<1>1. /\ known \cup {Monitor, Remote} \subseteq Existing
      /\ obj[t] \in Existing /\ victim[t] \in Existing /\ made[t] \in Existing
      /\ pc[t] # "mq_create" => new[t] \in Existing
  BY DEF IInv, Reachable
<1>2. Existing \subseteq Existing'
  BY <1>0, Changes, ZenonT(100) DEF Existing, MqCreate, FreeQueue, TypedQueues
<1>3. cur[t] \in Existing /\ (At(t) \in Dropping => Dropped(t) \in Existing)
  <2>1. cur[t] \in Handle \cup {None}
    BY <1>0 DEF TypedLocals
  <2>2. At(t) \in Dropping => Dropped(t) \in Handle
    BY LocalTypes DEF IInv, Shape
  <2> QED
    BY <2>1, <2>2, QueuesPresent DEF Existing
<1>4. pc[t] \notin {"mq_create"} => Reach(t) \subseteq Existing
  BY <1>1, <1>3 DEF Reach
<1>5. known' \cup {Monitor, Remote} \subseteq Existing'
  <2>1. known' \subseteq known \cup Existing
    BY <1>1, Changes, ZenonT(100) DEF TellName, Report
  <2> QED
    BY <1>1, <1>2, <2>1
<1>6. obj'[t] \in Existing'
  <2>1. None \in Existing
    BY DEF Existing
  <2>2. CASE Dispatch(t)
    BY <1>0, <1>1, <1>2, <1>3, <2>2, ZenonT(100)
    DEF Dispatch, TakeQueue, GrabContext, PopMessage, MqLength, PopEmpty, NextQueue, Return,
        Rotate, PushBack, locals, TypedLocals
  <2>3. CASE DropMessage(t)
    <3>1. Dropped(t) \in Handle
      BY <1>0, <2>3, LocalTypes, ZenonT(100) DEF DropMessage, IInv, At, Calling, Dropping
    <3>2. mq[Dropped(t)] \in Seq(Message) /\ mq[Dropped(t)] # << >>
      BY <1>0, <2>3, <3>1 DEF TypedQueues, DropMessage
    <3>3. Head(mq[Dropped(t)]) = mq[Dropped(t)][1] /\ 1 \in 1 .. Len(mq[Dropped(t)])
      BY <3>2
    <3>4. Head(mq[Dropped(t)]).source \in Existing
      BY <3>1, <3>3, ZenonT(100) DEF IInv, Reachable
    <3> QED
      BY <1>0, <1>1, <1>2, <2>3, <3>4, ZenonT(100) DEF DropMessage, Grab, TypedLocals
  <2>4. CASE Requeue(t) \/ StartDrop(t) \/ FreeQueue(t)
    BY <1>1, <1>2, <2>4, ZenonT(100) DEF Requeue, StartDrop, FreeQueue, Forget, locals
  <2>5. CASE Finish(t)
    BY <1>0, <1>1, <1>2, <2>5, ZenonT(100)
    DEF Finish, MqCreate, TellName, InitReturns, SetInit, Publish, Report, RetireFailed,
        locals, TypedLocals
  <2>6. CASE Service(t)
    BY <1>0, <1>1, <1>2, <2>6 DEF Service, HarborSend, Exit, Launch, Grab, locals, TypedLocals
  <2>7. CASE Sends(t)
    BY <1>0, <1>1, <1>2, <1>4, <2>7 DEF Sends, Send, Grab, TypedLocals
  <2>8. CASE Release(t) \/ Delete(t) \/ Push(t) \/ Retire(t)
    BY <1>0, <1>1, <1>2, <2>1, <2>8, ZenonT(100) DEF Release, Delete, Push, Retire, locals, TypedLocals
  <2> QED
    BY <2>2, <2>3, <2>4, <2>5, <2>6, <2>7, <2>8 DEF Step, DropQueue, Common, Sends
<1>7. victim'[t] \in Existing' /\ made'[t] \in Existing'
  <2>1. None \in Existing
    BY DEF Existing
  <2>2. CASE Dispatch(t) \/ DropQueue(t)
    BY <1>0, <1>1, <1>2, <2>1, <2>2, ZenonT(100)
    DEF Dispatch, TakeQueue, GrabContext, PopMessage, MqLength, PopEmpty, NextQueue, Return,
        Rotate, PushBack, DropQueue, Requeue, StartDrop, DropMessage, FreeQueue, Forget,
        locals, TypedLocals
  <2>3. CASE Finish(t)
    BY <1>0, <1>1, <1>2, <2>1, <2>3, ZenonT(100)
    DEF Finish, MqCreate, TellName, InitReturns, SetInit, Publish, Report, RetireFailed,
        locals, TypedLocals
  <2>4. CASE Service(t)
    BY <1>0, <1>1, <1>2, <1>4, <2>4 DEF Service, HarborSend, Exit, Launch, locals, TypedLocals
  <2>5. CASE Common(t)
    BY <1>0, <1>1, <1>2, <2>1, <2>5, ZenonT(100)
    DEF Common, Release, Delete, Push, Retire, Send, locals, TypedLocals
  <2> QED
    BY <2>2, <2>3, <2>4, <2>5, ZenonT(100) DEF Step
<1>8. /\ pc'[t] # "mq_create" => new'[t] \in Existing'
      /\ pc'[t] = "mq_create" => qlife'[new'[t]] = "none"
  <2>1. CASE Launches(t)
    <3>1. PICK h \in Handle : Launch(t, h)
      BY <2>1, ZenonT(100) DEF Launches
    <3>2. qlife[h] = "none"
      BY <3>1, ZenonT(100) DEF IInv, Lives, LivesOf, Launch
    <3> QED
      BY <1>0, <3>1, <3>2 DEF Launch, Go, queues, TypedPlaces, TypedLocals
  <2>2. CASE MqCreate(t)
    <3>1. new[t] \in Handle
      BY <1>0, <2>2, LocalTypes, ZenonT(100) DEF IInv, MqCreate
    <3> QED
      BY <1>0, <2>2, <3>1 DEF MqCreate, Go, locals, TypedPlaces, TypedQueues, Existing
  <2>3. CASE InitEnds(t)
    BY <1>0, <2>3, ZenonT(100) DEF InitEnds, InitReturns, Go, Existing, TypedPlaces, TypedLocals
  <2>4. CASE Dispatch(t) \/ DropQueue(t)
    BY <1>0, <1>1, <1>2, <2>4, ZenonT(100)
    DEF Dispatch, TakeQueue, GrabContext, PopMessage, MqLength, PopEmpty, NextQueue, Return,
        Rotate, PushBack, DropQueue, Requeue, StartDrop, DropMessage, FreeQueue, Forget, Grab, Go,
        locals, TypedPlaces
  <2>5. CASE TellName(t) \/ SetInit(t) \/ Publish(t) \/ Report(t) \/ RetireFailed(t) \/ Exits(t)
             \/ HarborSend(t)
    BY <1>0, <1>1, <1>2, <2>5, ZenonT(100)
    DEF TellName, SetInit, Publish, Report, RetireFailed, HarborSend, Exits, Exit, Grab, Go, locals,
        TypedPlaces
  <2>6. CASE Common(t)
    BY <1>0, <1>1, <1>2, <2>6, ZenonT(100)
    DEF Common, Release, Delete, Push, Retire, Send, Grab, Go, locals, TypedPlaces, ShapeOf, Calling
  <2> QED
    BY <2>1, <2>2, <2>3, <2>4, <2>5, <2>6, ZenonT(100)
    DEF Step, Finish, Service, Launches, Exits, InitEnds
<1>9. ASSUME NEW u \in Thread, u # t, pc[u] = "mq_create" PROVE qlife'[new[u]] = "none"
  <2>1. qlife[new[u]] = "none" /\ new[u] \in Handle
    BY <1>9, LocalTypes, ZenonT(100) DEF IInv, Reachable, Shape
  <2>2. MqCreate(t) => new[t] # new[u]
    <3>1. NewQ(t) # NewQ(u)
      BY <1>9 DEF NewQ
    <3>2. PlacedIs /\ UniqueIn(globalmq, Placed)
      BY PlacedValues, ZenonT(100) DEF IInv, Unique
    <3>3. /\ NewQ(t) \in QPlace /\ Placed[NewQ(t)] = new[t]
          /\ NewQ(u) \in QPlace /\ Placed[NewQ(u)] = new[u]
      BY <3>2, ZenonT(100) DEF PlacedIs
    <3>4. new[u] # None
      BY <2>1, NoneAssumption
    <3> QED
      BY <3>1, <3>2, <3>3, <3>4, ZenonT(100) DEF UniqueIn
  <2>3. FreeQueue(t) => qlife[Dropped(t)] = "alive"
    BY QueuesPresent, ZenonT(100) DEF FreeQueue, At, Calling, Dropping
  <2> QED
    BY <1>0, <2>1, <2>2, <2>3, Changes, ZenonT(100) DEF MqCreate, FreeQueue, TypedQueues
<1>10. ASSUME NEW c \in Handle, NEW i \in 1 .. Len(mq'[c]) PROVE mq'[c][i].source \in Existing'
  <2>0. mq[c] \in Seq(Message) /\ \A j \in 1 .. Len(mq[c]) : mq[c][j].source \in Existing
    BY <1>0 DEF IInv, Reachable, TypedQueues
  <2>1. CASE mq'[c] = mq[c]
    BY <1>2, <1>10, <2>0, <2>1
  <2>2. CASE mq[c] # << >> /\ mq'[c] = Tail(mq[c])
    <3>1. i + 1 \in 1 .. Len(mq[c]) /\ mq'[c][i] = mq[c][i + 1]
      BY <1>10, <2>0, <2>2
    <3> QED
      BY <1>2, <2>0, <3>1
  <2>3. ASSUME NEW m, mq'[c] = Append(mq[c], m), m.source \in Existing
        PROVE  mq'[c][i].source \in Existing'
    <3>1. (i \in 1 .. Len(mq[c]) /\ mq'[c][i] = mq[c][i]) \/ mq'[c][i] = m
      BY <1>10, <2>0, <2>3
    <3> QED
      BY <1>2, <2>0, <2>3, <3>1
  <2>4. CASE PopMessage(t) \/ DropMessage(t)
    BY <1>0, <2>1, <2>2, <2>4, ZenonT(100) DEF PopMessage, DropMessage, TypedQueues
  <2>5. CASE Push(t)
    <3>1. Sender(t) \in Existing
      BY <1>0, <1>1, <1>3, <2>5 DEF Sender, Push, At, Calling, Dropping
    <3> DEFINE m == [source |-> Sender(t),
                     type |-> IF ret[t] = "drop" THEN "error" ELSE "request"]
    <3>2. m.source = Sender(t) /\ mq' = [mq EXCEPT ![obj[t]] = Append(@, m)]
      BY <2>5, ZenonT(100) DEF Push
    <3> HIDE DEF m
    <3>3. mq'[c] = mq[c] \/ mq'[c] = Append(mq[c], m)
      BY <1>0, <3>2 DEF TypedQueues
    <3> QED
      BY <2>1, <2>3, <3>1, <3>2, <3>3
  <2>6. CASE HarborSend(t)
    <3> DEFINE s == IF pc[t] = "init" THEN new[t] ELSE cur[t]
               m == [source |-> s, type |-> "request"]
    <3>1. s \in Existing
      BY <1>1, <1>3, <2>6, ZenonT(100) DEF HarborSend
    <3>2. m.source \in Existing /\ mq' = [mq EXCEPT ![Remote] = Append(@, m)]
      BY <2>6, <3>1, ZenonT(100) DEF HarborSend
    <3> HIDE DEF m
    <3>3. mq'[c] = mq[c] \/ mq'[c] = Append(mq[c], m)
      BY <1>0, <3>2 DEF TypedQueues
    <3> QED
      BY <2>1, <2>3, <3>2, <3>3
  <2> QED
    BY <2>1, <2>4, <2>5, <2>6, Changes, ZenonT(100)
<1>11. ASSUME NEW u \in Thread
       PROVE  /\ obj'[u] \in Existing' /\ victim'[u] \in Existing' /\ made'[u] \in Existing'
              /\ pc'[u] # "mq_create" => new'[u] \in Existing'
              /\ pc'[u] = "mq_create" => qlife'[new'[u]] = "none"
  <2>1. CASE u = t
    BY <1>6, <1>7, <1>8, <2>1
  <2>2. CASE u # t
    BY <1>0, <1>2, <1>9, <2>2 DEF Others, IInv, Reachable
  <2> QED
    BY <2>1, <2>2
<1> QED
  BY <1>5, <1>10, <1>11, ZenonT(100) DEF Reachable

(* Launches and the number of services *)
\* Nobody launches a service whose queue a worker has taken.
LEMMA NotStarting ==
    ASSUME IInv, NEW t \in Thread, NEW u \in Thread, NEW c \in Handle, q[t] = c
    PROVE  ~Starting(u, c)
<1>1. PlacedIs /\ None # c /\ Unique
  BY PlacedValues, NoneAssumption DEF IInv
<1>2. InQ(t) # NewQ(u) /\ InQ(t) # MadeP(u)
  BY DEF InQ, NewQ, MadeP
<1>3. new[u] # c /\ MadeQ(u) # c
  BY <1>1, <1>2 DEF PlacedIs, Unique, UniqueIn
<1> QED
  BY <1>3 DEF Starting, MadeQ, At, Calling

\* A step registers no service without a launch that will initialise it.
LEMMA StepInitialised == ASSUME IInv, NEW t \in Thread, Step(t) PROVE Initialised'
<1>0. TypedContexts /\ TypedPlaces /\ TypedLocals /\ ShapeOf(t) /\ Others(t)
  BY StepOthers DEF IInv, Typed, Shape
<1>1. ASSUME NEW c \in Handle, init[c], life[c] = "alive" PROVE init'[c]
  BY <1>0, <1>1, Changes, ZenonT(100) DEF SetInit, TypedContexts
<1>2. ASSUME NEW u \in Thread, cur[u] # None PROVE init'[cur[u]]
  <2>1. cur[u] \in Handle
    BY <1>2 DEF IInv, Typed, TypedLocals
  <2> QED
    BY <1>1, <1>2, <2>1, PointersAlive DEF IInv, Initialised
<1>3. ASSUME NEW u \in Thread, cur'[u] # None PROVE init'[cur'[u]]
  <2>1. CASE cur'[u] = cur[u]
    BY <1>2, <1>3, <2>1
  <2>2. CASE cur'[u] # cur[u]
    <3>1. u = t
      BY <1>0, <2>2 DEF Others
    <3>2. GrabContext(t) /\ slot[q[t]] /\ cur'[t] = q[t]
      <4>1. cur' = cur \/ GrabContext(t) \/ PopEmpty(t) \/ Rotate(t) \/ PushBack(t)
        <5>1. CASE Dispatch(t) \/ DropQueue(t)
          BY <5>1, ZenonT(100)
          DEF Dispatch, TakeQueue, PopMessage, MqLength, NextQueue, Return,
              DropQueue, Requeue, StartDrop, DropMessage, FreeQueue, Forget, locals
        <5>2. CASE Finish(t) \/ Service(t)
          BY <5>2, ZenonT(100)
          DEF Finish, TellName, InitReturns, SetInit, Publish, Report, RetireFailed, MqCreate,
              Service, HarborSend, Exit, Launch, locals
        <5>3. CASE Common(t)
          BY <5>3, ZenonT(100) DEF Common, Release, Delete, Push, Retire, Send, locals
        <5> QED
          BY <5>1, <5>2, <5>3 DEF Step
      <4>2. PopEmpty(t) \/ Rotate(t) \/ PushBack(t) => cur'[t] = cur[t] \/ cur'[t] = None
        BY <1>0, ZenonT(100) DEF PopEmpty, Rotate, PushBack, TypedLocals
      <4>3. GrabContext(t)
        BY <1>3, <2>2, <3>1, <4>1, <4>2
      <4> QED
        BY <1>0, <2>2, <3>1, <4>3 DEF GrabContext, TypedLocals
    <3>3. q[t] \in Handle
      BY <1>0, <3>2 DEF GrabContext, TypedLocals
    <3>4. init[q[t]] /\ life[q[t]] = "alive"
      BY <3>2, <3>3, NotStarting, PointersAlive, ZenonT(100) DEF IInv, Initialised
    <3> QED
      BY <1>1, <3>1, <3>2, <3>3, <3>4
  <2> QED
    BY <2>1, <2>2
<1>4. ASSUME NEW c \in Handle, slot'[c] PROVE init'[c] \/ \E u \in Thread : Starting(u, c)'
  <2>1. CASE ~slot[c]
    <3>0. ~Retire(t) /\ ~RetireFailed(t)
      BY <1>0, <1>4, <2>1, ZenonT(100) DEF Retire, RetireFailed, TypedContexts
    <3>1. PICK h \in Handle : Launch(t, h) /\ c = h
      <4>1. PICK h \in Handle : Launch(t, h)
        BY <1>4, <2>1, <3>0, Changes DEF Launches
      <4>2. c = h
        BY <1>0, <1>4, <2>1, <4>1 DEF Launch, TypedContexts
      <4> QED
        BY <4>1, <4>2
    <3> QED
      BY <1>0, <3>1 DEF Launch, Starting, TypedLocals
  <2>2. CASE slot[c]
    <3>0. life[c] = "alive"
      BY <2>2, PointersAlive
    <3>1. CASE init[c]
      BY <1>1, <3>0, <3>1
    <3>2. ASSUME NEW u \in Thread, u # t, Starting(u, c) PROVE Starting(u, c)'
      BY <1>0, <3>2 DEF Others, Starting, At
    <3>3. CASE new[t] = c
      <4>1. new'[t] = new[t] \/ Launches(t) \/ InitEnds(t)
        <5>1. CASE Dispatch(t) \/ DropQueue(t)
          BY <5>1, ZenonT(100)
          DEF Dispatch, TakeQueue, GrabContext, PopMessage, MqLength, PopEmpty, NextQueue, Return,
              Rotate, PushBack, DropQueue, Requeue, StartDrop, DropMessage, FreeQueue, Forget,
              locals
        <5>2. CASE Finish(t) \/ Service(t)
          BY <5>2, ZenonT(100)
          DEF Finish, TellName, SetInit, Publish, Report, RetireFailed, MqCreate,
              Service, HarborSend, Exit, Launches, InitEnds, locals
        <5>3. CASE Common(t)
          BY <5>3, ZenonT(100) DEF Common, Release, Delete, Push, Retire, Send, locals
        <5> QED
          BY <5>1, <5>2, <5>3 DEF Step
      <4>2. CASE InitEnds(t)
        BY <1>0, <3>3, <4>2
        DEF InitEnds, InitReturns, Starting, At, Calling, Go, TypedLocals, TypedPlaces
      <4>3. ~Launches(t)
        BY <1>0, <3>3, NoneAssumption, ZenonT(100) DEF Launches, Launch, ShapeOf, At, Calling
      <4> QED
        BY <3>3, <4>1, <4>2, <4>3 DEF Starting
    <3>4. CASE made[t] = c /\ At(t) \in {"launched", "failed"}
      <4>1. CASE pc[t] = "launched"
        <5>1. SetInit(t)
          BY <4>1, Waiting
        <5> QED
          BY <1>0, <3>0, <3>4, <5>1, ZenonT(100) DEF SetInit, TypedContexts
      <4>2. CASE pc[t] = "failed"
        <5>1. RetireFailed(t)
          BY <4>2, Waiting
        <5> QED
          BY <1>0, <1>4, <3>4, <5>1 DEF RetireFailed, TypedContexts
      <4>3. CASE pc[t] \in Calling
        <5>1. pc[t] # "push" /\ obj[t] = c
          BY <1>0, <3>4, <4>3, ZenonT(100) DEF ShapeOf, At, Calling
        <5>2. pc[t] # "delete"
          <6>1. slot[c] => ref[c] # 0
            BY Counted1, ZenonT(100) DEF IInv
          <6> QED
            BY <2>2, <5>1, <6>1, ZenonT(100) DEF IInv, Deleting
        <5>3. Release(t)
          BY <4>3, <5>1, <5>2, Waiting, ZenonT(100) DEF Calling
        <5> QED
          BY <1>0, <3>4, <4>3, <5>3, ZenonT(100)
          DEF Release, Starting, At, Calling, Go, TypedPlaces, ShapeOf
      <4> QED
        BY <3>4, <4>1, <4>2, <4>3 DEF At
    <3> QED
      BY <2>2, <3>1, <3>2, <3>3, <3>4, ZenonT(100) DEF IInv, Initialised, Starting
  <2> QED
    BY <2>1, <2>2, ZenonT(100)
<1> QED
  BY <1>3, <1>4 DEF Initialised

-----------------------------------------------------------------------------
(* Queues change hands *)
\* The first queue of the list is taken.
LEMMA TakeFirst ==
    ASSUME NEW g \in Seq(Handle), g # << >>, NEW f \in Hands, NEW p \in QPlace, f[p] = None,
           UniqueIn(g, f)
    PROVE  /\ UniqueIn(Tail(g), Put(f, p, Head(g)))
           /\ \A c \in Handle : OwnedIn(Tail(g), Put(f, p, Head(g)), c) <=> OwnedIn(g, f, c)
<1>1. /\ Len(Tail(g)) = Len(g) - 1 /\ Len(g) \in Nat \ {0} /\ Head(g) = g[1] /\ g[1] \in Handle
      /\ \A i \in 1 .. Len(g) - 1 : Tail(g)[i] = g[i + 1]
  OBVIOUS
<1> DEFINE h == Put(f, p, Head(g))
<1>2. h[p] = g[1] /\ \A r \in QPlace : r # p => h[r] = f[r]
  BY <1>1 DEF Put, Hands
<1> HIDE DEF h
<1>3. \A i, j \in 1 .. Len(Tail(g)) : Tail(g)[i] = Tail(g)[j] => i = j
  <2> TAKE i, j \in 1 .. Len(Tail(g))
  <2>1. i + 1 \in 1 .. Len(g) /\ j + 1 \in 1 .. Len(g)
    BY <1>1
  <2> QED
    BY <1>1, <2>1 DEF UniqueIn
<1>4. \A r, s \in QPlace : h[r] = h[s] /\ h[r] # None => r = s
  <2>1. 1 \in 1 .. Len(g)
    BY <1>1
  <2> QED
    BY <1>2, <2>1 DEF UniqueIn
<1>5. \A r \in QPlace : \A i \in 1 .. Len(Tail(g)) : Tail(g)[i] # h[r]
  <2> TAKE r \in QPlace
  <2> TAKE i \in 1 .. Len(Tail(g))
  <2>1. i + 1 \in 1 .. Len(g) /\ 1 \in 1 .. Len(g) /\ i + 1 # 1 /\ Tail(g)[i] = g[i + 1]
    BY <1>1
  <2> QED
    BY <1>2, <2>1 DEF UniqueIn
<1>6. ASSUME NEW c \in Handle, OwnedIn(Tail(g), h, c) PROVE OwnedIn(g, f, c)
  <2>1. CASE \E i \in 1 .. Len(Tail(g)) : Tail(g)[i] = c
    <3>1. PICK i \in 1 .. Len(Tail(g)) : Tail(g)[i] = c
      BY <2>1
    <3>2. i + 1 \in 1 .. Len(g) /\ g[i + 1] = c
      BY <1>1, <3>1
    <3> QED
      BY <3>2 DEF OwnedIn
  <2>2. CASE \E r \in QPlace : h[r] = c
    <3>1. 1 \in 1 .. Len(g)
      BY <1>1
    <3> QED
      BY <1>2, <2>2, <3>1 DEF OwnedIn
  <2> QED
    BY <1>6, <2>1, <2>2 DEF OwnedIn
<1>7. ASSUME NEW c \in Handle, OwnedIn(g, f, c) PROVE OwnedIn(Tail(g), h, c)
  <2>1. CASE \E i \in 1 .. Len(g) : g[i] = c
    <3>1. PICK i \in 1 .. Len(g) : g[i] = c
      BY <2>1
    <3>2. CASE i = 1
      BY <1>2, <3>1, <3>2 DEF OwnedIn
    <3>3. CASE i # 1
      <4>1. i - 1 \in 1 .. Len(Tail(g)) /\ Tail(g)[i - 1] = g[(i - 1) + 1] /\ (i - 1) + 1 = i
        BY <1>1, <3>3
      <4> QED
        BY <3>1, <4>1 DEF OwnedIn
    <3> QED
      BY <3>2, <3>3
  <2>2. CASE \E r \in QPlace : f[r] = c
    BY <1>2, <2>2, NoneAssumption DEF OwnedIn
  <2> QED
    BY <1>7, <2>1, <2>2 DEF OwnedIn
<1> QED
  BY <1>3, <1>4, <1>5, <1>6, <1>7 DEF UniqueIn, h

\* A queue that is nowhere is linked on the list.
LEMMA LinkLast ==
    ASSUME NEW g \in Seq(Handle), NEW f \in Hands, NEW d \in Handle, ~OwnedIn(g, f, d),
           UniqueIn(g, f)
    PROVE  /\ UniqueIn(Append(g, d), f)
           /\ \A c \in Handle : OwnedIn(Append(g, d), f, c) <=> OwnedIn(g, f, c) \/ c = d
<1> DEFINE a == Append(g, d)
<1>1. /\ Len(a) = Len(g) + 1 /\ Len(g) \in Nat /\ a[Len(g) + 1] = d
      /\ \A i \in 1 .. Len(g) : a[i] = g[i]
  OBVIOUS
<1>2. \A i \in 1 .. Len(a) : i \in 1 .. Len(g) \/ i = Len(g) + 1
  BY <1>1
<1>3. Len(g) + 1 \in 1 .. Len(a) /\ \A i \in 1 .. Len(g) : i \in 1 .. Len(a)
  BY <1>1
<1> HIDE DEF a
<1>4. (\A i \in 1 .. Len(g) : g[i] # d) /\ \A p \in QPlace : f[p] # d
  BY DEF OwnedIn
<1>5. UniqueIn(a, f)
  BY <1>1, <1>2, <1>4 DEF UniqueIn
<1>6. \A c \in Handle : OwnedIn(a, f, c) <=> OwnedIn(g, f, c) \/ c = d
  BY <1>1, <1>2, <1>3 DEF OwnedIn
<1> QED
  BY <1>5, <1>6 DEF a

\* A place gives up its queue.
LEMMA ClearPlace ==
    ASSUME NEW g \in Seq(Handle), NEW f \in Hands, NEW p \in QPlace, f[p] \in Handle,
           UniqueIn(g, f)
    PROVE  /\ UniqueIn(g, Put(f, p, None)) /\ Put(f, p, None) \in Hands
           /\ \A c \in Handle : OwnedIn(g, Put(f, p, None), c) <=> OwnedIn(g, f, c) /\ c # f[p]
<1> DEFINE h == Put(f, p, None)
<1>1. h \in Hands /\ h[p] = None /\ \A r \in QPlace : r # p => h[r] = f[r]
  BY DEF Put, Hands
<1> HIDE DEF h
<1>2. \A i \in 1 .. Len(g) : g[i] # None
  BY NoneAssumption
<1>3. UniqueIn(g, h)
  BY <1>1, <1>2 DEF UniqueIn
<1>4. \A c \in Handle : OwnedIn(g, h, c) <=> OwnedIn(g, f, c) /\ c # f[p]
  BY <1>1, NoneAssumption DEF OwnedIn, UniqueIn
<1> QED
  BY <1>1, <1>3, <1>4 DEF h

\* A queue that is nowhere comes to a free place.
LEMMA FillPlace ==
    ASSUME NEW g \in Seq(Handle), NEW f \in Hands, NEW p \in QPlace, f[p] = None,
           NEW d \in Handle, ~OwnedIn(g, f, d), UniqueIn(g, f)
    PROVE  /\ UniqueIn(g, Put(f, p, d)) /\ Put(f, p, d) \in Hands
           /\ \A c \in Handle : OwnedIn(g, Put(f, p, d), c) <=> OwnedIn(g, f, c) \/ c = d
<1> DEFINE h == Put(f, p, d)
<1>1. h \in Hands /\ h[p] = d /\ \A r \in QPlace : r # p => h[r] = f[r]
  BY DEF Put, Hands
<1> HIDE DEF h
<1>2. UniqueIn(g, h)
  BY <1>1 DEF UniqueIn, OwnedIn
<1>3. \A c \in Handle : OwnedIn(g, h, c) <=> OwnedIn(g, f, c) \/ c = d
  BY <1>1, NoneAssumption DEF OwnedIn
<1> QED
  BY <1>1, <1>2, <1>3 DEF h

\* A place puts its queue on the list.
LEMMA GivePlace ==
    ASSUME NEW g \in Seq(Handle), NEW f \in Hands, NEW p \in QPlace, f[p] \in Handle,
           UniqueIn(g, f)
    PROVE  /\ UniqueIn(Append(g, f[p]), Put(f, p, None)) /\ Put(f, p, None) \in Hands
           /\ \A c \in Handle : OwnedIn(Append(g, f[p]), Put(f, p, None), c) <=> OwnedIn(g, f, c)
<1>1. /\ UniqueIn(g, Put(f, p, None)) /\ Put(f, p, None) \in Hands
      /\ \A c \in Handle : OwnedIn(g, Put(f, p, None), c) <=> OwnedIn(g, f, c) /\ c # f[p]
  BY ClearPlace
<1>2. OwnedIn(g, f, f[p])
  BY DEF OwnedIn
<1> QED
  BY <1>1, <1>2, LinkLast

\* A queue goes from one place to another.
LEMMA PassPlace ==
    ASSUME NEW g \in Seq(Handle), NEW f \in Hands, NEW p \in QPlace, NEW r \in QPlace,
           f[p] \in Handle, f[r] = None, UniqueIn(g, f)
    PROVE  /\ UniqueIn(g, Put(Put(f, p, None), r, f[p]))
           /\ \A c \in Handle : OwnedIn(g, Put(Put(f, p, None), r, f[p]), c) <=> OwnedIn(g, f, c)
<1>1. /\ UniqueIn(g, Put(f, p, None)) /\ Put(f, p, None) \in Hands
      /\ \A c \in Handle : OwnedIn(g, Put(f, p, None), c) <=> OwnedIn(g, f, c) /\ c # f[p]
  BY ClearPlace
<1>2. Put(f, p, None)[r] = None
  BY DEF Put, Hands
<1>3. OwnedIn(g, f, f[p])
  BY DEF OwnedIn
<1> QED
  BY <1>1, <1>2, <1>3, FillPlace

\* A step of t changes the places of t only.
LEMMA PlacedStep ==
    ASSUME NEW t \in Thread, Typed, Typed', Others(t)
    PROVE  /\ Placed \in Hands /\ Placed' \in Hands
           /\ \A p \in QPlace : p \notin {InQ(t), NextQ(t), NewQ(t), MadeP(t)} =>
                 Placed'[p] = Placed[p]
           /\ InQ(t) \in QPlace /\ Placed[InQ(t)] = q[t] /\ Placed'[InQ(t)] = q'[t]
           /\ NextQ(t) \in QPlace /\ Placed[NextQ(t)] = nq[t] /\ Placed'[NextQ(t)] = nq'[t]
           /\ NewQ(t) \in QPlace /\ Placed[NewQ(t)] = new[t] /\ Placed'[NewQ(t)] = new'[t]
           /\ MadeP(t) \in QPlace /\ Placed[MadeP(t)] = MadeQ(t) /\ Placed'[MadeP(t)] = MadeQ(t)'
           /\ InQ(t) # NextQ(t) /\ InQ(t) # NewQ(t) /\ InQ(t) # MadeP(t)
           /\ NextQ(t) # NewQ(t) /\ NextQ(t) # MadeP(t) /\ NewQ(t) # MadeP(t)
<1>1. PlacedIs
  BY PlacedValues
<1>2. PlacedIs'
  <2>1. (Typed => PlacedIs)'
    BY PlacedValues, PTL
  <2> QED
    BY <2>1
<1>3. \A u \in Thread : u # t => /\ q'[u] = q[u] /\ nq'[u] = nq[u] /\ new'[u] = new[u]
                                 /\ MadeQ(u)' = MadeQ(u)
  BY DEF Others, MadeQ
<1>4. ASSUME NEW p \in QPlace, p \notin {InQ(t), NextQ(t), NewQ(t), MadeP(t)}
      PROVE  Placed'[p] = Placed[p]
  <2>1. PICK u \in Thread : p \in {InQ(u), NextQ(u), NewQ(u), MadeP(u)}
    BY QPlaces
  <2>2. u # t
    BY <1>4, <2>1
  <2>3. /\ Placed'[InQ(u)] = q'[u] /\ Placed'[NextQ(u)] = nq'[u]
        /\ Placed'[NewQ(u)] = new'[u] /\ Placed'[MadeP(u)] = MadeQ(u)'
    BY <1>2 DEF PlacedIs, InQ, NextQ, NewQ, MadeP
  <2>4. /\ Placed[InQ(u)] = q[u] /\ Placed[NextQ(u)] = nq[u]
        /\ Placed[NewQ(u)] = new[u] /\ Placed[MadeP(u)] = MadeQ(u)
    BY <1>1 DEF PlacedIs
  <2> QED
    BY <1>3, <2>1, <2>2, <2>3, <2>4
<1>5. /\ InQ(t) # NextQ(t) /\ InQ(t) # NewQ(t) /\ InQ(t) # MadeP(t)
      /\ NextQ(t) # NewQ(t) /\ NextQ(t) # MadeP(t) /\ NewQ(t) # MadeP(t)
  BY DEF InQ, NextQ, NewQ, MadeP
<1> QED
  BY <1>1, <1>2, <1>4, <1>5, QPlaces DEF PlacedIs, InQ, NextQ, NewQ, MadeP

\* A step that keeps the four places of its thread keeps all places.
LEMMA PlacedSame ==
    ASSUME NEW t \in Thread, Typed, Typed', Others(t),
           q'[t] = q[t], nq'[t] = nq[t], new'[t] = new[t], MadeQ(t)' = MadeQ(t)
    PROVE  Placed' = Placed
BY PlacedStep DEF Hands

\* A step that changes one of them changes one place.
LEMMA PlacedPut ==
    ASSUME NEW t \in Thread, Typed, Typed', Others(t),
           NEW p \in {InQ(t), NextQ(t), NewQ(t), MadeP(t)},
           \A r \in {InQ(t), NextQ(t), NewQ(t), MadeP(t)} : r # p => Placed'[r] = Placed[r]
    PROVE  Placed' = Put(Placed, p, Placed'[p])
<1>1. /\ Placed \in Hands /\ Placed' \in Hands /\ p \in QPlace
      /\ \A r \in QPlace : r # p => Placed'[r] = Placed[r]
  BY PlacedStep, ZenonT(100)
<1> QED
  BY <1>1 DEF Put, Hands

\* A step that empties one of them and fills another changes two places.
LEMMA PlacedPut2 ==
    ASSUME NEW t \in Thread, Typed, Typed', Others(t),
           NEW p \in {InQ(t), NextQ(t), NewQ(t), MadeP(t)}, Placed'[p] = None,
           NEW s \in {InQ(t), NextQ(t), NewQ(t), MadeP(t)}, s # p,
           \A r \in {InQ(t), NextQ(t), NewQ(t), MadeP(t)} :
               r # p /\ r # s => Placed'[r] = Placed[r]
    PROVE  Placed' = Put(Put(Placed, p, None), s, Placed'[s])
<1>1. /\ Placed \in Hands /\ Placed' \in Hands /\ p \in QPlace /\ s \in QPlace
      /\ \A r \in QPlace : r # p /\ r # s => Placed'[r] = Placed[r]
  BY PlacedStep, ZenonT(100)
<1> QED
  BY <1>1 DEF Put, Hands

\* A queue that is pushed to, or whose context is deleted, is somewhere afterwards.
LEMMA LinkedOwned ==
    ASSUME IInv, NEW t \in Thread, Typed', Others(t), NEW d \in Handle,
           life[d] = "alive", release[d] = 0, qlife[d] # "none", globalmq' = Linked(d),
           q'[t] = q[t], nq'[t] = nq[t], new'[t] = new[t], MadeQ(t)' = MadeQ(t)
    PROVE  /\ UniqueIn(globalmq', Placed')
           /\ \A c \in Handle : Owned(c)' <=> Owned(c) \/ c = d
<1>0. Typed /\ TypedQueues /\ Flagged /\ UniqueIn(globalmq, Placed) /\ LivesOf(d)
  BY DEF IInv, Typed, Lives, Unique
<1>1. Placed \in Hands /\ globalmq \in Seq(Handle)
  BY <1>0, PlacedStep, ZenonT(100) DEF TypedQueues
<1>2. Placed' = Placed
  BY <1>0, PlacedSame, ZenonT(100)
<1>3. qlife[d] = "alive"
  BY <1>0 DEF LivesOf, TypedQueues, Life
<1>4. Owned(d) <=> in_global[d] = 1
  <2>1. Owned(d) <=> in_global[d] = 1 \/ release[d] = 1
    BY <1>0, <1>3, ZenonT(100) DEF Flagged
  <2> QED
    BY <2>1
<1>5. CASE in_global[d] = 0
  <2>1. globalmq' = Append(globalmq, d) /\ ~OwnedIn(globalmq, Placed, d)
    BY <1>4, <1>5 DEF Linked, Owned
  <2>2. /\ UniqueIn(Append(globalmq, d), Placed)
        /\ \A c \in Handle : OwnedIn(Append(globalmq, d), Placed, c) <=>
                                OwnedIn(globalmq, Placed, c) \/ c = d
    BY <1>0, <1>1, <2>1, LinkLast, ZenonT(100)
  <2> QED
    BY <1>2, <2>1, <2>2, ZenonT(100) DEF Owned
<1>6. CASE in_global[d] = 1
  <2>1. globalmq' = globalmq /\ OwnedIn(globalmq, Placed, d)
    BY <1>4, <1>6 DEF Linked, Owned
  <2>2. \A c \in Handle : OwnedIn(globalmq', Placed', c) <=> OwnedIn(globalmq, Placed, c) \/ c = d
    BY <1>2, <2>1
  <2> QED
    BY <1>0, <1>2, <2>1, <2>2, ZenonT(100) DEF Owned
<1> QED
  BY <1>0, <1>5, <1>6, ZenonT(100) DEF TypedQueues

\* So is that of the reserved service after a message for another process.
LEMMA HarborOwned ==
    ASSUME IInv, NEW t \in Thread, HarborSend(t), Step(t), Typed'
    PROVE  /\ Remote \in Handle /\ life[Remote] = "alive" /\ qlife[Remote] # "none"
           /\ UniqueIn(globalmq', Placed')
           /\ \A c \in Handle : Owned(c)' <=> Owned(c) \/ c = Remote
<1>1. Others(t)
  BY StepOthers DEF IInv
<1>2. Remote \in Handle
  BY RemoteType, ZenonT(100) DEF HarborSend
<1>3. life[Remote] = "alive" /\ release[Remote] = 0
  BY <1>2, PointersAlive
<1>4. qlife[Remote] # "none"
  BY <1>2, NoneAssumption, ZenonT(100) DEF IInv, Reachable, Existing
<1>5. /\ globalmq' = Linked(Remote)
      /\ q'[t] = q[t] /\ nq'[t] = nq[t] /\ new'[t] = new[t] /\ MadeQ(t)' = MadeQ(t)
  BY ZenonT(100) DEF HarborSend, MadeQ, locals
<1> QED
  BY <1>1, <1>2, <1>3, <1>4, <1>5, LinkedOwned, ZenonT(100)

\* What a step does to the places of queues: only a pop that finds nothing and the
\* end of a drop take a queue out of all of them, and only a push, a deletion and
\* a launch bring one there.
LEMMA StepOwned ==
    ASSUME IInv, NEW t \in Thread, Step(t), Typed'
    PROVE  /\ UniqueIn(globalmq', Placed')
           /\ \A c \in Handle :
                 \/ PopEmpty(t) /\ (Owned(c)' <=> Owned(c) /\ c # q[t])
                 \/ FreeQueue(t) /\ (Owned(c)' <=> Owned(c) /\ c # Dropped(t))
                 \/ (Push(t) \/ Delete(t)) /\ (Owned(c)' <=> Owned(c) \/ c = obj[t])
                 \/ HarborSend(t) /\ (Owned(c)' <=> Owned(c) \/ c = Remote)
                 \/ Launches(t) /\ (Owned(c)' <=> Owned(c) \/ c = new'[t])
                 \/ ~PopEmpty(t) /\ ~FreeQueue(t) /\ ~Push(t) /\ ~Delete(t) /\ (Owned(c)' <=> Owned(c))
<1>0. /\ Typed /\ TypedQueues /\ TypedPlaces /\ TypedLocals /\ ShapeOf(t) /\ Others(t) /\ PlacedIs
      /\ UniqueIn(globalmq, Placed)
  BY StepOthers, PlacedValues DEF IInv, Typed, Shape, Unique
<1> DEFINE Mine == {InQ(t), NextQ(t), NewQ(t), MadeP(t)}
<1>1. /\ Placed \in Hands /\ Placed' \in Hands /\ globalmq \in Seq(Handle)
      /\ InQ(t) \in QPlace /\ Placed[InQ(t)] = q[t] /\ Placed'[InQ(t)] = q'[t]
      /\ NextQ(t) \in QPlace /\ Placed[NextQ(t)] = nq[t] /\ Placed'[NextQ(t)] = nq'[t]
      /\ NewQ(t) \in QPlace /\ Placed[NewQ(t)] = new[t] /\ Placed'[NewQ(t)] = new'[t]
      /\ MadeP(t) \in QPlace /\ Placed[MadeP(t)] = MadeQ(t) /\ Placed'[MadeP(t)] = MadeQ(t)'
      /\ InQ(t) # NextQ(t) /\ InQ(t) # NewQ(t) /\ InQ(t) # MadeP(t)
      /\ NextQ(t) # NewQ(t) /\ NextQ(t) # MadeP(t) /\ NewQ(t) # MadeP(t)
  BY <1>0, PlacedStep, ZenonT(100) DEF TypedQueues
<1>2. Len(globalmq) # 0 <=> globalmq # << >>
  BY <1>1
<1>3. ASSUME q'[t] = q[t], nq'[t] = nq[t], new'[t] = new[t], MadeQ(t)' = MadeQ(t),
             globalmq' = globalmq
      PROVE  UniqueIn(globalmq', Placed') /\ \A c \in Handle : Owned(c)' <=> Owned(c)
  <2>1. Placed' = Placed
    BY <1>0, <1>3, PlacedSame, ZenonT(100)
  <2> QED
    BY <1>0, <1>3, <2>1 DEF Owned
<1>4. ASSUME NEW p \in Mine, \A r \in Mine : r # p => Placed'[r] = Placed[r],
             Placed[p] = None, globalmq # << >>, Placed'[p] = Head(globalmq), globalmq' = Tail(globalmq)
      PROVE  UniqueIn(globalmq', Placed') /\ \A c \in Handle : Owned(c)' <=> Owned(c)
  <2>1. Placed' = Put(Placed, p, Head(globalmq)) /\ p \in QPlace
    BY <1>0, <1>1, <1>4, PlacedPut, ZenonT(100)
  <2>2. /\ Placed \in Hands /\ globalmq \in Seq(Handle) /\ UniqueIn(globalmq, Placed)
        /\ Placed[p] = None /\ globalmq # << >> /\ globalmq' = Tail(globalmq)
    BY <1>0, <1>1, <1>4, ZenonT(100)
  <2>3. /\ UniqueIn(Tail(globalmq), Put(Placed, p, Head(globalmq)))
        /\ \A c \in Handle : OwnedIn(Tail(globalmq), Put(Placed, p, Head(globalmq)), c)
                              <=> OwnedIn(globalmq, Placed, c)
    BY <2>1, <2>2, TakeFirst, ZenonT(100)
  <2> QED
    BY <2>1, <2>2, <2>3, ZenonT(100) DEF Owned
<1>5. ASSUME NEW p \in Mine, \A r \in Mine : r # p => Placed'[r] = Placed[r],
             Placed[p] \in Handle, Placed'[p] = None, globalmq' = Append(globalmq, Placed[p])
      PROVE  UniqueIn(globalmq', Placed') /\ \A c \in Handle : Owned(c)' <=> Owned(c)
  <2>1. Placed' = Put(Placed, p, None) /\ p \in QPlace
    BY <1>0, <1>1, <1>5, PlacedPut, ZenonT(100)
  <2>2. /\ Placed \in Hands /\ globalmq \in Seq(Handle) /\ UniqueIn(globalmq, Placed)
        /\ Placed[p] \in Handle /\ globalmq' = Append(globalmq, Placed[p])
    BY <1>0, <1>1, <1>5, ZenonT(100)
  <2>3. /\ UniqueIn(Append(globalmq, Placed[p]), Put(Placed, p, None))
        /\ \A c \in Handle : OwnedIn(Append(globalmq, Placed[p]), Put(Placed, p, None), c)
                              <=> OwnedIn(globalmq, Placed, c)
    BY <2>1, <2>2, GivePlace, ZenonT(100)
  <2> QED
    BY <2>1, <2>2, <2>3, ZenonT(100) DEF Owned
<1>6. ASSUME NEW p \in Mine, \A r \in Mine : r # p => Placed'[r] = Placed[r],
             Placed[p] \in Handle, Placed'[p] = None, globalmq' = globalmq
      PROVE  /\ UniqueIn(globalmq', Placed')
             /\ \A c \in Handle : Owned(c)' <=> Owned(c) /\ c # Placed[p]
  <2>1. Placed' = Put(Placed, p, None) /\ p \in QPlace
    BY <1>0, <1>1, <1>6, PlacedPut, ZenonT(100)
  <2>2. /\ Placed \in Hands /\ globalmq \in Seq(Handle) /\ UniqueIn(globalmq, Placed)
        /\ Placed[p] \in Handle /\ globalmq' = globalmq
    BY <1>0, <1>1, <1>6, ZenonT(100)
  <2>3. /\ UniqueIn(globalmq, Put(Placed, p, None))
        /\ \A c \in Handle : OwnedIn(globalmq, Put(Placed, p, None), c)
                              <=> OwnedIn(globalmq, Placed, c) /\ c # Placed[p]
    BY <2>1, <2>2, ClearPlace, ZenonT(100)
  <2> QED
    BY <2>1, <2>2, <2>3, ZenonT(100) DEF Owned
<1>7. CASE TakeQueue(t)
  <2>1. /\ \A r \in Mine : r # InQ(t) => Placed'[r] = Placed[r]
        /\ Placed[InQ(t)] = None /\ globalmq # << >> /\ Placed'[InQ(t)] = Head(globalmq)
        /\ globalmq' = Tail(globalmq)
    BY <1>0, <1>1, <1>7, ZenonT(100) DEF TakeQueue, MadeQ, TypedLocals
  <2> QED
    BY <1>4, <1>7, <2>1, ZenonT(100) DEF TakeQueue, PopEmpty, FreeQueue, Push, Delete
<1>8. CASE NextQueue(t)
  <2>0. q[t] = None /\ MadeQ(t)' = MadeQ(t) /\ nq'[t] = nq[t] /\ new'[t] = new[t]
    BY <1>0, <1>8, ZenonT(100) DEF NextQueue, ShapeOf, At, Calling, Go, MadeQ, TypedPlaces
  <2>1. CASE globalmq = << >>
    BY <1>3, <1>8, <2>0, <2>1, ZenonT(100) DEF NextQueue, PopEmpty, FreeQueue, Push, Delete
  <2>2. CASE globalmq # << >>
    <3>1. /\ \A r \in Mine : r # InQ(t) => Placed'[r] = Placed[r]
          /\ Placed[InQ(t)] = None /\ Placed'[InQ(t)] = Head(globalmq)
          /\ globalmq' = Tail(globalmq)
      BY <1>0, <1>1, <1>8, <2>0, <2>2, ZenonT(100) DEF NextQueue, TypedLocals
    <3> QED
      BY <1>4, <1>8, <2>2, <3>1, ZenonT(100) DEF NextQueue, PopEmpty, FreeQueue, Push, Delete
  <2> QED
    BY <2>1, <2>2, ZenonT(100)
<1>9. CASE Rotate(t)
  <2>0. nq[t] = None /\ MadeQ(t)' = MadeQ(t) /\ q'[t] = q[t] /\ new'[t] = new[t]
    BY <1>0, <1>9, ZenonT(100) DEF Rotate, ShapeOf, At, Calling, Go, MadeQ, TypedPlaces
  <2>1. CASE globalmq = << >>
    BY <1>3, <1>9, <2>0, <2>1, ZenonT(100) DEF Rotate, PopEmpty, FreeQueue, Push, Delete
  <2>2. CASE globalmq # << >>
    <3>1. /\ \A r \in Mine : r # NextQ(t) => Placed'[r] = Placed[r]
          /\ Placed[NextQ(t)] = None /\ Placed'[NextQ(t)] = Head(globalmq)
          /\ globalmq' = Tail(globalmq)
      BY <1>0, <1>1, <1>9, <2>0, <2>2, ZenonT(100) DEF Rotate, TypedLocals
    <3> QED
      BY <1>4, <1>9, <2>2, <3>1, ZenonT(100) DEF Rotate, PopEmpty, FreeQueue, Push, Delete
  <2> QED
    BY <2>1, <2>2, ZenonT(100)
<1>10. CASE PushBack(t)
  <2>1. /\ q[t] \in Handle /\ nq[t] \in Handle /\ MadeQ(t)' = MadeQ(t) /\ new'[t] = new[t]
        /\ q'[t] = nq[t] /\ nq'[t] = None /\ globalmq' = Append(globalmq, q[t])
    BY <1>0, <1>10, LocalTypes, ZenonT(100) DEF PushBack, Serving, Go, MadeQ, TypedPlaces, TypedLocals
  <2> DEFINE f == Put(Placed, InQ(t), None)
             g == Append(globalmq, q[t])
  <2>2. /\ UniqueIn(g, f) /\ f \in Hands /\ g \in Seq(Handle)
        /\ \A c \in Handle : OwnedIn(g, f, c) <=> OwnedIn(globalmq, Placed, c)
    <3>1. /\ Placed \in Hands /\ InQ(t) \in QPlace /\ globalmq \in Seq(Handle)
          /\ Placed[InQ(t)] = q[t] /\ Placed[InQ(t)] \in Handle /\ UniqueIn(globalmq, Placed)
      BY <1>0, <1>1, <2>1, ZenonT(100)
    <3>2. /\ UniqueIn(Append(globalmq, Placed[InQ(t)]), f) /\ f \in Hands
          /\ \A c \in Handle : OwnedIn(Append(globalmq, Placed[InQ(t)]), f, c)
                                <=> OwnedIn(globalmq, Placed, c)
      BY <3>1, GivePlace, ZenonT(100)
    <3>3. Append(globalmq, q[t]) \in Seq(Handle)
      BY <3>1
    <3> QED
      BY <3>1, <3>2, <3>3, ZenonT(100)
  <2>3. f[InQ(t)] = None /\ \A r \in QPlace : r # InQ(t) => f[r] = Placed[r]
    BY <1>1 DEF Put, Hands
  <2>4. Placed' = Put(Put(Placed, NextQ(t), None), InQ(t), nq[t])
    BY <1>0, <1>1, <2>1, PlacedPut2, ZenonT(100)
  <2>5. Placed' = Put(Put(f, NextQ(t), None), InQ(t), f[NextQ(t)])
    BY <1>1, <2>3, <2>4, ZenonT(100) DEF Put, Hands
  <2> HIDE DEF f, g
  <2>6. /\ UniqueIn(g, Placed')
        /\ \A c \in Handle : OwnedIn(g, Placed', c) <=> OwnedIn(g, f, c)
    BY <1>1, <2>1, <2>2, <2>3, <2>5, PassPlace, ZenonT(100)
  <2> QED
    BY <1>10, <2>1, <2>2, <2>6, ZenonT(100) DEF g, Owned, PushBack, PopEmpty, FreeQueue, Push, Delete
<1>11. CASE PopEmpty(t)
  <2>1. /\ \A r \in Mine : r # InQ(t) => Placed'[r] = Placed[r]
        /\ Placed[InQ(t)] \in Handle /\ Placed'[InQ(t)] = None /\ globalmq' = globalmq
    BY <1>0, <1>1, <1>11, LocalTypes, ZenonT(100)
    DEF PopEmpty, MadeQ, Go, Serving, TypedLocals, TypedPlaces
  <2> QED
    BY <1>1, <1>6, <1>11, <2>1, ZenonT(100)
<1>12. CASE Requeue(t) \/ FreeQueue(t)
  <2>1. PICK p \in Mine : /\ \A r \in Mine : r # p => Placed'[r] = Placed[r]
                          /\ Placed[p] = Dropped(t) /\ Placed'[p] = None
    <3>1. CASE made[t] # None
      <4>1. /\ Dropped(t) = made[t] /\ MadeQ(t) = made[t] /\ MadeQ(t)' = None
            /\ q'[t] = q[t] /\ nq'[t] = nq[t] /\ new'[t] = new[t]
        BY <1>0, <1>12, <3>1, ZenonT(100) DEF Requeue, FreeQueue, Forget, Dropped, MadeQ, TypedLocals
      <4> QED
        BY <1>1, <4>1, ZenonT(100)
    <3>2. CASE made[t] = None
      <4>1. /\ Dropped(t) = q[t] /\ MadeQ(t)' = MadeQ(t)
            /\ q'[t] = None /\ nq'[t] = nq[t] /\ new'[t] = new[t]
        BY <1>0, <1>12, <3>2, ZenonT(100) DEF Requeue, FreeQueue, Forget, Dropped, MadeQ, TypedLocals
      <4> QED
        BY <1>1, <4>1, ZenonT(100)
    <3> QED
      BY <3>1, <3>2, ZenonT(100)
  <2>2. Dropped(t) \in Handle
    BY <1>0, <1>12, LocalTypes, ZenonT(100) DEF Requeue, FreeQueue, At, Calling, Dropping
  <2>3. CASE Requeue(t)
    BY <1>5, <2>1, <2>2, <2>3, ZenonT(100) DEF Requeue, PopEmpty, FreeQueue, Push, Delete
  <2>4. CASE FreeQueue(t)
    BY <1>6, <2>1, <2>2, <2>4, ZenonT(100) DEF FreeQueue
  <2> QED
    BY <1>12, <2>3, <2>4, ZenonT(100)
<1>13. CASE Publish(t)
  <2>1. made[t] \in Handle /\ MadeQ(t) = made[t] /\ globalmq' = Append(globalmq, made[t])
    BY <1>0, <1>13, LocalTypes, ZenonT(100) DEF Publish, Launching, MadeQ
  <2>2. MadeQ(t)' = None /\ q'[t] = q[t] /\ nq'[t] = nq[t] /\ new'[t] = new[t]
    BY <1>0, <1>13, ZenonT(100) DEF Publish, MadeQ, Go, TypedLocals, TypedPlaces
  <2>3. \A r \in Mine : r # MadeP(t) => Placed'[r] = Placed[r]
    BY <1>1, <2>2, ZenonT(100)
  <2> QED
    BY <1>1, <1>5, <1>13, <2>1, <2>2, <2>3, ZenonT(100)
    DEF Publish, PopEmpty, FreeQueue, Push, Delete
<1>14. CASE InitEnds(t)
  <2>1. /\ new[t] \in Handle /\ MadeQ(t) = None /\ MadeQ(t)' = new[t] /\ new'[t] = None
        /\ q'[t] = q[t] /\ nq'[t] = nq[t] /\ globalmq' = globalmq /\ pc[t] = "init"
    BY <1>0, <1>14, LocalTypes, ZenonT(100)
    DEF InitEnds, InitReturns, ShapeOf, At, Calling, Launching, Dropping, MadeQ, Go, queues,
        TypedLocals, TypedPlaces
  <2>2. Placed' = Put(Put(Placed, NewQ(t), None), MadeP(t), new[t])
    BY <1>0, <1>1, <2>1, PlacedPut2, ZenonT(100)
  <2>3. /\ UniqueIn(globalmq', Placed')
        /\ \A c \in Handle : OwnedIn(globalmq', Placed', c) <=> OwnedIn(globalmq, Placed, c)
    <3>1. /\ globalmq \in Seq(Handle) /\ Placed \in Hands /\ NewQ(t) \in QPlace /\ MadeP(t) \in QPlace
          /\ Placed[NewQ(t)] = new[t] /\ Placed[MadeP(t)] = None /\ UniqueIn(globalmq, Placed)
      BY <1>0, <1>1, <2>1, ZenonT(100)
    <3> QED
      BY <2>1, <2>2, <3>1, PassPlace, ZenonT(100)
  <2>4. ~PopEmpty(t) /\ ~FreeQueue(t) /\ ~Push(t) /\ ~Delete(t)
    BY <2>1, ZenonT(100) DEF PopEmpty, FreeQueue, Push, Delete
  <2> QED
    BY <2>3, <2>4, ZenonT(100) DEF Owned
<1>15. CASE Launches(t)
  <2>1. PICK h \in Handle : Launch(t, h)
    BY <1>15 DEF Launches
  <2>2. ~Owned(h)
    <3>1. qlife[h] = "none" /\ ref[h] = 0
      BY <2>1, ZenonT(100) DEF Launch, IInv, Lives, LivesOf
    <3>2. \A u \in Thread : new[u] # h
      BY <3>1, Counted1 DEF IInv
    <3> QED
      BY <3>1, <3>2 DEF IInv, Present
  <2>3. /\ new[t] = None /\ new'[t] = h /\ q'[t] = q[t] /\ nq'[t] = nq[t] /\ MadeQ(t)' = MadeQ(t)
        /\ globalmq' = globalmq
    BY <1>0, <2>1, ZenonT(100) DEF Launch, ShapeOf, At, Calling, MadeQ, Go, queues, TypedLocals, TypedPlaces
  <2>4. Placed' = Put(Placed, NewQ(t), h)
    BY <1>0, <1>1, <2>3, PlacedPut, ZenonT(100)
  <2>5. /\ globalmq \in Seq(Handle) /\ Placed \in Hands /\ NewQ(t) \in QPlace
        /\ UniqueIn(globalmq, Placed) /\ Placed[NewQ(t)] = None /\ ~OwnedIn(globalmq, Placed, h)
    BY <1>0, <1>1, <2>2, <2>3, ZenonT(100) DEF Owned
  <2>6. /\ UniqueIn(globalmq', Placed')
        /\ \A c \in Handle : OwnedIn(globalmq', Placed', c) <=> OwnedIn(globalmq, Placed, c) \/ c = h
    BY <2>3, <2>4, <2>5, FillPlace, ZenonT(100)
  <2> QED
    BY <1>15, <2>3, <2>6, ZenonT(100) DEF Owned
<1>16. CASE Push(t) \/ Delete(t)
  <2>1. obj[t] \in Handle /\ globalmq' = Linked(obj[t])
    BY <1>0, <1>16, LocalTypes, ZenonT(100) DEF Push, Delete, Calling
  <2>2. /\ q'[t] = q[t] /\ nq'[t] = nq[t] /\ new'[t] = new[t] /\ MadeQ(t)' = MadeQ(t)
    BY <1>0, <1>16, ZenonT(100) DEF Push, Delete, ShapeOf, Calling, MadeQ, Go, locals, TypedPlaces
  <2>3. life[obj[t]] = "alive" /\ release[obj[t]] = 0
    BY <2>1, PointersAlive
  <2>4. qlife[obj[t]] # "none"
    BY <2>1, NoneAssumption, ZenonT(100) DEF IInv, Reachable, Existing
  <2> QED
    BY <1>0, <1>16, <2>1, <2>2, <2>3, <2>4, LinkedOwned, ZenonT(100)
<1>20. CASE HarborSend(t)
  BY <1>20, HarborOwned, ZenonT(100)
<1>17. CASE GrabContext(t) \/ PopMessage(t) \/ MqLength(t) \/ Return(t) \/ StartDrop(t)
            \/ DropMessage(t)
  <2>1. q'[t] = q[t] /\ nq'[t] = nq[t] /\ new'[t] = new[t] /\ MadeQ(t)' = MadeQ(t)
    BY <1>0, <1>17, ZenonT(100)
    DEF GrabContext, PopMessage, MqLength, Return, StartDrop, DropMessage, Grab, Go, MadeQ,
        locals, TypedPlaces
  <2>2. globalmq' = globalmq /\ ~PopEmpty(t) /\ ~FreeQueue(t) /\ ~Push(t) /\ ~Delete(t)
    BY <1>17, ZenonT(100)
    DEF GrabContext, PopMessage, MqLength, Return, StartDrop, DropMessage, queues,
        PopEmpty, FreeQueue, Push, Delete
  <2> QED
    BY <1>3, <2>1, <2>2, ZenonT(100)
<1>18. CASE MqCreate(t) \/ TellName(t) \/ SetInit(t) \/ Report(t) \/ RetireFailed(t)
  <2>1. q'[t] = q[t] /\ nq'[t] = nq[t] /\ new'[t] = new[t] /\ MadeQ(t)' = MadeQ(t)
    BY <1>0, <1>18, ZenonT(100)
    DEF MqCreate, TellName, SetInit, Report, RetireFailed, Go, MadeQ, locals, TypedPlaces,
        TypedLocals
  <2>2. globalmq' = globalmq /\ ~PopEmpty(t) /\ ~FreeQueue(t) /\ ~Push(t) /\ ~Delete(t)
    BY <1>18, ZenonT(100) DEF MqCreate, TellName, SetInit, Report, RetireFailed, queues,
                 PopEmpty, FreeQueue, Push, Delete
  <2> QED
    BY <1>3, <2>1, <2>2, ZenonT(100)
<1>19. CASE Exits(t) \/ Sends(t) \/ Release(t) \/ Retire(t)
  <2>1. q'[t] = q[t] /\ nq'[t] = nq[t] /\ new'[t] = new[t] /\ MadeQ(t)' = MadeQ(t)
    BY <1>0, <1>19, ZenonT(100)
    DEF Exits, Exit, Sends, Send, Release, Retire, Grab, Go, MadeQ, TypedPlaces, ShapeOf, Calling
  <2>2. globalmq' = globalmq /\ ~PopEmpty(t) /\ ~FreeQueue(t) /\ ~Push(t) /\ ~Delete(t)
    BY <1>19, ZenonT(100) DEF Exits, Exit, Sends, Send, Release, Retire, queues,
                 PopEmpty, FreeQueue, Push, Delete
  <2> QED
    BY <1>3, <2>1, <2>2, ZenonT(100)
<1> QED
  BY <1>7, <1>8, <1>9, <1>10, <1>11, <1>12, <1>13, <1>14, <1>15, <1>16, <1>17, <1>18, <1>19,
     <1>20, ZenonT(100)
  DEF Step, Dispatch, DropQueue, Finish, Service, Common, Sends, Exits, Launches, InitEnds

\* A step puts no queue that does not exist into a place.
LEMMA StepPresent == ASSUME IInv, NEW t \in Thread, Step(t), Typed' PROVE Present'
<1> SUFFICES ASSUME NEW c \in Handle, Owned(c)'
             PROVE  qlife'[c] = "alive" \/ \E u \in Thread : new'[u] = c /\ pc'[u] = "mq_create"
  BY DEF Present
<1>0. TypedQueues /\ TypedPlaces /\ TypedLocals /\ ShapeOf(t) /\ Others(t)
  BY StepOthers DEF IInv, Typed, Shape
<1>1. CASE Owned(c)
  <2>1. CASE qlife[c] = "alive"
    <3>1. FreeQueue(t) => c # Dropped(t)
      BY StepOwned, ZenonT(100) DEF FreeQueue, PopEmpty, Push, Delete, HarborSend, Launches, Launch
    <3> QED
      BY <1>0, <2>1, <3>1, Changes, ZenonT(100) DEF MqCreate, FreeQueue, TypedQueues
  <2>2. CASE \E u \in Thread : new[u] = c /\ pc[u] = "mq_create"
    <3>1. PICK u \in Thread : new[u] = c /\ pc[u] = "mq_create"
      BY <2>2
    <3>2. CASE u = t
      BY <1>0, <3>1, <3>2, Waiting, ZenonT(100) DEF MqCreate, TypedQueues
    <3>3. CASE u # t
      BY <1>0, <3>1, <3>3, ZenonT(100) DEF Others
    <3> QED
      BY <3>2, <3>3
  <2> QED
    BY <1>1, <2>1, <2>2, ZenonT(100) DEF IInv, Present
<1>2. CASE ~Owned(c)
  <2>1. \/ (Push(t) \/ Delete(t)) /\ c = obj[t]
        \/ HarborSend(t) /\ c = Remote
        \/ Launches(t) /\ c = new'[t]
    <3>1. \/ PopEmpty(t) /\ (Owned(c)' <=> Owned(c) /\ c # q[t])
          \/ FreeQueue(t) /\ (Owned(c)' <=> Owned(c) /\ c # Dropped(t))
          \/ (Push(t) \/ Delete(t)) /\ (Owned(c)' <=> Owned(c) \/ c = obj[t])
          \/ HarborSend(t) /\ (Owned(c)' <=> Owned(c) \/ c = Remote)
          \/ Launches(t) /\ (Owned(c)' <=> Owned(c) \/ c = new'[t])
          \/ Owned(c)' <=> Owned(c)
      BY StepOwned, ZenonT(100)
    <3> QED
      BY <1>2, <3>1, ZenonT(100)
  <2>2. CASE (Push(t) \/ Delete(t)) /\ c = obj[t]
    <3>1. life[c] = "alive"
      BY <2>2, PointersAlive, ZenonT(100)
    <3>2. qlife[c] # "none" /\ qlife[c] # "freed" /\ qlife[c] \in Life
      BY <1>0, <2>2, <3>1, NoneAssumption, ZenonT(100)
      DEF IInv, Reachable, Existing, Lives, LivesOf, TypedQueues
    <3> QED
      BY <2>2, <3>2, ZenonT(100) DEF Push, Delete, Life
  <2>3. CASE Launches(t) /\ c = new'[t]
    BY <1>0, <2>3 DEF Launches, Launch, Go, TypedPlaces
  <2>4. CASE HarborSend(t) /\ c = Remote
    <3>1. life[c] = "alive" /\ qlife[c] # "none" /\ LivesOf(c) /\ qlife[c] \in Life
      BY <1>0, <2>4, HarborOwned, ZenonT(100) DEF IInv, Lives, TypedQueues
    <3> QED
      BY <2>4, <3>1 DEF HarborSend, LivesOf, Life
  <2> QED
    BY <2>1, <2>2, <2>3, <2>4, ZenonT(100)
<1> QED
  BY <1>1, <1>2

\* A step keeps the flags of queues true to where the queues are.
LEMMA StepFlagged == ASSUME IInv, NEW t \in Thread, Step(t), Typed' PROVE Flagged'
<1>0. TypedContexts /\ TypedQueues /\ TypedPlaces /\ TypedLocals /\ ShapeOf(t) /\ Others(t)
  BY StepOthers DEF IInv, Typed, Shape
<1>1. ASSUME NEW c \in Handle, qlife'[c] = "alive"
      PROVE  Owned(c)' <=> in_global'[c] = 1 \/ release'[c] = 1
  <2>0. \/ MqCreate(t) /\ c = new[t]
        \/ qlife[c] = "alive" /\ (Owned(c) <=> in_global[c] = 1 \/ release[c] = 1)
    <3>1. CASE qlife[c] = "alive"
      BY <3>1 DEF IInv, Flagged
    <3>2. CASE qlife[c] # "alive"
      BY <1>0, <1>1, <3>2, Changes, ZenonT(100) DEF MqCreate, FreeQueue, TypedQueues
    <3> QED
      BY <3>1, <3>2, ZenonT(100)
  <2>1. CASE PopEmpty(t)
    <3>1. q[t] \in Handle /\ release[q[t]] = 0
      BY <1>0, <2>1, LocalTypes, PointersAlive, ZenonT(100) DEF IInv, PopEmpty, Serving
    <3>2. Owned(c)' <=> Owned(c) /\ c # q[t]
      BY <2>1, StepOwned, ZenonT(100)
      DEF PopEmpty, FreeQueue, Push, Delete, HarborSend, Launches, Launch
    <3>3. qlife[c] = "alive" /\ (Owned(c) <=> in_global[c] = 1 \/ release[c] = 1)
      BY <2>0, <2>1, ZenonT(100) DEF PopEmpty, MqCreate
    <3>4. /\ in_global'[c] = IF c = q[t] THEN 0 ELSE in_global[c]
          /\ release' = release
      BY <1>0, <2>1, <3>1, ZenonT(100) DEF PopEmpty, TypedQueues
    <3> QED
      BY <3>1, <3>2, <3>3, <3>4
  <2>2. CASE FreeQueue(t)
    <3>1. c # Dropped(t)
      BY <1>0, <1>1, <2>2 DEF FreeQueue, TypedQueues
    <3>2. Owned(c)' <=> Owned(c) /\ c # Dropped(t)
      BY <2>2, StepOwned, ZenonT(100)
      DEF PopEmpty, FreeQueue, Push, Delete, HarborSend, Launches, Launch
    <3> QED
      BY <1>0, <2>0, <2>2, <3>1, <3>2, ZenonT(100) DEF FreeQueue, MqCreate, TypedQueues
  <2>3. CASE Push(t) \/ Delete(t)
    <3>1. Owned(c)' <=> Owned(c) \/ c = obj[t]
      BY <2>3, StepOwned, ZenonT(100)
      DEF PopEmpty, FreeQueue, Push, Delete, HarborSend, Launches, Launch
    <3>2. ~MqCreate(t)
      BY <2>3, ZenonT(100) DEF Push, Delete, MqCreate
    <3>3. qlife[c] = "alive" /\ (Owned(c) <=> in_global[c] = 1 \/ release[c] = 1)
      BY <2>0, <3>2, ZenonT(100)
    <3>4. CASE Push(t)
      <4>1. /\ in_global'[c] = IF c = obj[t] THEN 1 ELSE in_global[c]
            /\ release'[c] = release[c]
        BY <1>0, <3>4, ZenonT(100) DEF Push, TypedQueues
      <4> QED
        BY <3>1, <3>3, <4>1, ZenonT(100)
    <3>5. CASE Delete(t)
      <4>1. /\ in_global'[c] = in_global[c]
            /\ release'[c] = IF c = obj[t] THEN 1 ELSE release[c]
        BY <1>0, <3>5, ZenonT(100) DEF Delete, TypedQueues
      <4> QED
        BY <3>1, <3>3, <4>1
    <3> QED
      BY <2>3, <3>4, <3>5, ZenonT(100)
  <2>4. CASE Launches(t)
    <3>2. c # new'[t] /\ ~MqCreate(t)
      <4>1. PICK h \in Handle : Launch(t, h)
        BY <2>4, ZenonT(100) DEF Launches
      <4>2. qlife[h] = "none" /\ new'[t] = h /\ qlife' = qlife /\ pc[t] = "callback"
        BY <1>0, <4>1, ZenonT(100) DEF Launch, queues, TypedLocals, IInv, Lives, LivesOf
      <4> QED
        BY <1>1, <4>2, ZenonT(100) DEF MqCreate
    <3>3. ~PopEmpty(t) /\ ~FreeQueue(t) /\ ~Push(t) /\ ~Delete(t)
      BY <2>4, ZenonT(100) DEF PopEmpty, FreeQueue, Push, Delete, Launches, Launch
    <3>4. ~HarborSend(t)
      BY <1>0, <2>4, ZenonT(100) DEF HarborSend, Launches, Launch, Go, TypedPlaces
    <3>1. Owned(c)' <=> Owned(c)
      BY <3>2, <3>3, <3>4, StepOwned, ZenonT(100)
    <3> QED
      BY <1>0, <2>0, <2>4, <3>1, <3>2, ZenonT(100) DEF Launches, Launch, queues
  <2>6. CASE HarborSend(t)
    <3>1. Owned(c)' <=> Owned(c) \/ c = Remote
      BY <2>6, HarborOwned, ZenonT(100)
    <3>2. qlife[c] = "alive" /\ (Owned(c) <=> in_global[c] = 1 \/ release[c] = 1)
      BY <2>0, <2>6, ZenonT(100) DEF HarborSend, MqCreate
    <3>3. /\ in_global'[c] = IF c = Remote THEN 1 ELSE in_global[c]
          /\ release'[c] = release[c]
      BY <1>0, <2>6, ZenonT(100) DEF HarborSend, TypedQueues
    <3> QED
      BY <3>1, <3>2, <3>3, ZenonT(100)
  <2>5. CASE ~PopEmpty(t) /\ ~FreeQueue(t) /\ ~Push(t) /\ ~Delete(t) /\ ~Launches(t)
             /\ ~HarborSend(t)
    <3>1. Owned(c)' <=> Owned(c)
      BY <2>5, StepOwned, ZenonT(100)
    <3>2. CASE MqCreate(t)
      <4>1. Owned(new[t])
        BY <1>0, PlacedValues, ZenonT(100) DEF IInv, PlacedIs, Owned, OwnedIn
      <4> QED
        BY <1>0, <2>0, <3>1, <3>2, <4>1, ZenonT(100) DEF MqCreate, TypedQueues
    <3>3. CASE ~MqCreate(t)
      BY <2>0, <2>5, <3>1, <3>3, Changes, ZenonT(100)
    <3> QED
      BY <3>2, <3>3, ZenonT(100)
  <2> QED
    BY <2>1, <2>2, <2>3, <2>4, <2>5, <2>6, ZenonT(100)
<1>2. \A c \in Handle : release[c] = 1 => release'[c] = 1
  BY <1>0, Changes, ZenonT(100) DEF Delete, TypedQueues
<1>3. ASSUME At(t)' = "drop"
      PROVE  /\ Dropped(t)' = Dropped(t) /\ At(t) \in Dropping
             /\ At(t) = "drop" \/ release[Dropped(t)] = 1
  <2>1. CASE Dispatch(t)
    BY <1>0, <1>3, <2>1, ZenonT(100)
    DEF Dispatch, TakeQueue, GrabContext, PopMessage, MqLength, PopEmpty, NextQueue, Return,
        Rotate, PushBack, At, Calling, Go, TypedPlaces
  <2>2. CASE DropQueue(t)
    BY <1>0, <1>3, <2>2, ZenonT(100)
    DEF DropQueue, Requeue, StartDrop, DropMessage, FreeQueue, Forget, Grab, At, Calling, Dropping,
        Dropped, Go, TypedPlaces, locals
  <2>3. CASE Finish(t) \/ Service(t)
    BY <1>0, <1>3, <2>3, ZenonT(100)
    DEF Finish, TellName, InitReturns, SetInit, Publish, Report, RetireFailed, MqCreate,
        Service, HarborSend, Exit, Launch, Grab, At, Calling, Dropping, Dropped, Go, TypedPlaces,
        locals
  <2>4. CASE Common(t)
    BY <1>0, <1>3, <2>4, ZenonT(100)
    DEF Common, Release, Delete, Push, Retire, Send, Grab, At, Calling, Dropping, Dropped, Go,
        TypedPlaces, locals
  <2> QED
    BY <2>1, <2>2, <2>3, <2>4 DEF Step
<1>4. ASSUME NEW u \in Thread, At(u)' = "drop" PROVE release'[Dropped(u)'] = 1
  <2>1. CASE u = t
    <3>1. Dropped(t) \in Handle
      BY <1>0, <1>3, <1>4, <2>1, LocalTypes, ZenonT(100) DEF IInv
    <3> QED
      BY <1>2, <1>3, <1>4, <2>1, <3>1, ZenonT(100) DEF IInv, Flagged
  <2>2. CASE u # t
    <3>1. At(u)' = At(u) /\ Dropped(u)' = Dropped(u)
      BY <1>0, <2>2, ZenonT(100) DEF Others, At, Dropped
    <3>2. Dropped(u) \in Handle
      BY <1>4, <3>1, LocalTypes, ZenonT(100) DEF IInv, Shape, Dropping
    <3> QED
      BY <1>2, <1>4, <3>1, <3>2, ZenonT(100) DEF IInv, Flagged
  <2> QED
    BY <2>1, <2>2
<1> QED
  BY <1>1, <1>4, ZenonT(100) DEF Flagged
=============================================================================
