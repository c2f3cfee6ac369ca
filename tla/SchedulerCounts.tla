--------------------------- MODULE SchedulerCounts ---------------------------
(***************************************************************************)
(* A step keeps ctx->ref the number of the references to ctx, and          *)
(* G_NODE.total the number of contexts.                                    *)
(***************************************************************************)
EXTENDS SchedulerSteps, FiniteSetTheorems

USE SMTT(100), ZenonT(100)

(* The reference counts *)
\* There are finitely many places for references.
LEMMA RPlaceFinite == IsFiniteSet(RPlace)
<1>1. IsFiniteSet({"cur"} \cup ({"new"} \cup {"obj"}))
  BY FS_Singleton, FS_Union, ZenonT(100)
<1>2. {"cur", "new", "obj"} = {"cur"} \cup ({"new"} \cup {"obj"})
  OBVIOUS
<1> QED
  BY <1>1, <1>2, ThreadAssumption, FS_Product DEF RPlace, Thread

\* So the references to a context have a number.
LEMMA WhoFinite ==
    ASSUME NEW h, NEW c
    PROVE  IsFiniteSet(Who(h, c)) /\ Cardinality(Who(h, c)) \in Nat
<1>1. Who(h, c) \subseteq RPlace
  BY DEF Who
<1> QED
  BY <1>1, RPlaceFinite, FS_Subset, FS_CardinalityType

Count(h, c) == Cardinality(Who(h, c))
Pointers == [RPlace -> Handle \cup {None}]

\* What a change of one pointer gives.
LEMMA PutType ==
    ASSUME NEW h \in Pointers, NEW p \in RPlace, NEW v \in Handle \cup {None}
    PROVE  /\ Put(h, p, v) \in Pointers /\ Put(h, p, v)[p] = v
           /\ \A r \in RPlace : r # p => Put(h, p, v)[r] = h[r]
BY DEF Put, Pointers

\* A pointer that is set counts one more, one that is cleared one less.
LEMMA PutCounts ==
    ASSUME NEW h \in Pointers, NEW p \in RPlace, NEW v \in Handle \cup {None}, NEW c \in Handle
    PROVE  /\ h[p] = None /\ v = c => Count(Put(h, p, v), c) = Count(h, c) + 1
           /\ h[p] = c /\ v = None => Count(Put(h, p, v), c) = Count(h, c) - 1
           /\ h[p] # c /\ v # c => Count(Put(h, p, v), c) = Count(h, c)
<1>0. IsFiniteSet(Who(h, c)) /\ None # c
  BY WhoFinite, NoneAssumption
<1>1. CASE h[p] = None /\ v = c
  <2>1. Who(Put(h, p, v), c) = Who(h, c) \cup {p} /\ p \notin Who(h, c)
    BY <1>0, <1>1 DEF Who, Put, Pointers
  <2>2. Cardinality(Who(Put(h, p, v), c)) = Cardinality(Who(h, c)) + 1
    BY <2>1, <1>0, FS_AddElement, ZenonT(100)
  <2> QED
    BY <2>2, <1>0, <1>1 DEF Count
<1>2. CASE h[p] = c /\ v = None
  <2>1. Who(Put(h, p, v), c) = Who(h, c) \ {p} /\ p \in Who(h, c)
    BY <1>0, <1>2 DEF Who, Put, Pointers
  <2>2. Cardinality(Who(Put(h, p, v), c)) = Cardinality(Who(h, c)) - 1
    BY <2>1, <1>0, FS_RemoveElement, ZenonT(100)
  <2> QED
    BY <2>2, <1>0, <1>2 DEF Count
<1>3. CASE h[p] # c /\ v # c
  <2>1. Who(Put(h, p, v), c) = Who(h, c)
    BY <1>3 DEF Who, Put, Pointers
  <2> QED
    BY <2>1, <1>0, <1>3 DEF Count
<1> QED
  BY <1>1, <1>2, <1>3

\* A pointer that moves from one variable to another counts as before.
LEMMA MoveCounts ==
    ASSUME NEW h \in Pointers, NEW p \in RPlace, NEW r \in RPlace, p # r, h[r] = None,
           h[p] \in Handle, NEW c \in Handle
    PROVE  Count(Put(Put(h, p, None), r, h[p]), c) = Count(h, c)
<1>1. Put(h, p, None) \in Pointers /\ Put(h, p, None)[r] = None
  BY PutType
<1>2. Count(h, c) \in Nat /\ None # c
  BY WhoFinite, NoneAssumption DEF Count
<1>3. CASE h[p] = c
  <2>1. Count(Put(h, p, None), c) = Count(h, c) - 1
    BY <1>3, PutCounts
  <2>2. Count(Put(Put(h, p, None), r, c), c) = Count(Put(h, p, None), c) + 1
    BY <1>1, PutCounts
  <2> QED
    BY <1>2, <1>3, <2>1, <2>2
<1>4. CASE h[p] # c
  <2>1. Count(Put(h, p, None), c) = Count(h, c)
    BY <1>2, <1>4, PutCounts
  <2>2. Count(Put(Put(h, p, None), r, h[p]), c) = Count(Put(h, p, None), c)
    BY <1>1, <1>2, <1>4, PutCounts
  <2> QED
    BY <2>1, <2>2
<1> QED
  BY <1>3, <1>4

Cur(t) == <<"cur", t>>
New(t) == <<"new", t>>
Obj(t) == <<"obj", t>>
HeldIs ==
    /\ Held \in Pointers
    /\ \A t \in Thread : Held[Cur(t)] = cur[t] /\ Held[New(t)] = new[t] /\ Held[Obj(t)] = ObjRef(t)

\* The places of references are the three of each thread.
LEMMA RPlaces ==
    /\ \A t \in Thread : Cur(t) \in RPlace /\ New(t) \in RPlace /\ Obj(t) \in RPlace
    /\ \A p \in RPlace : \E t \in Thread : p = Cur(t) \/ p = New(t) \/ p = Obj(t)
BY DEF RPlace, Cur, New, Obj

\* What is in each of these places.
LEMMA HeldValues == Typed => HeldIs
<1> SUFFICES ASSUME Typed PROVE HeldIs
  OBVIOUS
<1>2. \A t \in Thread : RAt(Cur(t)) = cur[t] /\ RAt(New(t)) = new[t] /\ RAt(Obj(t)) = ObjRef(t)
  BY DEF RAt, Cur, New, Obj
<1>3. \A t \in Thread : /\ cur[t] \in Handle \cup {None} /\ new[t] \in Handle \cup {None}
                        /\ ObjRef(t) \in Handle \cup {None}
  BY DEF Typed, TypedLocals, ObjRef
<1>4. \A p \in RPlace : RAt(p) \in Handle \cup {None}
  BY RPlaces, <1>2, <1>3
<1> QED
  BY RPlaces, <1>2, <1>4 DEF Held, Pointers, HeldIs

\* A step of t changes the pointers of t only.
LEMMA HeldStep ==
    ASSUME NEW t \in Thread, Typed, Typed', Others(t)
    PROVE  /\ \A p \in RPlace : p \notin {Cur(t), New(t), Obj(t)} => Held'[p] = Held[p]
           /\ Cur(t) \in RPlace /\ Held[Cur(t)] = cur[t] /\ Held'[Cur(t)] = cur'[t]
           /\ New(t) \in RPlace /\ Held[New(t)] = new[t] /\ Held'[New(t)] = new'[t]
           /\ Obj(t) \in RPlace /\ Held[Obj(t)] = ObjRef(t) /\ Held'[Obj(t)] = ObjRef(t)'
           /\ Cur(t) # New(t) /\ Cur(t) # Obj(t) /\ New(t) # Obj(t)
           /\ Held \in Pointers /\ Held' \in Pointers
<1>1. HeldIs
  BY HeldValues
<1>2. HeldIs'
  <2>1. (Typed => HeldIs)'
    BY HeldValues, PTL
  <2> QED
    BY <2>1
<1>3. \A u \in Thread : u # t => /\ cur'[u] = cur[u] /\ new'[u] = new[u] /\ ObjRef(u)' = ObjRef(u)
  BY DEF Others, ObjRef
<1>4. Cur(t) # New(t) /\ Cur(t) # Obj(t) /\ New(t) # Obj(t)
  BY DEF Cur, New, Obj
<1>5. ASSUME NEW p \in RPlace, p \notin {Cur(t), New(t), Obj(t)} PROVE Held'[p] = Held[p]
  <2>1. PICK u \in Thread : p = Cur(u) \/ p = New(u) \/ p = Obj(u)
    BY RPlaces
  <2>2. u # t
    BY <1>5, <2>1
  <2> QED
    BY <1>1, <1>2, <1>3, <2>1, <2>2, ZenonT(100) DEF HeldIs, Cur, New, Obj
<1> QED
  BY <1>1, <1>2, <1>4, <1>5, RPlaces DEF HeldIs, Cur, New, Obj

\* The four ways in which a step changes the pointers, and the counts after it.
LEMMA HeldSame ==
    ASSUME NEW t \in Thread, Typed, Typed', Others(t),
           cur'[t] = cur[t], new'[t] = new[t], ObjRef(t)' = ObjRef(t)
    PROVE  Held' = Held
BY HeldStep DEF Pointers

\* A step that changes one of the places of its thread changes one pointer.
LEMMA HeldPut ==
    ASSUME NEW t \in Thread, Typed, Typed', Others(t), NEW p \in {Cur(t), New(t), Obj(t)},
           \A r \in {Cur(t), New(t), Obj(t)} : r # p => Held'[r] = Held[r]
    PROVE  Held' = Put(Held, p, Held'[p])
<1>1. /\ Held \in Pointers /\ Held' \in Pointers /\ p \in RPlace
      /\ \A r \in RPlace : r # p => Held'[r] = Held[r]
  BY HeldStep
<1> QED
  BY <1>1 DEF Put, Pointers

\* A step that clears cur or new and sets obj changes two.
LEMMA HeldMove ==
    ASSUME NEW t \in Thread, Typed, Typed', Others(t),
           NEW p \in {Cur(t), New(t)}, Held'[p] = None,
           \A r \in {Cur(t), New(t)} : r # p => Held'[r] = Held[r]
    PROVE  Held' = Put(Put(Held, p, None), Obj(t), Held'[Obj(t)])
<1>1. /\ Held \in Pointers /\ Held' \in Pointers /\ p \in RPlace /\ Obj(t) \in RPlace /\ p # Obj(t)
      /\ \A r \in RPlace : r # p /\ r # Obj(t) => Held'[r] = Held[r]
  BY HeldStep
<1> QED
  BY <1>1 DEF Put, Pointers

\* A new reference that is counted keeps the counts exact (skynet_context_grab).
LEMMA CountsUp ==
    ASSUME Typed, Counts, NEW p \in RPlace, Held[p] = None, NEW d \in Handle,
           Held' = Put(Held, p, d), ref' = [ref EXCEPT ![d] = @ + 1], slot' = slot
    PROVE  Counts'
<1> SUFFICES ASSUME NEW c \in Handle
             PROVE  ref'[c] = Cardinality(Who(Held', c)) + (IF slot'[c] THEN 1 ELSE 0) + Reserved(c)
  BY DEF Counts
<1>1. Held \in Pointers /\ None # c /\ ref \in [Handle -> Nat] /\ Count(Held, c) \in Nat
  BY HeldValues, WhoFinite, NoneAssumption DEF HeldIs, Typed, TypedContexts, Count
<1>2. Count(Held', c) = Count(Held, c) + (IF c = d THEN 1 ELSE 0)
  BY <1>1, PutCounts
<1>3. ref'[c] = ref[c] + (IF c = d THEN 1 ELSE 0)
  BY <1>1
<1>4. ref[c] = Count(Held, c) + (IF slot[c] THEN 1 ELSE 0) + Reserved(c) /\ Reserved(c) \in {0, 1}
  BY DEF Counts, Count, Reserved
<1> QED
  BY <1>1, <1>2, <1>3, <1>4 DEF Count

\* So does one that is dropped and subtracted (skynet_context_release).
LEMMA CountsDown ==
    ASSUME Typed, Counts, NEW p \in RPlace, Held[p] \in Handle,
           Held' = Put(Held, p, None), ref' = [ref EXCEPT ![Held[p]] = @ - 1], slot' = slot
    PROVE  Counts'
<1> SUFFICES ASSUME NEW c \in Handle
             PROVE  ref'[c] = Cardinality(Who(Held', c)) + (IF slot'[c] THEN 1 ELSE 0) + Reserved(c)
  BY DEF Counts
<1>1. Held \in Pointers /\ None # c /\ ref \in [Handle -> Nat] /\ Count(Held, c) \in Nat
  BY HeldValues, WhoFinite, NoneAssumption DEF HeldIs, Typed, TypedContexts, Count
<1>2. Count(Held', c) = Count(Held, c) - (IF c = Held[p] THEN 1 ELSE 0)
  BY <1>1, PutCounts
<1>3. ref'[c] = ref[c] - (IF c = Held[p] THEN 1 ELSE 0)
  BY <1>1
<1>4. ref[c] = Count(Held, c) + (IF slot[c] THEN 1 ELSE 0) + Reserved(c) /\ Reserved(c) \in {0, 1}
  BY DEF Counts, Count, Reserved
<1> QED
  BY <1>1, <1>2, <1>3, <1>4 DEF Count

\* The table's reference passes to the thread that retires the handle.
LEMMA CountsRetired ==
    ASSUME Typed, Counts, NEW p \in RPlace, Held[p] = None, NEW d \in Handle, slot[d],
           Held' = Put(Held, p, d), ref' = ref, slot' = [slot EXCEPT ![d] = FALSE]
    PROVE  Counts'
<1> SUFFICES ASSUME NEW c \in Handle
             PROVE  ref'[c] = Cardinality(Who(Held', c)) + (IF slot'[c] THEN 1 ELSE 0) + Reserved(c)
  BY DEF Counts
<1>1. Held \in Pointers /\ None # c /\ slot \in [Handle -> BOOLEAN] /\ Count(Held, c) \in Nat
  BY HeldValues, WhoFinite, NoneAssumption DEF HeldIs, Typed, TypedContexts, Count
<1>2. Count(Held', c) = Count(Held, c) + (IF c = d THEN 1 ELSE 0)
  BY <1>1, PutCounts
<1>3. ref[c] = Count(Held, c) + (IF slot[c] THEN 1 ELSE 0) + Reserved(c) /\ Reserved(c) \in {0, 1}
  BY DEF Counts, Count, Reserved
<1>4. slot'[c] = IF c = d THEN FALSE ELSE slot[c]
  BY <1>1
<1> QED
  BY <1>1, <1>2, <1>3, <1>4 DEF Count

\* A new context has the references of the table and of its creator.
LEMMA CountsLaunched ==
    ASSUME Typed, Counts, NEW p \in RPlace, Held[p] = None, NEW d \in Handle, ref[d] = 0,
           Held' = Put(Held, p, d), ref' = [ref EXCEPT ![d] = 2], slot' = [slot EXCEPT ![d] = TRUE]
    PROVE  Counts'
<1> SUFFICES ASSUME NEW c \in Handle
             PROVE  ref'[c] = Cardinality(Who(Held', c)) + (IF slot'[c] THEN 1 ELSE 0) + Reserved(c)
  BY DEF Counts
<1>1. /\ Held \in Pointers /\ None # c /\ slot \in [Handle -> BOOLEAN] /\ Count(Held, c) \in Nat
      /\ ref \in [Handle -> Nat]
  BY HeldValues, WhoFinite, NoneAssumption DEF HeldIs, Typed, TypedContexts, Count
<1>2. Count(Held', c) = Count(Held, c) + (IF c = d THEN 1 ELSE 0)
  BY <1>1, PutCounts
<1>3. ref[c] = Count(Held, c) + (IF slot[c] THEN 1 ELSE 0) + Reserved(c) /\ Reserved(c) \in {0, 1}
  BY DEF Counts, Count, Reserved
<1>4. ref'[c] = (IF c = d THEN 2 ELSE ref[c]) /\ slot'[c] = (IF c = d THEN TRUE ELSE slot[c])
  BY <1>1
<1> QED
  BY <1>1, <1>2, <1>3, <1>4 DEF Count

\* And one that goes from one pointer to another.
LEMMA CountsMoved ==
    ASSUME Typed, Counts, NEW p \in RPlace, NEW r \in RPlace, p # r, Held[r] = None,
           Held[p] \in Handle, Held' = Put(Put(Held, p, None), r, Held[p]), ref' = ref, slot' = slot
    PROVE  Counts'
<1>1. \A c \in Handle : Count(Held', c) = Count(Held, c)
  BY HeldValues, MoveCounts DEF HeldIs
<1> QED
  BY <1>1 DEF Counts, Count

\* What is pointed to has a count, because the count is exact.
LEMMA CountsPointed == Typed /\ Counts => Pointed
<1> SUFFICES ASSUME Typed, Counts, NEW c \in Handle,
                    \/ slot[c] \/ c = Remote
                    \/ \E t \in Thread : c \in {cur[t], new[t], ObjRef(t)}
             PROVE  ref[c] # 0
  BY DEF Pointed
<1>1. /\ Cardinality(Who(Held, c)) \in Nat /\ IsFiniteSet(Who(Held, c))
      /\ Reserved(c) = IF c = Remote THEN 1 ELSE 0
  BY WhoFinite DEF Reserved
<1>2. CASE slot[c] \/ c = Remote
  BY <1>1, <1>2 DEF Counts
<1>3. CASE \E t \in Thread : c \in {cur[t], new[t], ObjRef(t)}
  <2>1. Who(Held, c) # {}
    BY <1>3, HeldValues, RPlaces DEF HeldIs, Who
  <2>2. Cardinality(Who(Held, c)) # 0
    BY <1>1, <2>1, FS_EmptySet
  <2> QED
    BY <1>1, <2>2 DEF Counts
<1> QED
  BY <1>2, <1>3

\* A step keeps the counts of references exact.
LEMMA StepCounts ==
    ASSUME NEW t \in Thread, Typed, Typed', Shape, Counts, Lives, Step(t)
    PROVE  Counts'
<1>0. ShapeOf(t) /\ Others(t)
  BY StepOthers DEF Shape
<1>1. HeldIs /\ Cur(t) \in RPlace /\ New(t) \in RPlace /\ Obj(t) \in RPlace
  BY HeldValues, RPlaces
<1>2. /\ Held'[Cur(t)] = cur'[t] /\ Held'[New(t)] = new'[t] /\ Held'[Obj(t)] = ObjRef(t)'
      /\ Held[Cur(t)] = cur[t] /\ Held[New(t)] = new[t] /\ Held[Obj(t)] = ObjRef(t)
      /\ Cur(t) # New(t) /\ Cur(t) # Obj(t) /\ New(t) # Obj(t)
  BY <1>0, HeldStep
<1>3. TypedContexts /\ TypedPlaces /\ TypedLocals
  BY DEF Typed
<1>4. ASSUME cur'[t] = cur[t], new'[t] = new[t], ObjRef(t)' = ObjRef(t), ref' = ref, slot' = slot
      PROVE  Counts'
  <2>1. Held' = Held
    BY <1>0, <1>4, HeldSame
  <2> QED
    BY <1>4, <2>1 DEF Counts
  \* skynet_handle_grab.
<1>5. ASSUME NEW h, Registered(h), h \in Handle \cup {None}, pc[t] \notin Calling, pc'[t] # "delete",
             ref' = [ref EXCEPT ![h] = @ + 1], slot' = slot,
             obj'[t] = h, cur'[t] = cur[t], new'[t] = new[t]
      PROVE  Counts'
  <2>1. h \in Handle
    BY <1>5 DEF Registered
  <2>2. Held[Obj(t)] = None /\ Held'[Obj(t)] = h
    BY <1>0, <1>2, <1>5, ZenonT(100) DEF ObjRef, ShapeOf
  <2>3. Held' = Put(Held, Obj(t), h)
    BY <1>0, <1>2, <1>5, <2>2, HeldPut, ZenonT(100)
  <2> QED
    BY <1>1, <1>5, <2>1, <2>2, <2>3, CountsUp, ZenonT(100)
  \* A counted pointer becomes the one that is released.
<1>6. ASSUME NEW p \in {Cur(t), New(t)}, Held[p] \in Handle, Held'[p] = None,
             obj'[t] = Held[p], pc[t] \notin Calling, pc'[t] # "delete",
             \A r \in {Cur(t), New(t)} : r # p => Held'[r] = Held[r], ref' = ref, slot' = slot
      PROVE  Counts'
  <2>1. Held[Obj(t)] = None /\ Held'[Obj(t)] = Held[p]
    BY <1>0, <1>2, <1>6, ZenonT(100) DEF ObjRef, ShapeOf
  <2>2. Held' = Put(Put(Held, p, None), Obj(t), Held[p])
    BY <1>0, <1>6, <2>1, HeldMove, ZenonT(100)
  <2> QED
    BY <1>1, <1>2, <1>6, <2>1, <2>2, CountsMoved, ZenonT(100)
  \* skynet_handle_retire.
<1>7. ASSUME NEW h \in Handle, pc[t] \notin Calling, pc'[t] # "delete", ref' = ref,
             cur'[t] = cur[t], new'[t] = new[t], slot' = [slot EXCEPT ![h] = FALSE],
             obj'[t] = IF slot[h] THEN h ELSE obj[t]
      PROVE  Counts'
  <2>1. CASE slot[h]
    <3>1. Held[Obj(t)] = None /\ Held'[Obj(t)] = h
      BY <1>0, <1>2, <1>7, <2>1, ZenonT(100) DEF ObjRef, ShapeOf
    <3>2. Held' = Put(Held, Obj(t), h)
      BY <1>0, <1>2, <1>7, <3>1, HeldPut, ZenonT(100)
    <3> QED
      BY <1>1, <1>7, <2>1, <3>1, <3>2, CountsRetired, ZenonT(100)
  <2>2. CASE ~slot[h]
    <3>1. slot' = slot
      BY <1>3, <1>7, <2>2 DEF TypedContexts
    <3>2. ObjRef(t)' = ObjRef(t)
      BY <1>7, <2>2 DEF ObjRef, Calling
    <3> QED
      BY <1>4, <1>7, <3>1, <3>2
  <2> QED
    BY <2>1, <2>2
<1>8. CASE TakeQueue(t) \/ PopMessage(t) \/ MqLength(t) \/ NextQueue(t) \/ Return(t)
  BY <1>3, <1>4, <1>8, ZenonT(100)
  DEF TakeQueue, PopMessage, MqLength, NextQueue, Return, Go, ObjRef, contexts, locals, TypedPlaces
<1>9. CASE Requeue(t) \/ StartDrop(t) \/ FreeQueue(t)
  BY <1>3, <1>4, <1>9, ZenonT(100)
  DEF Requeue, StartDrop, FreeQueue, Forget, Go, ObjRef, contexts, locals, TypedPlaces
<1>10. CASE MqCreate(t) \/ TellName(t) \/ SetInit(t) \/ Publish(t) \/ Report(t) \/ Push(t)
            \/ HarborSend(t)
  BY <1>3, <1>4, <1>10, ZenonT(100)
  DEF MqCreate, TellName, SetInit, Publish, Report, Push, HarborSend, Go, ObjRef, contexts, locals, TypedPlaces
<1>11. CASE Delete(t)
  <2>1. ObjRef(t) = None /\ ObjRef(t)' = None
    BY <1>3, <1>11, ZenonT(100) DEF Delete, ObjRef, TypedLocals
  <2> QED
    BY <1>4, <1>11, <2>1, ZenonT(100) DEF Delete
<1>12. CASE GrabContext(t)
  <2>1. q[t] \in Handle /\ cur[t] = None /\ ObjRef(t)' = ObjRef(t)
    BY <1>0, <1>3, <1>12, ZenonT(100) DEF GrabContext, TypedLocals, TypedPlaces, ShapeOf, At, Calling, Go, ObjRef
  <2>2. CASE slot[q[t]]
    <3>1. cur'[t] = q[t]
      BY <1>3, <1>12, <2>2 DEF GrabContext, TypedLocals
    <3>2. Held' = Put(Held, Cur(t), q[t])
      BY <1>0, <1>2, <1>12, <2>1, <3>1, HeldPut, ZenonT(100) DEF GrabContext
    <3> QED
      BY <1>1, <1>2, <1>12, <2>1, <2>2, <3>2, CountsUp, ZenonT(100) DEF GrabContext
  <2>3. CASE ~slot[q[t]]
    BY <1>4, <1>12, <2>1, <2>3, ZenonT(100) DEF GrabContext
  <2> QED
    BY <2>2, <2>3
<1>13. CASE DropMessage(t)
  <2>1. Head(mq[Dropped(t)]).source \in Handle \cup {None}
    BY <1>0, <1>13, SourceType, LocalTypes, ZenonT(100) DEF DropMessage, At, Calling, Dropping
  <2> QED
    BY <1>3, <1>4, <1>5, <1>13, <2>1, ZenonT(100)
    DEF DropMessage, Grab, Go, ObjRef, TypedPlaces, TypedLocals, Calling
<1>14. CASE Sends(t)
  BY <1>3, <1>4, <1>5, <1>14, ZenonT(100) DEF Sends, Send, Grab, Go, ObjRef, TypedPlaces, TypedLocals, Calling
<1>15. CASE Exits(t)
  BY <1>3, <1>4, <1>5, <1>15, MonitorType, ZenonT(100)
  DEF Exits, Exit, Grab, Go, ObjRef, TypedPlaces, TypedLocals, Calling
<1>16. CASE Release(t)
  <2>1. obj[t] \in Handle /\ Held[Obj(t)] = obj[t]
    BY <1>0, <1>2, <1>16, LocalTypes, ZenonT(100) DEF Release, Calling, ObjRef
  <2>2. ObjRef(t)' = None
    <3>1. CASE ref[obj[t]] = 1
      BY <1>3, <1>16, <3>1, ZenonT(100) DEF Release, ObjRef, Go, TypedPlaces
    <3>2. CASE ref[obj[t]] # 1
      BY <1>3, <1>16, <3>2, ZenonT(100) DEF Release, ObjRef, TypedLocals
    <3> QED
      BY <3>1, <3>2
  <2>3. Held' = Put(Held, Obj(t), None)
    BY <1>0, <1>2, <1>16, <2>2, HeldPut, ZenonT(100) DEF Release
  <2> QED
    BY <1>1, <1>16, <2>1, <2>3, CountsDown, ZenonT(100) DEF Release
<1>17. CASE PopEmpty(t) \/ PushBack(t) \/ Rotate(t)
  <2>1. cur[t] \in Handle
    BY <1>0, <1>17, LocalTypes, ZenonT(100) DEF PopEmpty, PushBack, Rotate, Serving
  <2>2. CASE Rotate(t) /\ globalmq # << >>
    BY <1>3, <1>4, <2>2, ZenonT(100) DEF Rotate, Go, ObjRef, contexts, TypedPlaces
  <2>3. CASE PopEmpty(t) \/ PushBack(t) \/ (Rotate(t) /\ globalmq = << >>)
    <3>1. /\ pc[t] \notin Calling /\ pc'[t] # "delete" /\ cur'[t] = None /\ obj'[t] = cur[t]
          /\ new'[t] = new[t] /\ ref' = ref /\ slot' = slot
      <4>1. CASE PopEmpty(t)
        BY <1>3, <4>1 DEF PopEmpty, Go, contexts, TypedPlaces, TypedLocals, Calling
      <4>2. CASE PushBack(t)
        BY <1>3, <4>2 DEF PushBack, Go, contexts, TypedPlaces, TypedLocals, Calling
      <4>3. CASE Rotate(t) /\ globalmq = << >>
        BY <1>3, <4>3 DEF Rotate, Go, contexts, TypedPlaces, TypedLocals, Calling
      <4> QED
        BY <2>3, <4>1, <4>2, <4>3, ZenonT(100)
    <3> QED
      BY <1>2, <1>6, <2>1, <3>1, ZenonT(100)
  <2> QED
    BY <1>17, <2>2, <2>3
<1>18. CASE InitEnds(t)
  <2>1. new[t] \in Handle
    BY <1>0, <1>18, LocalTypes, ZenonT(100) DEF InitEnds, InitReturns
  <2>2. /\ pc[t] \notin Calling /\ pc'[t] # "delete" /\ new'[t] = None /\ obj'[t] = new[t]
        /\ cur'[t] = cur[t] /\ ref' = ref /\ slot' = slot
    BY <1>3, <1>18 DEF InitEnds, InitReturns, Go, contexts, TypedPlaces, TypedLocals, Calling
  <2> QED
    BY <1>2, <1>6, <2>1, <2>2, ZenonT(100)
<1>19. CASE Retire(t)
  <2>1. victim[t] \in Handle
    BY <1>0, <1>19, LocalTypes, ZenonT(100) DEF Retire
  <2> QED
    BY <1>3, <1>7, <1>19, <2>1, ZenonT(100) DEF Retire, Go, TypedPlaces, TypedLocals, Calling
<1>20. CASE RetireFailed(t)
  <2>1. made[t] \in Handle
    BY <1>0, <1>20, LocalTypes, ZenonT(100) DEF RetireFailed, Launching
  <2> QED
    BY <1>3, <1>7, <1>20, <2>1, ZenonT(100) DEF RetireFailed, Go, TypedPlaces, TypedLocals, Calling
<1>21. CASE Launches(t)
  <2>1. PICK h \in Handle : Launch(t, h)
    BY <1>21 DEF Launches
  <2>2. Held[New(t)] = None /\ ref[h] = 0
    BY <1>0, <1>2, <2>1, ZenonT(100) DEF Launch, ShapeOf, At, Calling, Lives, LivesOf
  <2>3. Held' = Put(Held, New(t), h)
    BY <1>0, <1>2, <1>3, <2>1, HeldPut, ZenonT(100) DEF Launch, Go, ObjRef, TypedPlaces, TypedLocals
  <2> QED
    BY <1>1, <2>1, <2>2, <2>3, CountsLaunched, ZenonT(100) DEF Launch
<1> QED
  BY <1>8, <1>9, <1>10, <1>11, <1>12, <1>13, <1>14, <1>15, <1>16, <1>17, <1>18, <1>19, <1>20, <1>21
  DEF Step, Dispatch, DropQueue, Finish, Service, Common, Sends, Exits, Launches, InitEnds

\* A step keeps G_NODE.total exact (context_inc, context_dec).
LEMMA StepTotalled == ASSUME IInv, NEW t \in Thread, Step(t) PROVE Totalled'
<1>0. TypedContexts /\ TypedQueues /\ ShapeOf(t) /\ IsFiniteSet(Counted) /\ total = Cardinality(Counted)
  BY DEF IInv, Typed, Shape, Totalled
<1>1. CASE MqCreate(t)
  <2>0. new[t] \in Handle /\ life[new[t]] = "alive" /\ qlife[new[t]] = "none"
    BY <1>0, <1>1, LocalTypes, PointersAlive, ZenonT(100) DEF MqCreate, IInv, Reachable
  <2>1. /\ new[t] \in Handle /\ life[new[t]] = "alive" /\ qlife[new[t]] = "none"
        /\ new[t] # Remote
    BY <2>0, NoneAssumption DEF IInv, Reachable, Existing
  <2>2. Counted' = Counted \cup {new[t]} /\ new[t] \notin Counted
    BY <1>0, <1>1, <2>1, ZenonT(100) DEF Counted, MqCreate, TypedQueues
  <2>3. IsFiniteSet(Counted') /\ Cardinality(Counted') = Cardinality(Counted) + 1
    BY <1>0, <2>2, FS_AddElement, ZenonT(100)
  <2> QED
    BY <1>0, <1>1, <2>3, ZenonT(100) DEF MqCreate, Totalled
<1>2. CASE Delete(t)
  <2>0. obj[t] \in Handle /\ life[obj[t]] = "alive" /\ qlife[obj[t]] # "none" /\ ref[obj[t]] = 0
    BY <1>0, <1>2, LocalTypes, NoneAssumption, ZenonT(100)
    DEF Delete, IInv, Deleting, Calling, Reachable, Existing
  <2>1. /\ obj[t] \in Handle /\ life[obj[t]] = "alive" /\ qlife[obj[t]] # "none"
        /\ obj[t] # Remote
    BY <2>0, Counted1
  <2>2. Counted' = Counted \ {obj[t]} /\ obj[t] \in Counted
    BY <1>0, <1>2, <2>1, ZenonT(100) DEF Counted, Delete, TypedContexts
  <2>3. IsFiniteSet(Counted') /\ Cardinality(Counted') = Cardinality(Counted) - 1
    BY <1>0, <2>2, FS_RemoveElement, ZenonT(100)
  <2> QED
    BY <1>0, <1>2, <2>3, ZenonT(100) DEF Delete, Totalled
<1>3. CASE ~MqCreate(t) /\ ~Delete(t)
  <2>1. ASSUME NEW c \in Handle PROVE c \in Counted' <=> c \in Counted
    <3>1. LivesOf(c)
      BY DEF IInv, Lives
    <3>2. CASE Launches(t)
      BY <1>0, <3>1, <3>2, ZenonT(100) DEF Launches, Launch, queues, Counted, LivesOf, TypedContexts
    <3>3. CASE FreeQueue(t)
      <4>1. Dropped(t) \in Handle /\ qlife[Dropped(t)] = "alive"
        BY <1>0, <3>3, LocalTypes, QueuesPresent, ZenonT(100)
        DEF IInv, FreeQueue, At, Calling, Dropping
      <4> QED
        BY <1>0, <3>3, <4>1 DEF FreeQueue, contexts, Counted, TypedQueues
    <3>4. CASE ~Launches(t) /\ ~FreeQueue(t)
      BY <1>3, <3>4, Changes, ZenonT(100) DEF Counted
    <3> QED
      BY <3>2, <3>3, <3>4
  <2>2. Counted' = Counted
    BY <2>1 DEF Counted
  <2> QED
    BY <1>0, <1>3, <2>2, Changes DEF Totalled
<1> QED
  BY <1>1, <1>2, <1>3
=============================================================================
