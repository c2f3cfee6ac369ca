-------------------------- MODULE SchedulerProofs ---------------------------
(***************************************************************************)
(* The inductive invariant of Scheduler and the five properties that follow *)
(* from it, for any numbers of workers, feeders, services and messages.    *)
(***************************************************************************)
EXTENDS SchedulerLives, SchedulerCounts

USE SMTT(100), ZenonT(100)

(* The invariant *)
\* The services that bootstrap started satisfy the invariant.
LEMMA InitInv == Init => IInv
<1> SUFFICES ASSUME Init PROVE IInv
  OBVIOUS
<1>0. Running \subseteq Handle /\ Initial \in Seq(Handle) /\ Len(Initial) \in Nat
  BY InitialAssumption DEF Running
<1>16. Uncounted \in {0, 1} /\ \A c \in Handle : Reserved(c) \in {0, 1}
  BY DEF Uncounted, Reserved
<1>17. ref \in [Handle -> Nat] /\ total \in Int
  BY <1>0, <1>16 DEF Init
<1>1. /\ TypedContexts /\ TypedPlaces /\ TypedLocals /\ known \subseteq Handle
  BY <1>0, <1>17, InitialAssumption DEF Init, TypedContexts, TypedPlaces, TypedLocals, Life, Pc
<1>2. TypedQueues
  <2>1. [source |-> None, type |-> "request"] \in Message
    BY DEF Message
  <2>2. mq \in [Handle -> Seq(Message)]
    BY <2>1 DEF Init
  <2> QED
    BY <1>0, <2>2 DEF Init, TypedQueues, Life
<1>3. Typed
  BY <1>1, <1>2 DEF Typed
<1>4. Shape
  BY DEF Init, Shape, ShapeOf, At, Calling, Serving, Launching, Dropping
<1>5. \A p \in RPlace : Held[p] = None
  BY <1>3, HeldValues, RPlaces DEF Init, HeldIs, ObjRef
<1>6. Counts
  <2> SUFFICES ASSUME NEW c \in Handle
               PROVE  ref[c] = Cardinality(Who(Held, c)) + (IF slot[c] THEN 1 ELSE 0) + Reserved(c)
    BY DEF Counts
  <2>1. Who(Held, c) = {}
    BY <1>5, NoneAssumption DEF Who
  <2>2. Cardinality(Who(Held, c)) = 0
    BY <2>1, FS_EmptySet
  <2>3. ref[c] = (IF c \in Running THEN 1 ELSE 0) + Reserved(c) /\ Reserved(c) \in {0, 1}
    BY <1>16 DEF Init
  <2>4. slot[c] <=> c \in Running
    BY ZenonT(100) DEF Init
  <2>5. CASE slot[c]
    BY <2>2, <2>3, <2>4, <2>5
  <2>6. CASE ~slot[c]
    BY <2>2, <2>3, <2>4, <2>6
  <2> QED
    BY <2>5, <2>6, ZenonT(100)
<1>7. Lives
  <2>1. \A c \in Handle : c \notin Running => Reserved(c) = 0
    BY <1>0, RemoteAssumption, NoneAssumption DEF Reserved
  <2> QED
    BY <2>1 DEF Init, Lives, LivesOf
<1>8. Reachable
  <2>1. Running \cup {None} \subseteq Existing
    BY <1>0 DEF Init, Existing
  <2>2. ASSUME NEW c \in Handle, NEW i \in 1 .. Len(mq[c]) PROVE mq[c][i].source = None
    <3>1. CASE c \in Running
      <4>1. mq[c] = <<[source |-> None, type |-> "request"]>>
        BY <3>1 DEF Init
      <4>2. i = 1
        BY <2>2, <4>1
      <4> QED
        BY <4>1, <4>2
    <3>2. CASE c \notin Running
      BY <2>2, <3>2 DEF Init
    <3> QED
      BY <3>1, <3>2
  <2> QED
    BY <2>1, <2>2, MonitorAssumption, RemoteAssumption DEF Init, Reachable
<1>9. Deleting
  BY DEF Init, Deleting
<1>10. \A p \in QPlace : Placed[p] = None
  <2>1. \A t \in Thread : q[t] = None /\ nq[t] = None /\ new[t] = None /\ MadeQ(t) = None
    BY DEF Init, MadeQ
  <2> QED
    BY <1>3, <2>1, PlacedValues, QPlaces DEF PlacedIs
<1>11. Unique
  BY <1>0, <1>10, InitialAssumption, NoneAssumption DEF Init, Unique, UniqueIn
<1>12. \A c \in Handle : Owned(c) <=> c \in Running
  BY <1>10, NoneAssumption DEF Init, Owned, OwnedIn, Running
<1>13. Present /\ Flagged
  BY <1>12 DEF Init, Present, Flagged, At, Calling
<1>14. Initialised
  BY DEF Init, Initialised
<1>15. Totalled
  <2>1. Counted = Running \ {Remote}
    BY <1>0 DEF Init, Counted
  <2>2. Initial \in Bijection(1 .. Len(Initial), Running)
    <3>1. Initial \in [1 .. Len(Initial) -> Running]
      BY <1>0 DEF Running
    <3>2. \A i, j \in 1 .. Len(Initial) : Initial[i] = Initial[j] => i = j
      BY InitialAssumption
    <3>3. \A c \in Running : \E i \in 1 .. Len(Initial) : Initial[i] = c
      BY DEF Running
    <3> QED
      BY <3>1, <3>2, <3>3 DEF Bijection, Injection, IsInjective, Surjection
  <2>3. IsFiniteSet(1 .. Len(Initial)) /\ Cardinality(1 .. Len(Initial)) = Len(Initial)
    BY <1>0, FS_Interval
  <2>4. IsFiniteSet(Running) /\ Cardinality(Running) = Len(Initial)
    BY <2>2, <2>3, FS_Bijection DEF ExistsBijection
  <2>5. CASE Remote = None
    <3>1. Counted = Running /\ total = Len(Initial)
      BY <1>0, <2>1, <2>5, NoneAssumption DEF Init, Uncounted
    <3> QED
      BY <2>4, <3>1 DEF Totalled
  <2>6. CASE Remote # None
    <3>1. Remote \in Running /\ total = Len(Initial) - 1
      BY <1>0, <2>6, RemoteAssumption DEF Init, Uncounted
    <3>2. IsFiniteSet(Running \ {Remote}) /\ Cardinality(Running \ {Remote}) = Cardinality(Running) - 1
      BY <2>4, <3>1, FS_RemoveElement
    <3> QED
      BY <2>1, <2>4, <3>1, <3>2 DEF Totalled
  <2> QED
    BY <2>5, <2>6
<1> QED
  BY <1>3, <1>4, <1>6, <1>7, <1>8, <1>9, <1>11, <1>13, <1>14, <1>15, CountsPointed DEF IInv

\* Every step of a thread keeps it.
LEMMA StepInv == ASSUME IInv, NEW t \in Thread, Step(t) PROVE IInv'
<1>1. Typed' /\ Shape'
  BY ReleaseHeld, StepTyped, StepShape DEF IInv, Shape
<1>2. Counts' /\ Lives' /\ Reachable' /\ Deleting'
  BY <1>1, StepCounts, StepLives, StepReachable, StepDeleting DEF IInv
<1>3. Unique' /\ Present' /\ Flagged'
  BY <1>1, StepOwned, StepPresent, StepFlagged DEF Unique
<1>4. Initialised' /\ Totalled'
  BY StepInitialised, StepTotalled
<1>5. (Typed /\ Counts => Pointed)'
  BY CountsPointed, PTL
<1> QED
  BY <1>1, <1>2, <1>3, <1>4, <1>5 DEF IInv

\* It depends on the variables only.
LEMMA StutterInv == ASSUME IInv, UNCHANGED vars PROVE IInv'
<1>1. /\ UNCHANGED <<slot, ref, life, init, total, known, mq, in_global, release, qlife, globalmq>>
      /\ UNCHANGED <<pc, ret, q, nq, cur, obj, new, made, victim>>
  BY DEF vars, contexts, queues, locals
<1>2. Typed'
  BY <1>1, ZenonT(100) DEF IInv, Typed, TypedContexts, TypedQueues, TypedPlaces, TypedLocals
<1>8. Shape'
  <2> SUFFICES ASSUME NEW u \in Thread PROVE ShapeOf(u)'
    BY DEF Shape
  <2>1. ShapeOf(u) /\ At(u)' = At(u)
    BY <1>1 DEF IInv, Shape, At
  <2> QED
    BY <1>1, <2>1, ZenonT(100) DEF ShapeOf
<1>3. Held' = Held /\ Placed' = Placed
  BY <1>1 DEF Held, RAt, ObjRef, Placed, QAt, MadeQ
<1>4. Counts' /\ Pointed'
  BY <1>1, <1>3, ZenonT(100) DEF IInv, Counts, Pointed, ObjRef
<1>7. Lives' /\ Reachable' /\ Deleting'
  BY <1>1, ZenonT(100) DEF IInv, Lives, LivesOf, Reachable, Existing, Deleting
<1>5. Unique' /\ Present' /\ Flagged'
  BY <1>1, <1>3, ZenonT(100) DEF IInv, Unique, Present, Owned, Flagged, At, Dropped
<1>6. Initialised' /\ Totalled'
  BY <1>1, ZenonT(100) DEF IInv, Initialised, Starting, At, Totalled, Counted
<1> QED
  BY <1>2, <1>8, <1>4, <1>5, <1>6, <1>7, ZenonT(100) DEF IInv

\* The invariant holds in every state.
THEOREM Invariance == Spec => []IInv
<1>1. IInv /\ [Next]_vars => IInv'
  BY NextIsStep, StepInv, StutterInv
<1> QED
  BY InitInv, <1>1, PTL DEF Spec

(* What follows from it *)
\* A set whose members are all equal has at most one.
LEMMA AtMostOne ==
    ASSUME NEW S, \A x, y \in S : x = y PROVE IsFiniteSet(S) /\ Cardinality(S) <= 1
<1>1. CASE S = {}
  BY <1>1, FS_EmptySet
<1>2. CASE S # {}
  <2>1. PICK x \in S : TRUE
    BY <1>2
  <2>2. S = {x}
    BY <2>1
  <2>3. IsFiniteSet({x}) /\ Cardinality({x}) = 1
    BY FS_Singleton, ZenonT(100)
  <2> QED
    BY <2>2, <2>3
<1> QED
  BY <1>1, <1>2

\* The places of a queue in module Scheduler are the ones of the invariant.
LEMMA OwnersAre ==
    ASSUME Typed, NEW c \in Handle, NEW x \in Owners(c)
    PROVE  \/ \E i \in 1 .. Len(globalmq) : globalmq[i] = c /\ x = <<"globalmq", i>>
           \/ \E p \in QPlace : Placed[p] = c /\ x = p
<1>0. PlacedIs
  BY PlacedValues
<1>1. CASE \E i \in 1 .. Len(globalmq) : globalmq[i] = c /\ x = <<"globalmq", i>>
  BY <1>1
<1>2. CASE \E t \in Thread : q[t] = c /\ x = <<"q", t>>
  BY <1>0, <1>2 DEF PlacedIs, InQ
<1>3. CASE \E t \in Thread : nq[t] = c /\ x = <<"nq", t>>
  BY <1>0, <1>3 DEF PlacedIs, NextQ
<1>4. CASE \E t \in Thread : new[t] = c /\ x = <<"new", t>>
  BY <1>0, <1>4 DEF PlacedIs, NewQ
<1>5. CASE \E t \in Thread : made[t] = c /\ pc[t] # "report" /\ x = <<"made", t>>
  BY <1>0, <1>5 DEF PlacedIs, MadeP, MadeQ
<1> QED
  BY <1>1, <1>2, <1>3, <1>4, <1>5 DEF Owners

\* A queue in a place has an owner.
LEMMA OwnedIsOwned ==
    ASSUME Typed, NEW c \in Handle, Owned(c) PROVE Owners(c) # {}
<1>0. PlacedIs /\ None # c
  BY PlacedValues, NoneAssumption
<1>1. CASE \E i \in 1 .. Len(globalmq) : globalmq[i] = c
  BY <1>1, ZenonT(100) DEF Owners
<1>2. CASE \E p \in QPlace : Placed[p] = c
  <2>1. PICK t \in Thread : c \in {q[t], nq[t], new[t], MadeQ(t)}
    <3>1. PICK p \in QPlace : Placed[p] = c
      BY <1>2
    <3>2. PICK t \in Thread : p \in {InQ(t), NextQ(t), NewQ(t), MadeP(t)}
      BY QPlaces
    <3> QED
      BY <1>0, <3>1, <3>2 DEF PlacedIs
  <2>2. CASE q[t] = c
    BY <2>2, ZenonT(100) DEF Owners
  <2>3. CASE nq[t] = c
    BY <2>3, ZenonT(100) DEF Owners
  <2>4. CASE new[t] = c
    BY <2>4, ZenonT(100) DEF Owners
  <2>5. CASE MadeQ(t) = c
    BY <1>0, <2>5, ZenonT(100) DEF Owners, MadeQ
  <2> QED
    BY <2>1, <2>2, <2>3, <2>4, <2>5
<1> QED
  BY <1>1, <1>2 DEF Owned, OwnedIn

\* No queue is in two places, and the flags say which are in none.
LEMMA InvOneOwner == IInv => OneOwner
<1> SUFFICES ASSUME IInv PROVE OneOwner
  OBVIOUS
<1>1. Typed /\ Unique /\ Flagged /\ Lives /\ TypedQueues
  BY DEF IInv, Typed
<1>2. SingleOwner
  <2> SUFFICES ASSUME NEW c \in Handle PROVE Cardinality(Owners(c)) <= 1
    BY DEF SingleOwner
  <2>1. ASSUME NEW x \in Owners(c), NEW y \in Owners(c) PROVE x = y
    <3>1. \/ \E i \in 1 .. Len(globalmq) : globalmq[i] = c /\ x = <<"globalmq", i>>
          \/ \E p \in QPlace : Placed[p] = c /\ x = p
      BY <1>1, OwnersAre
    <3>2. \/ \E i \in 1 .. Len(globalmq) : globalmq[i] = c /\ y = <<"globalmq", i>>
          \/ \E p \in QPlace : Placed[p] = c /\ y = p
      BY <1>1, OwnersAre
    <3> QED
      BY <1>1, <3>1, <3>2, NoneAssumption DEF Unique, UniqueIn
  <2> QED
    BY <2>1, AtMostOne
<1>3. NoStrandedQueue
  <2> SUFFICES ASSUME NEW c \in Handle, qlife[c] = "alive", Owners(c) = {}
               PROVE  mq[c] = << >> /\ in_global[c] = 0 /\ release[c] = 0 /\ life[c] = "alive"
    BY DEF NoStrandedQueue
  <2>1. ~Owned(c)
    BY <1>1, OwnedIsOwned
  <2>2. in_global[c] = 0 /\ release[c] = 0
    BY <1>1, <2>1 DEF Flagged, TypedQueues
  <2>3. LivesOf(c) /\ life[c] \in Life
    BY <1>1 DEF Lives, IInv, Typed, TypedContexts
  <2> QED
    BY <2>2, <2>3 DEF LivesOf, Life
<1> QED
  BY <1>2, <1>3 DEF OneOwner

\* The counts are exact, one by one.
LEMMA InvRefCounted == IInv => RefCounted
<1> SUFFICES ASSUME IInv, NEW c \in Handle
             PROVE  IsFiniteSet(Holders(c)) /\ ref[c] = Cardinality(Holders(c))
  BY DEF RefCounted
<1>0. HeldIs /\ None # c
  BY HeldValues, NoneAssumption DEF IInv
<1>1. /\ IsFiniteSet(Who(Held, c)) /\ Cardinality(Who(Held, c)) \in Nat
      /\ ref[c] = Cardinality(Who(Held, c)) + (IF slot[c] THEN 1 ELSE 0) + (IF c = Remote THEN 1 ELSE 0)
  BY WhoFinite DEF IInv, Counts, Reserved
<1> DEFINE Threads == {<<"cur", t>> : t \in {u \in Thread : cur[u] = c}}
                      \cup {<<"new", t>> : t \in {u \in Thread : new[u] = c}}
                      \cup {<<"obj", t>> : t \in {u \in Thread : obj[u] = c /\ pc[u] # "delete"}}
<1>2. Threads = Who(Held, c)
  <2>1. ASSUME NEW x \in Threads PROVE x \in Who(Held, c)
    <3>1. CASE \E t \in Thread : cur[t] = c /\ x = <<"cur", t>>
      BY <1>0, <3>1, RPlaces DEF HeldIs, Who, Cur
    <3>2. CASE \E t \in Thread : new[t] = c /\ x = <<"new", t>>
      BY <1>0, <3>2, RPlaces DEF HeldIs, Who, New
    <3>3. CASE \E t \in Thread : obj[t] = c /\ pc[t] # "delete" /\ x = <<"obj", t>>
      BY <1>0, <3>3, RPlaces DEF HeldIs, Who, Obj, ObjRef
    <3> QED
      BY <2>1, <3>1, <3>2, <3>3
  <2>2. ASSUME NEW x \in Who(Held, c) PROVE x \in Threads
    <3>1. x \in RPlace /\ Held[x] = c
      BY <2>2 DEF Who
    <3>2. PICK t \in Thread : x = Cur(t) \/ x = New(t) \/ x = Obj(t)
      BY <3>1, RPlaces
    <3>3. CASE x = Cur(t)
      BY <1>0, <3>1, <3>3 DEF HeldIs, Cur
    <3>4. CASE x = New(t)
      BY <1>0, <3>1, <3>4 DEF HeldIs, New
    <3>5. CASE x = Obj(t)
      <4>1. ObjRef(t) = c
        BY <1>0, <3>1, <3>5 DEF HeldIs
      <4>2. obj[t] = c /\ pc[t] # "delete"
        BY <1>0, <4>1 DEF ObjRef
      <4> QED
        BY <3>5, <4>2 DEF Obj
    <3> QED
      BY <3>2, <3>3, <3>4, <3>5
  <2> QED
    BY <2>1, <2>2
<1> HIDE DEF Threads
<1>3. Holders(c) = Who(Held, c) \cup {<<"slot", h>> : h \in {g \in {c} : slot[g]}}
                               \cup {<<"REMOTE", h>> : h \in {g \in {c} : g = Remote}}
  BY <1>2 DEF Holders, Threads
<1> DEFINE W == Who(Held, c)
           V == IF slot[c] THEN W \cup {<<"slot", c>>} ELSE W
<1>4. <<"slot", c>> \notin W /\ <<"REMOTE", c>> \notin V
  BY DEF Who, RPlace
<1>5. Holders(c) = IF c = Remote THEN V \cup {<<"REMOTE", c>>} ELSE V
  BY <1>3
<1> HIDE DEF W, V
<1>6. IsFiniteSet(V) /\ Cardinality(V) = Cardinality(W) + (IF slot[c] THEN 1 ELSE 0)
  <2>1. CASE slot[c]
    <3> DEFINE x == <<"slot", c>>
    <3>1. V = W \cup {x} /\ x \notin W /\ IsFiniteSet(W)
      BY <1>1, <1>4, <2>1 DEF V, W
    <3> HIDE DEF x
    <3>2. IsFiniteSet(W \cup {x}) /\ Cardinality(W \cup {x}) = Cardinality(W) + 1
      BY <3>1, FS_AddElement
    <3> QED
      BY <2>1, <3>1, <3>2
  <2>2. CASE ~slot[c]
    <3>1. V = W /\ IsFiniteSet(W) /\ Cardinality(W) \in Nat
      BY <1>1, <2>2 DEF V, W
    <3> QED
      BY <2>2, <3>1
  <2> QED
    BY <2>1, <2>2
<1>7. /\ IsFiniteSet(Holders(c))
      /\ Cardinality(Holders(c)) = Cardinality(V) + (IF c = Remote THEN 1 ELSE 0)
  <2>1. CASE c = Remote
    <3> DEFINE x == <<"REMOTE", c>>
    <3>1. Holders(c) = V \cup {x} /\ x \notin V
      BY <1>4, <1>5, <2>1
    <3> HIDE DEF x
    <3>2. IsFiniteSet(V \cup {x}) /\ Cardinality(V \cup {x}) = Cardinality(V) + 1
      BY <1>6, <3>1, FS_AddElement
    <3> QED
      BY <2>1, <3>1, <3>2
  <2>2. CASE c # Remote
    <3>1. Holders(c) = V /\ Cardinality(V) \in Nat
      BY <1>5, <1>6, <2>2, FS_CardinalityType
    <3> QED
      BY <1>6, <2>2, <3>1
  <2> QED
    BY <2>1, <2>2
<1> QED
  BY <1>1, <1>6, <1>7 DEF W

\* What a thread points to has a count, so it has not been freed.
LEMMA InvNoUseAfterFree == IInv => NoUseAfterFree
<1> SUFFICES ASSUME IInv PROVE NoUseAfterFree
  OBVIOUS
<1>1. ASSUME NEW t \in Thread, NEW c \in {cur[t], obj[t], new[t]} \ {None} PROVE life[c] = "alive"
  <2>1. c \in Handle
    BY <1>1 DEF IInv, Typed, TypedLocals
  <2> QED
    BY <1>1, <2>1, PointersAlive
<1>2. ASSUME NEW t \in Thread, pc[t] \in {"push", "delete"} PROVE qlife[obj[t]] = "alive"
  <2>1. obj[t] \in Handle
    BY <1>2, LocalTypes DEF IInv, Shape, Calling
  <2>2. life[obj[t]] = "alive"
    BY <2>1, PointersAlive
  <2>3. qlife[obj[t]] # "none" /\ qlife[obj[t]] # "freed" /\ qlife[obj[t]] \in Life
    BY <2>1, <2>2, NoneAssumption
    DEF IInv, Reachable, Existing, Lives, LivesOf, Typed, TypedQueues
  <2> QED
    BY <2>3 DEF Life
<1>3. ASSUME NEW i \in 1 .. Len(globalmq) PROVE qlife[globalmq[i]] = "alive"
  <2>1. globalmq[i] \in Handle
    BY <1>3 DEF IInv, Typed, TypedQueues
  <2> QED
    BY <2>1, PlacesAlive
<1>4. ASSUME Remote # None PROVE life[Remote] = "alive" /\ qlife[Remote] = "alive"
  <2>1. Remote \in Handle
    BY <1>4, RemoteType
  <2>2. ref[Remote] # 0 /\ LivesOf(Remote) /\ qlife[Remote] \in Life
    BY <2>1, Counted1 DEF IInv, Lives, Typed, TypedQueues
  <2>3. qlife[Remote] # "none"
    BY <2>1, NoneAssumption DEF IInv, Reachable, Existing
  <2> QED
    BY <2>2, <2>3 DEF LivesOf, Life
<1> QED
  BY <1>1, <1>2, <1>3, <1>4, QueuesPresent DEF NoUseAfterFree

\* A service runs where its queue is.
LEMMA InvRunsAlone == IInv => RunsAlone
<1> SUFFICES ASSUME IInv PROVE RunsAlone
  OBVIOUS
<1>1. ASSUME NEW c \in Handle, NEW t \in Thread, NEW u \in Thread, Runs(t, c), Runs(u, c) PROVE t = u
  <2>0. PlacedIs /\ Unique /\ None # c /\ ShapeOf(t) /\ ShapeOf(u)
    BY PlacedValues, NoneAssumption DEF IInv, Shape
  <2>1. (q[t] = c /\ cur[t] = c) \/ new[t] = c \/ (obj[t] = c /\ pc[t] = "delete")
    BY <1>1, <2>0, ZenonT(100) DEF Runs, ShapeOf
  <2>2. (q[u] = c /\ cur[u] = c) \/ new[u] = c \/ (obj[u] = c /\ pc[u] = "delete")
    BY <1>1, <2>0, ZenonT(100) DEF Runs, ShapeOf
  \* A context that is being deleted is pointed to by nobody else.
  <2>3. ASSUME NEW v \in Thread, NEW w \in Thread, obj[v] = c, pc[v] = "delete"
        PROVE  cur[w] # c /\ new[w] # c
    BY <2>3, Counted1, ZenonT(100) DEF IInv, Deleting
  <2>4. CASE obj[t] = c /\ pc[t] = "delete"
    BY <2>2, <2>3, <2>4, ZenonT(100) DEF IInv, Deleting
  <2>5. CASE obj[u] = c /\ pc[u] = "delete"
    BY <2>1, <2>3, <2>5 DEF IInv, Deleting
  <2>6. CASE (q[t] = c \/ new[t] = c) /\ (q[u] = c \/ new[u] = c)
    <3>1. PICK p \in {InQ(t), NewQ(t)} : p \in QPlace /\ Placed[p] = c
      BY <2>0, <2>6 DEF PlacedIs
    <3>2. PICK r \in {InQ(u), NewQ(u)} : r \in QPlace /\ Placed[r] = c
      BY <2>0, <2>6 DEF PlacedIs
    <3>3. p = r
      BY <2>0, <3>1, <3>2 DEF Unique, UniqueIn
    <3> QED
      BY <3>1, <3>2, <3>3 DEF InQ, NewQ
  <2> QED
    BY <2>1, <2>2, <2>4, <2>5, <2>6, ZenonT(100)
<1>2. DispatchAfterInit
  BY DEF IInv, Initialised, DispatchAfterInit
<1> QED
  BY <1>1, <1>2 DEF RunsAlone, ExclusiveService

\* Whoever is registered or launching is counted in G_NODE.total, but for REMOTE.
LEMMA InvAbortIsSafe == IInv => AbortIsSafe
<1> SUFFICES ASSUME IInv, total = 0
             PROVE  /\ \A c \in Handle : slot[c] => c = Remote
                    /\ \A t \in Thread : cur[t] \in {None, Remote} /\ new[t] = None
  BY DEF AbortIsSafe
<1>1. Counted = {}
  BY FS_EmptySet, ZenonT(100) DEF IInv, Totalled
<1>2. ASSUME NEW t \in Thread PROVE cur[t] \in {None, Remote}
  <2> SUFFICES ASSUME cur[t] # None, cur[t] # Remote PROVE FALSE
    OBVIOUS
  <2>1. cur[t] \in Handle
    BY DEF IInv, Typed, TypedLocals
  <2>2. life[cur[t]] = "alive" /\ qlife[cur[t]] = "alive"
    BY <2>1, PointersAlive, QueuesPresent
  <2> QED
    BY <1>1, <2>1, <2>2 DEF Counted
  \* The reserved service launches nothing.
<1>3. ASSUME NEW t \in Thread PROVE new[t] = None
  BY <1>2 DEF IInv, Shape, ShapeOf, Serving
<1>4. ASSUME NEW c \in Handle, slot[c], c # Remote PROVE FALSE
  <2>1. ref[c] # 0 /\ LivesOf(c) /\ life[c] \in Life /\ qlife[c] \in Life
    BY <1>4, Counted1, ZenonT(100) DEF IInv, Lives, Typed, TypedContexts, TypedQueues
  <2>2. life[c] = "alive"
    BY <2>1, ZenonT(100) DEF LivesOf
  <2>3. qlife[c] = "none"
    BY <1>1, <1>4, <2>2 DEF Counted
  <2> QED
    BY <1>3, <2>1, <2>2, <2>3, NoneAssumption DEF LivesOf
<1> QED
  BY <1>2, <1>3, <1>4

\* Every queue that may have messages is in one place, and a queue in no place is
\* empty, marked so and still has its context (skynet_mq.c: in_global, release).
THEOREM QueueHasOneOwner == Spec => []OneOwner
BY Invariance, InvOneOwner, PTL

\* ctx->ref is the number of references there are (skynet_context_grab, _release).
THEOREM CountsAreExact == Spec => []RefCounted
BY Invariance, InvRefCounted, PTL

\* No thread follows a pointer to a context or to a queue that has been freed.
THEOREM NothingFreedIsUsed == Spec => []NoUseAfterFree
BY Invariance, InvNoUseAfterFree, PTL

\* A service's code runs on one thread at a time and after its launch only (the
\* asserts of CHECKCALLING_BEGIN and of dispatch_message).
THEOREM ServicesRunAlone == Spec => []RunsAlone
BY Invariance, InvRunsAlone, PTL

\* When G_NODE.total is 0 no service is left but the one that
\* skynet_context_reserve took out of the count (CHECK_ABORT).
THEOREM AbortLeavesReserved == Spec => []AbortIsSafe
BY Invariance, InvAbortIsSafe, PTL
=============================================================================
