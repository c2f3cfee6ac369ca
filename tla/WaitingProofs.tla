----------------------------- MODULE WaitingProofs -----------------------------
(***************************************************************************)
(* The read-write lock: mutual exclusion for any finite set of threads.    *)
(* The critical section of skynet.queue: mutual exclusion, the handover,   *)
(* the absence of lost wakeups and the order of service, for any number of *)
(* coroutines and any depth of reentry.                                    *)
(***************************************************************************)
EXTENDS RWLock, CriticalSection, FiniteSetTheorems, TLAPS

-------------------------------------------------------------------------------
(* The read-write lock *)

Counted(p) == {t \in Thread : p[t] \in {"r_check", "r_back", "reading"}}
Writers(p) == {t \in Thread : p[t] \in {"w_drain", "writing"}}

LockInv == RWTypeOK /\ RWInv

\* The set of counted readers is finite, so its cardinality is a number.
LEMMA CountedFinite ==
    ASSUME NEW p
    PROVE  IsFiniteSet(Counted(p)) /\ Cardinality(Counted(p)) \in Nat
<1>1. Counted(p) \subseteq Thread
  BY DEF Counted
<1>2. IsFiniteSet(Counted(p))
  BY <1>1, ThreadAssumption, FS_Subset
<1> QED
  BY <1>2, FS_CardinalityType

\* A thread that counts itself (rwlock_rlock) adds one to the count.
LEMMA CountUp ==
    ASSUME NEW p \in [Thread -> Label], NEW t \in Thread, p[t] = "r_add"
    PROVE  Cardinality(Counted([p EXCEPT ![t] = "r_check"])) = Cardinality(Counted(p)) + 1
<1>1. Counted([p EXCEPT ![t] = "r_check"]) = Counted(p) \union {t}
  BY DEF Counted
<1>2. t \notin Counted(p)
  BY DEF Counted
<1> QED
  BY <1>1, <1>2, CountedFinite, FS_AddElement

\* A thread that uncounts itself (backing off, or rwlock_runlock) takes one
\* off, so the count was positive.
LEMMA CountDown ==
    ASSUME NEW p \in [Thread -> Label], NEW t \in Thread, t \in Counted(p),
           NEW l \in {"r_test", "idle"}
    PROVE  Cardinality(Counted([p EXCEPT ![t] = l])) = Cardinality(Counted(p)) - 1
<1>1. Counted([p EXCEPT ![t] = l]) = Counted(p) \ {t}
  BY DEF Counted
<1> QED
  BY <1>1, CountedFinite, FS_RemoveElement

\* No counted reader means that none holds the lock.
LEMMA NoneCounted ==
    ASSUME NEW p, Cardinality(Counted(p)) = 0
    PROVE  Counted(p) = {}
BY CountedFinite, FS_EmptySet

\* The inductive invariant holds at the start.
LEMMA LockInitially == RWInit => LockInv
<1> SUFFICES ASSUME RWInit PROVE LockInv
  OBVIOUS
<1>1. At({"r_check", "r_back", "reading"}) = {}
  BY DEF RWInit, At
<1>2. At({"w_drain", "writing"}) = {} /\ At({"writing"}) = {}
  BY DEF RWInit, At
<1> QED
  BY <1>1, <1>2, FS_EmptySet DEF RWInit, LockInv, RWInv, RWTypeOK, Label

\* Every step of every thread preserves the inductive invariant.
LEMMA LockStep == LockInv /\ [RWNext]_rwvars => LockInv'
<1> SUFFICES ASSUME LockInv, [RWNext]_rwvars PROVE LockInv'
  OBVIOUS
<1> USE DEF LockInv, RWTypeOK, Label, Goto
<1>c. read = Cardinality(Counted(at)) /\ (read' = Cardinality(Counted(at')) => read' \in Nat)
  BY CountedFinite DEF RWInv, Counted, At
<1>d. ASSUME RWTypeOK', read' = Cardinality(Counted(at')),
             write' <=> Writers(at') # {},
             \A t, u \in Writers(at') : t = u,
             \A t, u \in Thread : at'[t] = "writing" => at'[u] # "reading"
      PROVE  LockInv'
  BY <1>d DEF RWInv, Counted, Writers, At
<1>e. /\ write <=> Writers(at) # {}
      /\ \A t, u \in Writers(at) : t = u
      /\ \A t, u \in Thread : at[t] = "writing" => at[u] # "reading"
  BY DEF RWInv, Writers, At
<1>1. CASE UNCHANGED rwvars
  BY <1>1, <1>c, <1>d, <1>e DEF rwvars
<1>2. ASSUME NEW t \in Thread, StartRead(t) \/ StartWrite(t) \/ RTest(t) \/ RCheck(t)
      PROVE  LockInv'
  <2>1. Counted(at') = Counted(at) /\ Writers(at') = Writers(at)
    BY <1>2 DEF StartRead, StartWrite, RTest, RCheck, Counted, Writers
  <2>2. RWTypeOK' /\ read' = read /\ write' = write
    BY <1>2 DEF StartRead, StartWrite, RTest, RCheck
  <2>3. \A v, u \in Thread : at'[v] = "writing" => at'[u] # "reading"
    BY <1>2, <1>e DEF StartRead, StartWrite, RTest, RCheck, Writers
  <2> QED
    BY <2>1, <2>2, <2>3, <1>c, <1>d, <1>e
<1>3. ASSUME NEW t \in Thread, RAdd(t) PROVE LockInv'
  <2>1. Cardinality(Counted(at')) = Cardinality(Counted(at)) + 1
    BY <1>3, CountUp DEF RAdd
  <2>2. RWTypeOK' /\ read' = Cardinality(Counted(at')) /\ write' = write
    BY <1>3, <1>c, <2>1 DEF RAdd
  <2>3. Writers(at') = Writers(at)
    BY <1>3 DEF RAdd, Writers
  <2>4. \A v, u \in Thread : at'[v] = "writing" => at'[u] # "reading"
    BY <1>3, <1>e DEF RAdd
  <2> QED
    BY <2>2, <2>3, <2>4, <1>d, <1>e
<1>4. ASSUME NEW t \in Thread, RBack(t) \/ RUnlock(t) PROVE LockInv'
  <2>1. t \in Counted(at)
    BY <1>4 DEF RBack, RUnlock, Counted
  <2>2. Cardinality(Counted(at')) = Cardinality(Counted(at)) - 1
    BY <1>4, <2>1, CountDown DEF RBack, RUnlock
  <2>3. read' = Cardinality(Counted(at')) /\ write' = write
    BY <1>4, <1>c, <2>2 DEF RBack, RUnlock
  <2>4. RWTypeOK'
    BY <1>4, <1>c, <2>3 DEF RBack, RUnlock
  <2>5. Writers(at') = Writers(at)
    BY <1>4 DEF RBack, RUnlock, Writers
  <2>6. \A v, u \in Thread : at'[v] = "writing" => at'[u] # "reading"
    BY <1>4, <1>e DEF RBack, RUnlock
  <2> QED
    BY <2>3, <2>4, <2>5, <2>6, <1>d, <1>e
<1>5. ASSUME NEW t \in Thread, WSet(t) PROVE LockInv'
  <2>1. Counted(at') = Counted(at) /\ Writers(at') = {t}
    BY <1>5, <1>e DEF WSet, Counted, Writers
  <2>2. RWTypeOK' /\ read' = read /\ write'
    BY <1>5 DEF WSet
  <2>3. \A v, u \in Thread : at'[v] = "writing" => at'[u] # "reading"
    BY <1>5, <1>e DEF WSet
  <2> QED
    BY <2>1, <2>2, <2>3, <1>c, <1>d
<1>6. ASSUME NEW t \in Thread, WDrain(t) PROVE LockInv'
  <2>1. Counted(at) = {}
    BY <1>6, <1>c, NoneCounted DEF WDrain
  <2>2. Counted(at') = Counted(at) /\ Writers(at') = Writers(at)
    BY <1>6 DEF WDrain, Counted, Writers
  <2>3. RWTypeOK' /\ read' = read /\ write' = write
    BY <1>6 DEF WDrain
  <2>4. \A u \in Thread : at'[u] # "reading"
    BY <2>1, <2>2 DEF Counted
  <2> QED
    BY <2>2, <2>3, <2>4, <1>c, <1>d, <1>e
<1>7. ASSUME NEW t \in Thread, WUnlock(t) PROVE LockInv'
  <2>1. Counted(at') = Counted(at) /\ Writers(at') = {}
    BY <1>7, <1>e DEF WUnlock, Counted, Writers
  <2>2. RWTypeOK' /\ read' = read /\ ~write'
    BY <1>7 DEF WUnlock
  <2>3. \A v, u \in Thread : at'[v] = "writing" => at'[u] # "reading"
    BY <1>7, <1>e DEF WUnlock
  <2> QED
    BY <2>1, <2>2, <2>3, <1>c, <1>d
<1> QED
  BY <1>1, <1>2, <1>3, <1>4, <1>5, <1>6, <1>7 DEF RWNext, Step

\* The inductive invariant is an invariant.
LEMMA LockInvHolds == RWSpec => []LockInv
BY LockInitially, LockStep, PTL DEF RWSpec

\* rwlock.h: the reader count is never negative, whatever the threads do.
THEOREM LockTypes == RWSpec => []RWTypeOK
BY LockInvHolds, PTL DEF LockInv

\* rwlock.h counts its readers exactly and has one writer at a time past
\* test_and_set, for any number of threads.
THEOREM CountsReaders == RWSpec => []RWInv
BY LockInvHolds, PTL DEF LockInv

\* rwlock.h: a thread between rwlock_wlock and rwlock_wunlock excludes every
\* other writer and every reader, for any number of threads.
THEOREM LockExclusion == RWSpec => []WriterAlone
<1>1. LockInv => WriterAlone
  BY DEF LockInv, RWInv, WriterAlone, At
<1> QED
  BY <1>1, LockInvHolds, PTL

-------------------------------------------------------------------------------
(* The critical section *)

Distinct(q) == \A i, j \in DOMAIN q : q[i] = q[j] => i = j

(* What a step relies on.  OneInside alone is not inductive: that the      *)
(* section is free when the woken coroutine runs depends on the coroutine  *)
(* being the current one from the wakeup on, and on nobody being queued    *)
(* twice.                                                                  *)
SectionInv ==
    /\ CSTypeOK
    /\ \A k \in Coroutine : status[k] = "in" <=> level[k] > 0
    /\ \A k \in Coroutine : status[k] = "in" => current_thread = k /\ ref = level[k]
    /\ ref > 0 => current_thread \in Coroutine /\ status[current_thread] = "in"
    /\ ref = 0 /\ current_thread # None => wakeup_queue = <<current_thread>>
    /\ ref > 0 \/ current_thread = None => wakeup_queue = <<>>
    /\ current_thread = None => thread_queue = <<>>
    /\ \A k \in Coroutine :
        status[k] = "wait" <=> k \in Queued(thread_queue) \/ k \in Queued(wakeup_queue)
    /\ \A k \in Queued(wakeup_queue) : k \notin Queued(thread_queue)
    /\ Distinct(thread_queue)

-------------------------------------------------------------------------------
(* Queues *)

(* Appending a new element keeps the elements distinct. *)
LEMMA AppendQueue ==
    ASSUME NEW T, NEW q \in Seq(T), NEW k \in T
    PROVE  /\ Append(q, k) \in Seq(T)
           /\ Queued(Append(q, k)) = Queued(q) \cup {k}
           /\ Distinct(q) /\ k \notin Queued(q) => Distinct(Append(q, k))
<1> DEFINE a == Append(q, k)
<1>1. /\ Len(q) \in Nat /\ DOMAIN q = 1 .. Len(q) /\ a \in Seq(T)
      /\ DOMAIN a = 1 .. Len(q) + 1 /\ a[Len(q) + 1] = k
      /\ \A i \in 1 .. Len(q) : a[i] = q[i]
  OBVIOUS
<1> HIDE DEF a
<1>2. \A i \in DOMAIN a : i \in DOMAIN q \/ i = Len(q) + 1
  BY <1>1
<1>3. Queued(a) = Queued(q) \cup {k}
  <2>1. ASSUME NEW i \in DOMAIN a PROVE a[i] \in Queued(q) \cup {k}
    BY <1>1, <1>2 DEF Queued
  <2>2. ASSUME NEW i \in DOMAIN q PROVE q[i] \in Queued(a)
    <3>1. i \in DOMAIN a /\ a[i] = q[i]
      BY <1>1
    <3> QED BY <3>1 DEF Queued
  <2>3. k \in Queued(a)
    <3>1. Len(q) + 1 \in DOMAIN a
      BY <1>1
    <3> QED BY <1>1, <3>1 DEF Queued
  <2> QED BY <2>1, <2>2, <2>3 DEF Queued
<1>4. ASSUME Distinct(q), k \notin Queued(q) PROVE Distinct(a)
  <2>1. \A i \in DOMAIN q : q[i] # k
    BY <1>4 DEF Queued
  <2> QED BY <1>1, <1>2, <1>4, <2>1 DEF Distinct
<1> QED BY <1>1, <1>3, <1>4 DEF a

(* Removing the head leaves the others, among which it is not. *)
LEMMA TailQueue ==
    ASSUME NEW T, NEW q \in Seq(T), q # <<>>
    PROVE  /\ Tail(q) \in Seq(T) /\ Head(q) \in T
           /\ Queued(q) = Queued(Tail(q)) \cup {Head(q)}
           /\ Distinct(q) => Distinct(Tail(q)) /\ Head(q) \notin Queued(Tail(q))
<1>1. /\ Len(q) \in Nat \ {0} /\ DOMAIN q = 1 .. Len(q)
      /\ Tail(q) \in Seq(T) /\ Head(q) = q[1] /\ q[1] \in T
      /\ Len(Tail(q)) = Len(q) - 1 /\ DOMAIN Tail(q) = 1 .. Len(q) - 1
      /\ \A i \in 1 .. Len(q) - 1 : Tail(q)[i] = q[i + 1]
  OBVIOUS
<1>2. Queued(q) = Queued(Tail(q)) \cup {Head(q)}
  <2>1. ASSUME NEW i \in 1 .. Len(q) PROVE q[i] \in Queued(Tail(q)) \cup {Head(q)}
    <3>1. CASE i = 1
      BY <1>1, <3>1
    <3>2. CASE i # 1
      <4>1. i - 1 \in DOMAIN Tail(q) /\ Tail(q)[i - 1] = q[i]
        BY <1>1, <3>2
      <4> QED BY <4>1 DEF Queued
    <3> QED BY <3>1, <3>2
  <2>2. ASSUME NEW i \in 1 .. Len(q) - 1 PROVE Tail(q)[i] \in Queued(q)
    BY <1>1 DEF Queued
  <2> QED BY <1>1, <2>1, <2>2 DEF Queued
<1>3. ASSUME Distinct(q) PROVE Distinct(Tail(q)) /\ Head(q) \notin Queued(Tail(q))
  BY <1>1, <1>3, SMTT(30) DEF Queued, Distinct
<1> QED BY <1>1, <1>2, <1>3

(* The queue of one coroutine, and the empty one. *)
LEMMA ShortQueues ==
    ASSUME NEW T, NEW k \in T
    PROVE  /\ Queued(<<>>) = {} /\ Queued(<<k>>) = {k}
           /\ <<>> \in Seq(T) /\ <<k>> \in Seq(T) /\ Append(<<>>, k) = <<k>>
           /\ Head(<<k>>) = k /\ Tail(<<k>>) = <<>> /\ <<k>> # <<>>
           /\ Distinct(<<>>)
BY DEF Queued, Distinct

-------------------------------------------------------------------------------
(* Initially nobody is in the section and nobody waits. *)
LEMMA SectionInitially == CSInit => SectionInv
<1> SUFFICES ASSUME CSInit PROVE SectionInv
  OBVIOUS
<1>1. Queued(<<>>) = {} /\ Distinct(<<>>)
  BY DEF Queued, Distinct
<1>2. CSTypeOK
  BY LevelAssumption DEF CSInit, CSTypeOK
<1> QED BY <1>1, <1>2 DEF CSInit, SectionInv

(* A coroutine that enters at once finds the section free or its own. *)
LEMMA EnterInv == ASSUME SectionInv, NEW k \in Coroutine, Enter(k) PROVE SectionInv'
<1> USE NoneAssumption, LevelAssumption
<1>1. ref' = ref + 1 /\ current_thread' = k /\ level[k] < MaxLevel /\ status[k] # "wait"
  BY DEF Enter, Take
<1>2. status' = [status EXCEPT ![k] = "in"] /\ level' = [level EXCEPT ![k] = @ + 1]
  BY DEF Enter, Take
<1>3. thread_queue' = thread_queue /\ wakeup_queue' = wakeup_queue
  BY DEF Enter
<1>4. current_thread = None \/ current_thread = k
  BY DEF Enter, Taken
<1>5. wakeup_queue = <<>>
  <2>1. CASE current_thread = None
    BY <2>1 DEF SectionInv
  <2>2. CASE current_thread = k
    <3>1. ref = 0 => wakeup_queue = <<k>>
      BY <2>2 DEF SectionInv
    <3>2. Queued(<<k>>) = {k}
      BY ShortQueues
    <3>3. wakeup_queue # <<k>>
      BY <1>1, <3>2 DEF SectionInv
    <3> QED BY <3>1, <3>3 DEF SectionInv, CSTypeOK
  <2> QED BY <1>4, <2>1, <2>2
<1>6. ref = level[k] /\ \A j \in Coroutine : j # k => status[j] # "in"
  BY <1>4 DEF SectionInv, CSTypeOK
<1>7. CSTypeOK'
  BY <1>1, <1>2, <1>3 DEF SectionInv, CSTypeOK
<1>8. \A j \in Coroutine : (status[j] = "wait" <=> status'[j] = "wait")
  BY <1>1, <1>2 DEF SectionInv, CSTypeOK
<1>9. /\ \A j \in Coroutine : status'[j] = "in" <=> level'[j] > 0
      /\ \A j \in Coroutine : status'[j] = "in" => current_thread' = j /\ ref' = level'[j]
      /\ ref' > 0 /\ status'[current_thread'] = "in"
  BY <1>1, <1>2, <1>6 DEF SectionInv, CSTypeOK
<1> QED BY <1>1, <1>3, <1>5, <1>7, <1>8, <1>9 DEF SectionInv

(* A coroutine that has to wait is not in the queue yet. *)
LEMMA WaitInv == ASSUME SectionInv, NEW k \in Coroutine, Wait(k) PROVE SectionInv'
<1> USE NoneAssumption
<1>1. /\ status[k] # "wait" /\ current_thread # None /\ current_thread # k
      /\ thread_queue' = Append(thread_queue, k)
      /\ status' = [status EXCEPT ![k] = "wait"]
      /\ UNCHANGED <<current_thread, ref, wakeup_queue, level>>
  BY DEF Wait, Taken
<1>2. /\ thread_queue' \in Seq(Coroutine)
      /\ Queued(thread_queue') = Queued(thread_queue) \cup {k}
      /\ k \notin Queued(thread_queue) /\ k \notin Queued(wakeup_queue)
      /\ Distinct(thread_queue')
  BY <1>1, AppendQueue DEF SectionInv, CSTypeOK
<1>3. CSTypeOK'
  BY <1>1, <1>2 DEF SectionInv, CSTypeOK
<1>4. status[k] # "in" /\ \A j \in Coroutine : status'[j] = IF j = k THEN "wait" ELSE status[j]
  BY <1>1 DEF SectionInv, CSTypeOK
<1> QED BY <1>1, <1>2, <1>3, <1>4 DEF SectionInv

(* The coroutine that is resumed was chosen while nobody was inside. *)
LEMMA ResumeInv == ASSUME SectionInv, NEW k \in Coroutine, Resume(k) PROVE SectionInv'
<1> USE NoneAssumption, LevelAssumption
<1>1. /\ wakeup_queue # <<>> /\ Head(wakeup_queue) = k /\ wakeup_queue' = Tail(wakeup_queue)
      /\ current_thread' = k /\ ref' = ref + 1 /\ thread_queue' = thread_queue
      /\ status' = [status EXCEPT ![k] = "in"] /\ level' = [level EXCEPT ![k] = @ + 1]
  BY DEF Resume, Take
<1>2. ref = 0 /\ current_thread # None /\ wakeup_queue = <<current_thread>>
  BY <1>1 DEF SectionInv, CSTypeOK
<1>3. current_thread = k /\ wakeup_queue' = <<>> /\ Queued(wakeup_queue) = {k}
  BY <1>1, <1>2, ShortQueues DEF SectionInv, CSTypeOK
<1>4. status[k] = "wait" /\ level[k] = 0 /\ k \notin Queued(thread_queue)
  BY <1>3 DEF SectionInv, CSTypeOK
<1>5. Queued(wakeup_queue') = {}
  BY <1>3, ShortQueues
<1>6. CSTypeOK'
  BY <1>1, <1>2, <1>3, <1>4, ShortQueues DEF SectionInv, CSTypeOK
<1>7. \A j \in Coroutine : status[j] # "in"
  BY <1>2, <1>3, <1>4 DEF SectionInv, CSTypeOK
<1>8. /\ \A j \in Coroutine : status'[j] = IF j = k THEN "in" ELSE status[j]
      /\ \A j \in Coroutine : level'[j] = IF j = k THEN 1 ELSE level[j]
  BY <1>1, <1>4 DEF SectionInv, CSTypeOK
<1>9. ref' = 1 /\ current_thread' = k /\ thread_queue' = thread_queue
  BY <1>1, <1>2
<1> QED BY <1>3, <1>4, <1>5, <1>6, <1>7, <1>8, <1>9 DEF SectionInv

(* Leaving: either still inside, or the head of the queue is chosen. *)
LEMMA LeaveInv == ASSUME SectionInv, NEW k \in Coroutine, xpcall_ret(k) PROVE SectionInv'
<1> USE NoneAssumption
<1>1. /\ status[k] = "in" /\ ref' = ref - 1
      /\ level' = [level EXCEPT ![k] = @ - 1]
      /\ status' = [status EXCEPT ![k] = IF level[k] = 1 THEN "out" ELSE "in"]
  BY DEF xpcall_ret
<1>2. current_thread = k /\ ref = level[k] /\ ref > 0 /\ wakeup_queue = <<>> /\ ref \in Nat
  BY <1>1 DEF SectionInv, CSTypeOK
<1>3. \A j \in Coroutine : j # k => status[j] # "in"
  BY <1>2 DEF SectionInv
<1>4. /\ \A j \in Coroutine : status'[j] = IF j = k THEN (IF ref = 1 THEN "out" ELSE "in") ELSE status[j]
      /\ \A j \in Coroutine : level'[j] = IF j = k THEN ref - 1 ELSE level[j]
      /\ status' \in [Coroutine -> {"out", "wait", "in"}] /\ level' \in [Coroutine -> 0 .. MaxLevel]
  <2>1. /\ status \in [Coroutine -> {"out", "wait", "in"}] /\ level \in [Coroutine -> 0 .. MaxLevel]
        /\ level[k] = ref /\ ref - 1 \in 0 .. MaxLevel /\ MaxLevel \in Nat
    BY <1>2, LevelAssumption DEF SectionInv, CSTypeOK
  <2>2. \A j \in Coroutine : status'[j] = IF j = k THEN (IF ref = 1 THEN "out" ELSE "in") ELSE status[j]
    BY <1>1, <2>1
  <2>3. \A j \in Coroutine : level'[j] = IF j = k THEN ref - 1 ELSE level[j]
    BY <1>1, <2>1
  <2>4. status' \in [Coroutine -> {"out", "wait", "in"}]
    BY <1>1, <2>1
  <2>5. level' \in [Coroutine -> 0 .. MaxLevel]
    BY <1>1, <2>1
  <2> QED BY <2>2, <2>3, <2>4, <2>5
<1>5. Queued(wakeup_queue) = {} /\ k \notin Queued(thread_queue)
  BY <1>1, <1>2, ShortQueues DEF SectionInv
<1>6. CASE ref > 1
  <2>1. UNCHANGED <<current_thread, thread_queue, wakeup_queue>>
    BY <1>1, <1>2, <1>6 DEF xpcall_ret
  <2>2. CSTypeOK'
    BY <1>1, <1>2, <1>4, <1>6, <2>1 DEF SectionInv, CSTypeOK
  <2>3. \A j \in Coroutine : status'[j] = status[j]
    BY <1>1, <1>2, <1>4, <1>6
  <2> QED BY <1>1, <1>2, <1>3, <1>4, <1>5, <1>6, <2>1, <2>2, <2>3 DEF SectionInv
<1>7. CASE ref = 1 /\ thread_queue = <<>>
  <2>1. ref' = 0 /\ current_thread' = None /\ UNCHANGED <<thread_queue, wakeup_queue>>
    BY <1>1, <1>7 DEF xpcall_ret, PassOn
  <2>2. CSTypeOK'
    BY <1>4, <2>1, SMTT(30) DEF SectionInv, CSTypeOK
  <2>3. \A j \in Coroutine : status'[j] # "in" /\ (status'[j] = "wait" <=> status[j] = "wait")
    BY <1>1, <1>3, <1>4, <1>7
  <2>4. \A j \in Coroutine : ~ level'[j] > 0
    BY <1>3, <1>4, <1>7 DEF SectionInv, CSTypeOK
  <2> QED BY <1>2, <1>7, <2>1, <2>2, <2>3, <2>4 DEF SectionInv
<1>8. CASE ref = 1 /\ thread_queue # <<>>
  <2> DEFINE h == Head(thread_queue)
  <2>1. /\ ref' = 0 /\ current_thread' = h /\ thread_queue' = Tail(thread_queue)
        /\ wakeup_queue' = Append(wakeup_queue, h)
    BY <1>1, <1>8 DEF xpcall_ret, PassOn
  <2>2. /\ h \in Coroutine /\ thread_queue' \in Seq(Coroutine)
        /\ Queued(thread_queue) = Queued(thread_queue') \cup {h}
        /\ Distinct(thread_queue') /\ h \notin Queued(thread_queue')
    BY <1>8, <2>1, TailQueue DEF SectionInv, CSTypeOK
  <2> HIDE DEF h
  <2>3. /\ wakeup_queue' = <<h>> /\ wakeup_queue' \in Seq(Coroutine)
        /\ Queued(wakeup_queue') = {h}
    BY <1>2, <2>1, <2>2, ShortQueues
  <2>4. CSTypeOK'
    BY <1>4, <2>1, <2>2, <2>3 DEF CSTypeOK
  <2>5. \A j \in Coroutine : status'[j] # "in" /\ (status'[j] = "wait" <=> status[j] = "wait")
    BY <1>1, <1>3, <1>4, <1>8
  <2>6. \A j \in Coroutine : ~ level'[j] > 0
    BY <1>3, <1>4, <1>8 DEF SectionInv, CSTypeOK
  <2>7. h # None
    BY <2>2
  <2>8. \A j \in Coroutine : status'[j] = "wait" <=>
            j \in Queued(thread_queue') \/ j \in Queued(wakeup_queue')
    BY <1>5, <2>2, <2>3, <2>5 DEF SectionInv
  <2> QED BY <2>1, <2>2, <2>3, <2>4, <2>5, <2>6, <2>7, <2>8 DEF SectionInv
<1> QED BY <1>2, <1>6, <1>7, <1>8

(* Every step keeps the invariant. *)
LEMMA SectionStep == SectionInv /\ [CSNext]_csvars => SectionInv'
<1> SUFFICES ASSUME SectionInv, [CSNext]_csvars PROVE SectionInv'
  OBVIOUS
<1>1. CASE CSNext
  BY <1>1, EnterInv, WaitInv, ResumeInv, LeaveInv DEF CSNext
<1>2. CASE UNCHANGED csvars
  BY <1>2 DEF csvars, SectionInv, CSTypeOK
<1> QED BY <1>1, <1>2

(* The invariant holds in every reachable state. *)
LEMMA SectionInvHolds == CSSpec => []SectionInv
BY SectionInitially, SectionStep, PTL DEF CSSpec

(* The variables keep their types: in particular ref never goes below 0,   *)
(* however often f raises an error.                                        *)
THEOREM SectionTypes == CSSpec => []CSTypeOK
<1>1. SectionInv => CSTypeOK
  BY DEF SectionInv
<1> QED BY <1>1, SectionInvHolds, PTL

(* At most one coroutine is in the section. *)
THEOREM SectionExclusion == CSSpec => []OneInside
<1>1. SectionInv => OneInside
  BY DEF SectionInv, OneInside
<1> QED BY <1>1, SectionInvHolds, PTL

(* The assertion in queue.lua never fails. *)
THEOREM HandoverIsSafe == CSSpec => []Handover
<1>1. ASSUME SectionInv PROVE Handover
  <2>1. CASE wakeup_queue = <<>>
    BY <2>1 DEF Handover, Queued
  <2>2. CASE wakeup_queue # <<>>
    <3>1. ref = 0 /\ current_thread \in Coroutine /\ wakeup_queue = <<current_thread>>
      BY <1>1, <2>2 DEF SectionInv, CSTypeOK
    <3>2. Queued(wakeup_queue) = {current_thread}
      BY <3>1, ShortQueues
    <3> QED BY <1>1, <3>1, <3>2 DEF SectionInv, Handover
  <2> QED BY <2>1, <2>2
<1> QED BY <1>1, SectionInvHolds, PTL

(* No coroutine waits for a section that is free. *)
THEOREM NoLostWakeup == CSSpec => []NobodyForgotten
<1>1. ASSUME SectionInv PROVE NobodyForgotten
  <2> SUFFICES ASSUME NEW k \in Coroutine, status[k] = "wait"
               PROVE  /\ k \in Queued(thread_queue) \cup Queued(wakeup_queue)
                      /\ current_thread # None
                      /\ ref = 0 => wakeup_queue # <<>>
    BY DEF NobodyForgotten
  <2>1. k \in Queued(thread_queue) \cup Queued(wakeup_queue)
    BY <1>1 DEF SectionInv
  <2>2. current_thread # None
    <3>1. Queued(<<>>) = {}
      BY ShortQueues
    <3> QED BY <1>1, <2>1, <3>1 DEF SectionInv
  <2>3. ref = 0 => wakeup_queue # <<>>
    BY <1>1, <2>2, ShortQueues DEF SectionInv, CSTypeOK
  <2> QED BY <2>1, <2>2, <2>3
<1> QED BY <1>1, SectionInvHolds, PTL

(* The section is safe, for any number of coroutines and any nesting. *)
THEOREM SectionIsSafe == CSSpec => []SectionSafe
BY SectionExclusion, HandoverIsSafe, NoLostWakeup, PTL DEF SectionSafe

(* A queue behind the empty one, and behind a single coroutine. *)
LEMMA Concatenation ==
    ASSUME NEW T, NEW q \in Seq(T), NEW k \in T
    PROVE  /\ <<>> \o q = q
           /\ <<k>> \o q # <<>> /\ Head(<<k>> \o q) = k /\ Tail(<<k>> \o q) = q
           /\ q # <<>> => <<Head(q)>> \o Tail(q) = q
OBVIOUS

(* Waiting at the end of the second queue is waiting at the end of both. *)
LEMMA AppendToLine ==
    ASSUME NEW T, NEW p \in Seq(T), NEW q \in Seq(T), NEW k \in T
    PROVE  p \o Append(q, k) = Append(p \o q, k)
OBVIOUS

(* Coroutines enter in the order in which they asked. *)
THEOREM FirstComeFirstServed == CSSpec => InOrder
<1> DEFINE Fifo == \/ Line' = Line
                   \/ \E k \in Coroutine : Line' = Append(Line, k) /\ status'[k] = "wait"
                   \/ Line # <<>> /\ Line' = Tail(Line) /\ status'[Head(Line)] = "in"
<1>1. ASSUME SectionInv, CSNext PROVE Fifo
  <2>1. PICK k \in Coroutine : Enter(k) \/ Wait(k) \/ Resume(k) \/ xpcall_ret(k)
    BY <1>1 DEF CSNext
  <2>2. CASE Enter(k)
    BY <2>2 DEF Enter, Line
  <2>3. CASE Wait(k)
    <3>1. Line' = Append(Line, k)
      <4>1. thread_queue' = Append(thread_queue, k) /\ wakeup_queue' = wakeup_queue
        BY <2>3 DEF Wait
      <4>2. wakeup_queue \in Seq(Coroutine) /\ thread_queue \in Seq(Coroutine)
        BY <1>1 DEF SectionInv, CSTypeOK
      <4>3. wakeup_queue \o Append(thread_queue, k) = Append(wakeup_queue \o thread_queue, k)
        BY <4>2, AppendToLine
      <4> QED BY <4>1, <4>3 DEF Line
    <3>2. status'[k] = "wait"
      BY <1>1, <2>3 DEF Wait, SectionInv, CSTypeOK
    <3> QED BY <3>1, <3>2
  <2>4. CASE Resume(k)
    <3>1. wakeup_queue # <<>> /\ Head(wakeup_queue) = k /\ wakeup_queue' = Tail(wakeup_queue)
          /\ thread_queue' = thread_queue /\ status'[k] = "in"
      BY <1>1, <2>4 DEF Resume, Take, SectionInv, CSTypeOK
    <3>2. wakeup_queue = <<k>> /\ wakeup_queue' = <<>>
      BY <1>1, <3>1, ShortQueues, SMTT(30) DEF SectionInv, CSTypeOK
    <3> QED BY <1>1, <3>1, <3>2, Concatenation DEF Line, SectionInv, CSTypeOK
  <2>5. CASE xpcall_ret(k)
    <3>1. wakeup_queue = <<>>
      BY <1>1, <2>5 DEF xpcall_ret, SectionInv, CSTypeOK
    <3>2. CASE UNCHANGED <<thread_queue, wakeup_queue>>
      BY <3>2 DEF Line
    <3>3. CASE /\ thread_queue # <<>> /\ thread_queue' = Tail(thread_queue)
               /\ wakeup_queue' = Append(wakeup_queue, Head(thread_queue))
      <4>1. Head(thread_queue) \in Coroutine /\ thread_queue \in Seq(Coroutine)
        BY <1>1, <3>3, TailQueue DEF SectionInv, CSTypeOK
      <4>2. wakeup_queue' = <<Head(thread_queue)>>
        BY <3>1, <3>3, <4>1, ShortQueues
      <4> QED BY <3>1, <3>3, <4>1, <4>2, Concatenation DEF Line
    <3> QED BY <2>5, <3>2, <3>3 DEF xpcall_ret, PassOn
  <2> QED BY <2>1, <2>2, <2>3, <2>4, <2>5
<1>2. SectionInv /\ [CSNext]_csvars => [Fifo]_csvars
  BY <1>1
<1> QED BY <1>2, SectionInvHolds, PTL DEF CSSpec, InOrder
================================================================================
