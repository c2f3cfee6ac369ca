------------------------------- MODULE RWLock -------------------------------
(***************************************************************************)
(* skynet-src/rwlock.h: the spinning read-write lock of the handle table   *)
(* and of the server list, one step per access to lock->write or           *)
(* lock->read.  (The __sync builtins are full barriers; write is released  *)
(* with __sync_lock_release.)                                              *)
(***************************************************************************)
EXTENDS Naturals, FiniteSets

CONSTANT Thread

ASSUME ThreadAssumption == IsFiniteSet(Thread)

VARIABLES write, read, at
rwvars == <<write, read, at>>

RWInit ==
    /\ write = FALSE
    /\ read = 0
    /\ at = [t \in Thread |-> "idle"]

Goto(t, from, to) == at[t] = from /\ at' = [at EXCEPT ![t] = to]

\* rwlock_rlock is called; while (lock->write) spins.
StartRead(t) == Goto(t, "idle", "r_test") /\ UNCHANGED <<write, read>>

RTest(t) ==
    /\ ~write
    /\ Goto(t, "r_test", "r_add")
    /\ UNCHANGED <<write, read>>

RAdd(t) ==
    /\ Goto(t, "r_add", "r_check")
    /\ read' = read + 1
    /\ UNCHANGED write

\* The second look at lock->write, after read has been counted.
RCheck(t) ==
    /\ Goto(t, "r_check", IF write THEN "r_back" ELSE "reading")
    /\ UNCHANGED <<write, read>>

\* Mutant of RBack: the reader stays counted.
RBack_Counted(t) == Goto(t, "r_back", "r_test") /\ UNCHANGED <<write, read>>

\* A writer was there first: uncount and start over.
RBack(t) ==
    /\ Goto(t, "r_back", "r_test")
    /\ read' = read - 1
    /\ UNCHANGED write

\* rwlock_runlock.
RUnlock(t) ==
    /\ Goto(t, "reading", "idle")
    /\ read' = read - 1
    /\ UNCHANGED write

\* rwlock_wlock is called; __sync_lock_test_and_set spins while it returns 1.
StartWrite(t) == Goto(t, "idle", "w_set") /\ UNCHANGED <<write, read>>

WSet(t) ==
    /\ ~write
    /\ Goto(t, "w_set", "w_drain")
    /\ write' = TRUE
    /\ UNCHANGED read

\* Mutant of WDrain: the readers are not waited for.
WDrain_Hasty(t) == Goto(t, "w_drain", "writing") /\ UNCHANGED <<write, read>>

\* Then wait for the readers to leave.
WDrain(t) ==
    /\ read = 0
    /\ Goto(t, "w_drain", "writing")
    /\ UNCHANGED <<write, read>>

\* rwlock_wunlock.
WUnlock(t) ==
    /\ Goto(t, "writing", "idle")
    /\ write' = FALSE
    /\ UNCHANGED read

\* The steps of a thread that has called a lock function or holds the lock.
Step(t) == \/ RTest(t) \/ RAdd(t) \/ RCheck(t) \/ RBack(t) \/ RUnlock(t)
           \/ WSet(t) \/ WDrain(t) \/ WUnlock(t)

RWNext == \E t \in Thread : StartRead(t) \/ StartWrite(t) \/ Step(t)

\* Every thread keeps running and leaves its critical section.
RWSpec == RWInit /\ [][RWNext]_rwvars /\ \A t \in Thread : WF_rwvars(Step(t))
-----------------------------------------------------------------------------
Label == {"idle", "r_test", "r_add", "r_check", "r_back", "reading",
          "w_set", "w_drain", "writing"}

At(L) == {t \in Thread : at[t] \in L}

\* Type correctness; in particular the reader count never goes negative.
RWTypeOK ==
    /\ write \in BOOLEAN
    /\ read \in Nat
    /\ at \in [Thread -> Label]

\* A writer that holds the lock is alone: no second writer, no reader.
WriterAlone ==
    \A t, u \in Thread : at[t] = "writing" /\ u # t => at[u] \notin {"writing", "reading"}

\* lock->read counts the readers that hold the lock and those that have counted
\* themselves and not looked again; lock->write is set exactly while one writer
\* is past test_and_set; only readers that will back off overlap a writer.
RWInv ==
    /\ read = Cardinality(At({"r_check", "r_back", "reading"}))
    /\ write <=> At({"w_drain", "writing"}) # {}
    /\ \A t, u \in At({"w_drain", "writing"}) : t = u
    /\ At({"writing"}) # {} => At({"reading"}) = {}

\* Once a writer has set lock->write it gets the lock: readers that come later
\* back off, and cannot keep the count above zero among themselves.  (It leaves
\* w_drain only for writing.)
WriterEnters == \A t \in Thread : []<>(at[t] # "w_drain")

\* While some thread tries to get the lock and nobody has it, someone gets it:
\* the back-off of readers before a writer cannot go on for ever.
Trying == Thread \ At({"idle", "reading", "writing"})
SomeoneEnters == []<>(Trying = {} \/ At({"reading", "writing"}) # {})

\* The lock makes progress, for writers and as a whole, with no thread waiting
\* for a count or a flag that is never reset.
LockProgress == WriterEnters /\ SomeoneEnters
=============================================================================
