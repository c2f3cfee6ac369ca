------------------------------ MODULE MCThreads ------------------------------
(***************************************************************************)
(* The threads of a process, for TLC: the timer's wheel, the workers with  *)
(* the threads that wake and end them, and the dispatch of one service     *)
(* with a monitor of exits.  They share nothing; part says which one a     *)
(* behaviour is about.                                                     *)
(***************************************************************************)
EXTENDS Timer, Workers

CONSTANTS f, hs, s1, s2, MaxOps, w1, w2    \* of the Scheduler
VARIABLES slot, ref, life, init, services, known, mq, in_global, release, qlife, globalmq,
          ops, at, ret, q, nq, left, cur, obj, new, made, victim

S == INSTANCE Scheduler WITH
       Handle <- {hs, s1, s2}, Worker <- {w1, w2}, Feeder <- {f},
       Initial <- <<hs, s1>>, Monitor <- s1, Remote <- hs,
       Weight <- [w \in {w1, w2} |-> IF w = w1 THEN -1 ELSE 0], total <- services, pc <- at

svars == <<slot, ref, life, init, services, known, mq, in_global, release, qlife, globalmq,
           ops, at, ret, q, nq, left, cur, obj, new, made, victim>>

VARIABLE part
allvars == <<part, tmvars, vars, svars>>

TimerPart(A) == part = "timer" /\ A /\ UNCHANGED <<part, vars, svars>>
WorkersPart(A) == part = "workers" /\ A /\ UNCHANGED <<part, tmvars, svars>>
SchedulerPart(A) == part = "scheduler" /\ A /\ UNCHANGED <<part, tmvars, vars>>

MCInit == part \in {"timer", "workers", "scheduler"} /\ TMInit /\ Init /\ S!Init
MCNext == TimerPart(TMNext) \/ WorkersPart(Next) \/ SchedulerPart(S!Next)

\* The fairness of Timer, of Workers and of FairSpec in Scheduler; part never
\* changes, so one condition may stand for an action of each.
MCSpec ==
    /\ MCInit /\ [][MCNext]_allvars
    /\ \A w \in Worker : WF_allvars(\/ WorkersPart(WorkerStep(w) /\ UNCHANGED others)
                                    \/ SchedulerPart(w \in {w1, w2} /\ S!Obliged(w)))
    /\ WF_allvars(WorkersPart(TimerThread) \/ TimerPart(TMThread) \/ SchedulerPart(S!Obliged(f)))
    /\ WF_allvars(WorkersPart(SocketThread))
    /\ WF_allvars(WorkersPart(MonitorEnds)) /\ WF_allvars(WorkersPart(FreeMonitor))
    /\ SF_allvars(WorkersPart(TimerQuit)) /\ SF_allvars(WorkersPart(SocketExit))

\* A ready queue is taken by a worker although wakeup reads m->sleep and signals
\* without the mutex (ReadyIsTaken of Workers).
QueueIsTaken == []<>(part = "workers" => Taken)

\* Every queue with messages is eventually emptied, by dispatch or by drop, but
\* for that of the reserved service once it was killed (EventuallyServed of
\* Scheduler, for all the queues at once since MaxOps bounds the messages).
EventuallyServed == []<>(part = "scheduler" => \A c \in {hs, s1, s2} : S!Served(c))

\* A service that has left the handle table is eventually freed, and so is its
\* queue, but for the reserved one (EventuallyReclaimed of Scheduler).
EventuallyReclaimed == []<>(\A c \in {hs, s1, s2} : ~S!Unreclaimed(c))
=============================================================================
