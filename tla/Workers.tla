------------------------------- MODULE Workers -------------------------------
(***************************************************************************)
(* skynet-src/skynet_start.c: the worker threads, which sleep on one       *)
(* condition variable when the global queue is empty, and the timer,       *)
(* socket and monitor threads that wake them and, when the last service    *)
(* is gone, end the process.  wakeup() reads m->sleep and signals without  *)
(* the mutex.  What skynet_context_message_dispatch does with a queue is   *)
(* in module Scheduler; here it takes one of the ready queues and runs a   *)
(* handler, which may never return.                                        *)
(***************************************************************************)
EXTENDS Naturals, FiniteSets

CONSTANTS Worker,
          None,
          MaxReady              \* ready queues that may exist at once

ASSUME WorkerAssumption == IsFiniteSet(Worker) /\ Worker # {}
ASSUME NoOneAssumption == None \notin Worker

VARIABLES ready,                \* queues in the global queue
          total,                \* whether skynet_context_total() > 0
          sleep, quit,          \* m->sleep, m->quit
          mutex,                \* the worker that holds m->mutex, or None
          pc,                   \* where each worker is
          timer, socket, monitor, main,
          closing               \* skynet_socket_exit has been called
vars == <<ready, total, sleep, quit, mutex, pc, timer, socket, monitor, main, closing>>

shared == <<ready, total, sleep, quit, mutex, pc>>
others == <<timer, socket, monitor, main, closing>>
count == Cardinality(Worker)

Init ==
    /\ ready = 1 /\ total = TRUE     \* the bootstrap service's first message
    /\ sleep = 0 /\ quit = FALSE /\ mutex = None
    /\ pc = [w \in Worker |-> "loop"]
    /\ timer = "update" /\ socket = "poll" /\ monitor = "check" /\ main = "join"
    /\ closing = FALSE

Goto(w, l) == pc' = [pc EXCEPT ![w] = l]
At(l) == {w \in Worker : pc[w] = l}
-----------------------------------------------------------------------------
(* thread_worker *)

\* while (!m->quit), read without the mutex.
Loop(w) ==
    /\ pc[w] = "loop"
    /\ Goto(w, IF quit THEN "done" ELSE "dispatch")
    /\ UNCHANGED <<ready, total, sleep, quit, mutex>>

\* skynet_context_message_dispatch takes a queue and runs its service; the
\* queue of a service that is gone is only released.
Take(w) ==
    /\ pc[w] = "dispatch" /\ ready > 0
    /\ ready' = ready - 1
    /\ Goto(w, IF total THEN "handler" ELSE "loop")
    /\ UNCHANGED <<total, sleep, quit, mutex>>

\* The handler returns; it, or the rest of the queue, may have made a queue
\* ready, and its service may have been the last one.  A running handler holds
\* a context, so total is not 0 while another one runs.
HandlerReturns(w) ==
    /\ pc[w] = "handler"
    /\ Goto(w, "loop")
    /\ ready' \in {ready, ready + 1} /\ ready' <= MaxReady
    /\ total' \in (IF At("handler") = {w} THEN {TRUE, FALSE} ELSE {TRUE})
    /\ UNCHANGED <<sleep, quit, mutex>>

\* No queue: lock the mutex and count oneself as asleep.
Lock(w) ==
    /\ pc[w] = "dispatch" /\ ready = 0
    /\ Goto(w, "lock")
    /\ UNCHANGED <<ready, total, sleep, quit, mutex>>

Locked(w) ==
    /\ pc[w] = "lock" /\ mutex = None
    /\ mutex' = w
    /\ sleep' = sleep + 1
    /\ Goto(w, "locked")
    /\ UNCHANGED <<ready, total, quit>>

\* pthread_cond_wait unless m->quit; otherwise straight on to -- m->sleep.
Wait(w) ==
    /\ pc[w] = "locked"
    /\ mutex' = None
    /\ IF quit THEN sleep' = sleep - 1 /\ Goto(w, "loop")
               ELSE UNCHANGED sleep /\ Goto(w, "waiting")
    /\ UNCHANGED <<ready, total, quit>>

\* Signalled: pthread_cond_wait locks the mutex again, then -- m->sleep.
Resume(w) ==
    /\ pc[w] = "signalled" /\ mutex = None
    /\ sleep' = sleep - 1
    /\ Goto(w, "loop")
    /\ UNCHANGED <<ready, total, quit, mutex>>

WorkerStep(w) == \/ Loop(w) \/ Take(w) \/ Lock(w) \/ Locked(w) \/ Wait(w) \/ Resume(w)

\* pthread_cond_wait may return without a signal.
SpuriousWakeup(w) ==
    /\ pc[w] = "waiting"
    /\ Goto(w, "signalled")
    /\ UNCHANGED <<ready, total, sleep, quit, mutex>>
-----------------------------------------------------------------------------
(* The threads that wake the workers *)

\* pthread_cond_signal: one waiting worker, if there is any.
Signal == IF At("waiting") = {} THEN UNCHANGED pc
          ELSE \E w \in At("waiting") : Goto(w, "signalled")

\* Mutant of EnoughAsleep: one sleeper more is asked for.
EnoughAsleep_Strict(busy) == sleep > count - busy

\* The test of wakeup(m, busy).
EnoughAsleep(busy) == sleep >= count - busy

\* A message may make its queue ready; none is delivered without services.
Deliver == ready' \in (IF total THEN {ready, ready + 1} ELSE {ready}) /\ ready' <= MaxReady

\* thread_timer: skynet_updatetime, signal_hup and CHECK_ABORT.
TimerUpdate ==
    /\ timer = "update"
    /\ Deliver
    /\ timer' = "check abort"
    /\ UNCHANGED <<total, sleep, quit, mutex, pc, socket, monitor, main, closing>>

TimerCheck ==
    /\ timer = "check abort"
    /\ timer' = IF total THEN "test" ELSE "exit"
    /\ UNCHANGED <<shared, socket, monitor, main, closing>>

\* wakeup(m, m->count - 1), in two steps.
TimerTest ==
    /\ timer = "test"
    /\ timer' = IF EnoughAsleep(count - 1) THEN "signal" ELSE "update"
    /\ UNCHANGED <<shared, socket, monitor, main, closing>>

TimerSignal ==
    /\ timer = "signal"
    /\ Signal
    /\ timer' = "update"
    /\ UNCHANGED <<ready, total, sleep, quit, mutex, socket, monitor, main, closing>>

\* skynet_socket_exit.
TimerExit ==
    /\ timer = "exit"
    /\ closing' = TRUE
    /\ timer' = "quit"
    /\ UNCHANGED <<shared, socket, monitor, main>>

\* Mutant of TimerQuit: a signal instead of the broadcast.
TimerQuit_Signal ==
    /\ timer = "quit" /\ mutex = None
    /\ quit' = TRUE
    /\ Signal
    /\ timer' = "done"
    /\ UNCHANGED <<ready, total, sleep, mutex, socket, monitor, main, closing>>

\* m->quit = 1 and the broadcast, with the mutex.
TimerQuit ==
    /\ timer = "quit" /\ mutex = None
    /\ quit' = TRUE
    /\ pc' = [w \in Worker |-> IF pc[w] = "waiting" THEN "signalled" ELSE pc[w]]
    /\ timer' = "done"
    /\ UNCHANGED <<ready, total, sleep, mutex, socket, monitor, main, closing>>

\* thread_socket: an event is forwarded; with more events to come
\* skynet_socket_poll returns -1 and only CHECK_ABORT follows.
SocketEvent ==
    /\ socket = "poll"
    /\ Deliver
    /\ socket' \in {"test", IF total THEN "poll" ELSE "done"}
    /\ UNCHANGED <<total, sleep, quit, mutex, pc, timer, monitor, main, closing>>

SocketExit ==
    /\ socket = "poll" /\ closing
    /\ socket' = "done"
    /\ UNCHANGED <<shared, timer, monitor, main, closing>>

\* wakeup(m, 0).
SocketTest ==
    /\ socket = "test"
    /\ socket' = IF EnoughAsleep(0) THEN "signal" ELSE "poll"
    /\ UNCHANGED <<shared, timer, monitor, main, closing>>

SocketSignal ==
    /\ socket = "signal"
    /\ Signal
    /\ socket' = "poll"
    /\ UNCHANGED <<ready, total, sleep, quit, mutex, timer, monitor, main, closing>>

\* thread_monitor: CHECK_ABORT.
MonitorEnds ==
    /\ monitor = "check" /\ ~total
    /\ monitor' = "done"
    /\ UNCHANGED <<shared, timer, socket, main, closing>>

\* start: every thread joined, then free_monitor.
FreeMonitor ==
    /\ main = "join"
    /\ At("done") = Worker
    /\ timer = "done" /\ socket = "done" /\ monitor = "done"
    /\ main' = "freed"
    /\ UNCHANGED <<shared, timer, socket, monitor, closing>>

TimerThread == \/ TimerUpdate \/ TimerCheck \/ TimerTest \/ TimerSignal
               \/ TimerExit \/ TimerQuit
SocketThread == SocketTest \/ SocketSignal \/ SocketExit

Next == \/ \E w \in Worker : /\ WorkerStep(w) \/ HandlerReturns(w) \/ SpuriousWakeup(w)
                             /\ UNCHANGED others
        \/ TimerThread \/ SocketThread \/ SocketEvent
        \/ MonitorEnds \/ FreeMonitor

\* Every thread keeps running; nothing makes a handler return, a socket event
\* happen or a wait end by itself.  The mutex is held for a few instructions,
\* so the timer, once it waits for it, gets it in the end;
\* socket_server_poll looks for a command before it looks for events.
Fairness ==
    /\ \A w \in Worker : WF_vars(WorkerStep(w) /\ UNCHANGED others)
    /\ WF_vars(TimerThread) /\ SF_vars(TimerQuit)
    /\ WF_vars(SocketThread) /\ SF_vars(SocketExit)
    /\ WF_vars(MonitorEnds) /\ WF_vars(FreeMonitor)

Spec == Init /\ [][Next]_vars /\ Fairness
-----------------------------------------------------------------------------
\* Type correctness of the monitor and the threads.
TypeOK ==
    /\ ready \in 0 .. MaxReady /\ total \in BOOLEAN
    /\ sleep \in 0 .. count /\ quit \in BOOLEAN
    /\ mutex \in Worker \union {None}
    /\ pc \in [Worker -> {"loop", "dispatch", "handler", "lock", "locked",
                          "waiting", "signalled", "done"}]
    /\ timer \in {"update", "check abort", "test", "signal", "exit", "quit", "done"}
    /\ socket \in {"poll", "test", "signal", "done"}
    /\ monitor \in {"check", "done"} /\ main \in {"join", "freed"}
    /\ closing \in BOOLEAN

\* A ready queue finds a worker that takes one, unless every worker is inside
\* a handler or the last service is gone: the signals that wakeup loses, or does
\* not send because some worker is awake and will never come back, are made good
\* by the timer's next round.
Taken == ready = 0 \/ At("dispatch") # {} \/ At("handler") = Worker \/ ~total
ReadyIsTaken == []<>Taken

\* When the last service is gone every thread ends and the process exits.
Terminates == []<>(total \/ main = "freed")
=============================================================================
