--------------------------- MODULE CriticalSection ---------------------------
(***************************************************************************)
(* skynet.queue (lualib/skynet/queue.lua): a reentrant critical section    *)
(* for the coroutines of a service.  A coroutine runs until it yields, in  *)
(* the section (f may call, sleep or wait) or outside; here any coroutine  *)
(* may take the next step, which includes every such schedule.             *)
(***************************************************************************)
EXTENDS Integers, Sequences, FiniteSets

CONSTANTS
    Coroutine,     \* coroutines
    None,       \* nil
    MaxLevel    \* bound: how deep a coroutine enters the section again

ASSUME NoneAssumption == None \notin Coroutine
ASSUME LevelAssumption == MaxLevel \in Nat \ {0}

VARIABLES
    current_thread, ref, thread_queue,
    wakeup_queue,   \* coroutines skynet.wakeup was called for
    status,             \* "out", "wait" in skynet.wait, or "in" the section
    level           \* how often the coroutine has entered
csvars == <<current_thread, ref, thread_queue, wakeup_queue, status, level>>

CSTypeOK ==
    /\ current_thread \in Coroutine \cup {None}
    /\ ref \in Nat
    /\ thread_queue \in Seq(Coroutine)
    /\ wakeup_queue \in Seq(Coroutine)
    /\ status \in [Coroutine -> {"out", "wait", "in"}]
    /\ level \in [Coroutine -> 0 .. MaxLevel]

CSInit ==
    /\ current_thread = None
    /\ ref = 0
    /\ thread_queue = <<>>
    /\ wakeup_queue = <<>>
    /\ status = [k \in Coroutine |-> "out"]
    /\ level = [k \in Coroutine |-> 0]

(* The coroutine becomes the holder, or enters once more. *)
Take(k) ==
    /\ current_thread' = k
    /\ ref' = ref + 1
    /\ status' = [status EXCEPT ![k] = "in"]
    /\ level' = [level EXCEPT ![k] = @ + 1]

Taken_IfRunning(k) == ref > 0 /\ current_thread # k

(* Somebody else has the section, or has been chosen to have it next. *)
Taken(k) == current_thread # None /\ current_thread # k

(* The coroutine asks for the section and has it at once. *)
Enter(k) ==
    /\ status[k] # "wait" /\ level[k] < MaxLevel
    /\ ~Taken(k)
    /\ Take(k)
    /\ UNCHANGED <<thread_queue, wakeup_queue>>

(* The coroutine asks for the section and has to wait. *)
Wait(k) ==
    /\ status[k] # "wait" /\ level[k] < MaxLevel
    /\ Taken(k)
    /\ thread_queue' = Append(thread_queue, k)
    /\ status' = [status EXCEPT ![k] = "wait"]
    /\ UNCHANGED <<current_thread, ref, wakeup_queue, level>>

(* dispatch_wakeup of skynet.lua resumes it. *)
Resume(k) ==
    /\ wakeup_queue # <<>> /\ Head(wakeup_queue) = k
    /\ wakeup_queue' = Tail(wakeup_queue)
    /\ Take(k)
    /\ UNCHANGED thread_queue

PassOn_Last ==
    IF thread_queue = <<>>
    THEN current_thread' = None /\ UNCHANGED <<thread_queue, wakeup_queue>>
    ELSE LET k == thread_queue[Len(thread_queue)]
         IN  /\ current_thread' = k
             /\ thread_queue' = SubSeq(thread_queue, 1, Len(thread_queue) - 1)
             /\ wakeup_queue' = Append(wakeup_queue, k)

(* The section is passed to the coroutine that has waited longest. *)
PassOn ==
    IF thread_queue = <<>>
    THEN current_thread' = None /\ UNCHANGED <<thread_queue, wakeup_queue>>
    ELSE /\ current_thread' = Head(thread_queue)
         /\ thread_queue' = Tail(thread_queue)
         /\ wakeup_queue' = Append(wakeup_queue, Head(thread_queue))

(* xpcall_ret: f has returned, or raised an error, which is raised again   *)
(* after this.                                                             *)
xpcall_ret(k) ==
    /\ status[k] = "in"
    /\ ref' = ref - 1
    /\ level' = [level EXCEPT ![k] = @ - 1]
    /\ status' = [status EXCEPT ![k] = IF level[k] = 1 THEN "out" ELSE "in"]
    /\ IF ref' = 0 THEN PassOn ELSE UNCHANGED <<current_thread, thread_queue, wakeup_queue>>

CSNext == \E k \in Coroutine : Enter(k) \/ Wait(k) \/ Resume(k) \/ xpcall_ret(k)

CSSpec == CSInit /\ [][CSNext]_csvars

(* A woken coroutine is resumed before the next message (LuaService), and  *)
(* f ends: it may enter the section again and again, but returns.          *)
CSFairSpec ==
    /\ CSSpec
    /\ \A k \in Coroutine : WF_csvars(Resume(k)) /\ []<>(status[k] # "in")

-------------------------------------------------------------------------------
Queued(q) == {q[i] : i \in DOMAIN q}

(* At most one coroutine is in the section, and ref is its level: nobody   *)
(* leaves the section to another while it is inside once more.             *)
OneInside ==
    \A k \in Coroutine : status[k] = "in" => current_thread = k /\ ref = level[k]

(* assert(ref == 0) -- current_thread == thread: between skynet.wakeup and *)
(* the moment the chosen coroutine runs nobody enters the section.         *)
Handover == \A k \in Queued(wakeup_queue) : ref = 0 /\ current_thread = k /\ status[k] = "wait"

(* The section is never free while a coroutine waits, so each waiter is    *)
(* in the queue or has been woken: no wakeup is lost.                      *)
NobodyForgotten ==
    \A k \in Coroutine :
        status[k] = "wait" => /\ k \in Queued(thread_queue) \cup Queued(wakeup_queue)
                          /\ current_thread # None
                          /\ (ref = 0 => wakeup_queue # <<>>)

(* The section's safety: one coroutine inside, nobody slips in while it is *)
(* handed over, and nobody waits for a section that is free.               *)
SectionSafe == OneInside /\ Handover /\ NobodyForgotten

(* The coroutines that wait, the next to enter first. *)
Line == wakeup_queue \o thread_queue

(* Coroutines join the line at its end and enter from its head: passing    *)
(* the section on never reorders those who wait.                           *)
InOrder ==
    [][\/ Line' = Line
       \/ \E k \in Coroutine : Line' = Append(Line, k) /\ status'[k] = "wait"
       \/ Line # <<>> /\ Line' = Tail(Line) /\ status'[Head(Line)] = "in"]_csvars

(* A coroutine that waits for the section gets it: no wait is for ever,    *)
(* and by InOrder a wait ends only inside.                                 *)
Served == \A k \in Coroutine : []<>(status[k] # "wait")
=============================================================================
