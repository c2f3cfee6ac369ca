------------------------------ MODULE LuaService ------------------------------
(***************************************************************************)
(* The Lua side of one service: lualib/skynet.lua.  A message starts or    *)
(* resumes a coroutine; the coroutine runs until it yields; then           *)
(* suspend() resumes the coroutines that were woken or whose calls failed, *)
(* each of which calls suspend() again when it yields.  depth counts the   *)
(* nested suspend() frames that have still to call dispatch_error_queue;   *)
(* an error in a coroutine unwinds all of them.                            *)
(*                                                                         *)
(* The program in the coroutines is arbitrary: a running coroutine makes   *)
(* any call of the API, as often as the bounds allow.  Other services      *)
(* (Peer) send requests, answer calls at most once, and may die.           *)
(***************************************************************************)
EXTENDS Integers, Sequences, FiniteSets

CONSTANTS
    Co,             \* coroutines
    Peer,           \* the other services
    None,           \* nil
    MaxSession,     \* sessions this service may allocate
    MaxRequest,     \* requests it may receive
    MaxQueued,      \* bound on wakeup_queue, error_queue and trigger
    Batch           \* messages may follow skynet.exit in the worker's batch

Session == 1 .. MaxSession
Request == 1 .. MaxRequest
BREAK == "BREAK"

ASSUME ConstantsOK ==
    /\ MaxSession \in Nat /\ MaxRequest \in Nat /\ MaxQueued \in Nat
    /\ None \notin Co \cup Peer \cup Nat
    /\ BREAK \notin Co \cup {None}
    /\ {"no", "timer"} \cap Peer = {}
    /\ Batch \in BOOLEAN

VARIABLES
    status,                 \* what each coroutine is doing
    session_coroutine_id,   \* the request a coroutine has still to answer
    session_id_coroutine,   \* who waits for the answer to a session
    sleep_session,          \* the session a token (a coroutine) sleeps on
    watching_session,       \* the service a session was sent to
    unresponse,             \* requests whose skynet.response is unused
    wakeup_queue, error_queue, fork_queue,
    trigger,                \* empty functions in fork_queue
    mode, running, depth,   \* the interpreter
    next_session, owed,     \* sessions allocated; who owes their answer
    from, answers, forgot,  \* requests: sender, answers sent, dropped ones
    dead, notified,         \* peers that died; whose ERROR 0 was received
    exited, gone,           \* skynet.exit called; no more messages
    termed,                 \* history: the peers given up by skynet.term
    twice                   \* history: a token was queued while in the queue

coroutines == <<status, session_coroutine_id, sleep_session>>
sessions == <<session_id_coroutine, watching_session>>
queues == <<wakeup_queue, error_queue, fork_queue, trigger>>
machine == <<mode, running, depth>>
replies == <<unresponse, answers, forgot>>
world == <<next_session, owed, from, dead, notified, exited, gone, termed, twice>>
vars == <<coroutines, sessions, queues, machine, replies, world>>

Waiting == {"timeout", "sleep", "wait", "call"}

TypeOK ==
    /\ status \in [Co -> {"unused", "pool", "fork", "run", "quit"} \cup Waiting]
    /\ session_coroutine_id \in [Co -> Request \cup {0, None}]
    /\ session_id_coroutine \in [Session -> Co \cup {None, BREAK}]
    /\ sleep_session \in [Co -> Session \cup {None}]
    /\ watching_session \in [Session -> Peer \cup {None}]
    /\ unresponse \subseteq Request /\ forgot \subseteq Request
    /\ wakeup_queue \in Seq(Co) /\ error_queue \in Seq(Session)
    /\ fork_queue \subseteq Co /\ trigger \in Nat
    /\ mode \in {"idle", "run", "wakeup", "error", "fork"}
    /\ running \in Co \cup {None} /\ (running # None <=> mode = "run")
    /\ depth \in Nat /\ (mode = "error" => depth > 0)
    /\ next_session \in 0 .. MaxSession
    /\ owed \in [Session -> Peer \cup {"no", "timer"}]
    /\ from \in Seq(Peer) /\ Len(from) <= MaxRequest
    /\ answers \in [Request -> Nat]
    /\ dead \subseteq Peer /\ notified \subseteq dead /\ termed \subseteq Peer
    /\ exited \in BOOLEAN /\ gone \in BOOLEAN /\ twice \in BOOLEAN

Init ==
    /\ status = [c \in Co |-> "unused"]
    /\ session_coroutine_id = [c \in Co |-> None]
    /\ session_id_coroutine = [s \in Session |-> None]
    /\ sleep_session = [c \in Co |-> None]
    /\ watching_session = [s \in Session |-> None]
    /\ unresponse = {} /\ answers = [r \in Request |-> 0] /\ forgot = {}
    /\ wakeup_queue = <<>> /\ error_queue = <<>> /\ fork_queue = {} /\ trigger = 0
    /\ mode = "idle" /\ running = None /\ depth = 0
    /\ next_session = 0 /\ owed = [s \in Session |-> "no"] /\ from = <<>>
    /\ dead = {} /\ notified = {} /\ termed = {}
    /\ exited = FALSE /\ gone = FALSE /\ twice = FALSE

-------------------------------------------------------------------------------
(* Coroutines *)

Queued(q) == {q[i] : i \in DOMAIN q}

(* The coroutines co_create may return: a recycled one, whose identity may *)
(* still be in wakeup_queue, or a new one, which is named nowhere.  The    *)
(* pool is a weak table, so the collector may empty it at any time.        *)
co_create ==
    {c \in Co : \/ status[c] = "pool"
                \/ status[c] = "unused" /\ c \notin Queued(wakeup_queue)}

Answer(R) == answers' = [r \in Request |-> IF r \in R THEN answers[r] + 1 ELSE answers[r]]

(* The request coroutine c has still to answer, as a set; a message sent   *)
(* without session (0) expects no answer.                                  *)
Unanswered(c) == {session_coroutine_id[c]} \ {0, None}

Run(c) == mode' = "run" /\ running' = c

(* coroutine_yield "SUSPEND" returns to suspend(), whose frame goes on     *)
(* with dispatch_wakeup and then dispatch_error_queue.                     *)
Suspend == mode' = "wakeup" /\ running' = None /\ depth' = depth + 1

(* An error unwinds every frame up to the pcall in dispatch_message.       *)
Unwind == mode' = "fork" /\ running' = None /\ depth' = 0

Resume_KeepsToken(c, s, sid) ==
    /\ Run(c)
    /\ status' = [status EXCEPT ![c] = "run"]
    /\ watching_session' = [watching_session EXCEPT ![s] = None]
    /\ session_id_coroutine' = IF status[c] = "wait" THEN [sid EXCEPT ![s] = None] ELSE sid
    /\ UNCHANGED sleep_session

(* What a coroutine does first when it is resumed: forget its token and,   *)
(* after a call, the service it watched.  sid is session_id_coroutine as   *)
(* the resumer left it; skynet.wait clears its own session.                *)
Resume(c, s, sid) ==
    /\ Run(c)
    /\ status' = [status EXCEPT ![c] = "run"]
    /\ sleep_session' = [sleep_session EXCEPT ![c] = None]
    /\ watching_session' = [watching_session EXCEPT ![s] = None]
    /\ session_id_coroutine' = IF status[c] = "wait" THEN [sid EXCEPT ![s] = None] ELSE sid

(* The timer of a sleep that was woken has still to fire; BREAK makes      *)
(* raw_dispatch_message ignore it.                                         *)
Broken(s) == [session_id_coroutine EXCEPT ![s] = BREAK]

dispatch_wakeup ==
    /\ mode = "wakeup"
    /\ LET token == Head(wakeup_queue)
           s == sleep_session[token]
       IN  IF wakeup_queue = <<>> \/ s = None
           THEN /\ mode' = "error"
                /\ UNCHANGED <<running, status, sleep_session, sessions>>
           ELSE Resume(session_id_coroutine[s], s, Broken(s))
    /\ wakeup_queue' = IF wakeup_queue = <<>> THEN <<>> ELSE Tail(wakeup_queue)
    /\ UNCHANGED <<session_coroutine_id, error_queue, fork_queue, trigger, depth, replies, world>>

(* A frame returns when its dispatch_error_queue finds nothing. *)
Return(d) ==
    /\ mode' = IF d = 0 THEN "fork" ELSE "error"
    /\ depth' = d
    /\ running' = None

(* The call to suspend() is a tail call: it takes the place of the frame.  *)
(* coroutine_resume raises an error when there is no coroutine.            *)
dispatch_error_queue ==
    /\ mode = "error"
    /\ IF error_queue = <<>>
       THEN /\ Return(depth - 1)
            /\ UNCHANGED <<status, sleep_session, sessions, error_queue>>
       ELSE LET s == Head(error_queue)
                c == session_id_coroutine[s]
                cleared == [session_id_coroutine EXCEPT ![s] = None]
            IN  /\ error_queue' = Tail(error_queue)
                /\ IF c \in Co
                   THEN Resume(c, s, cleared) /\ depth' = depth - 1
                   ELSE /\ Unwind
                        /\ session_id_coroutine' = cleared
                        /\ UNCHANGED <<status, sleep_session, watching_session>>
    /\ UNCHANGED <<session_coroutine_id, wakeup_queue, fork_queue, trigger, replies, world>>

(* The loop of dispatch_message over fork_queue, after the message. *)
RunFork ==
    /\ mode = "fork"
    /\ \E c \in fork_queue :
        /\ fork_queue' = fork_queue \ {c}
        /\ status' = [status EXCEPT ![c] = "run"]
        /\ Run(c)
    /\ UNCHANGED <<session_coroutine_id, sleep_session, sessions, wakeup_queue, error_queue,
                   trigger, depth, replies, world>>

(* The empty function that suspend() forks after an error yields at once. *)
RunTrigger ==
    /\ mode = "fork" /\ trigger > 0
    /\ trigger' = trigger - 1
    /\ Suspend
    /\ UNCHANGED <<coroutines, sessions, wakeup_queue, error_queue, fork_queue, replies, world>>

MessageDone ==
    /\ mode = "fork" /\ fork_queue = {} /\ trigger = 0
    /\ mode' = "idle"
    /\ UNCHANGED <<coroutines, sessions, queues, running, depth, replies, world>>

-------------------------------------------------------------------------------
(* Messages.  After skynet.exit the worker may still deliver those of its  *)
(* batch.                                                                  *)

MayDeliver == mode = "idle" /\ ~gone /\ (exited => Batch)

Live(p) == p \notin dead

(* A request, or a message without session (reply is FALSE). *)
DispatchRequest(p, reply) ==
    /\ MayDeliver /\ Live(p)
    /\ reply => Len(from) < MaxRequest
    /\ from' = IF reply THEN Append(from, p) ELSE from
    /\ \E c \in co_create :
        /\ session_coroutine_id' =
              [session_coroutine_id EXCEPT ![c] = IF reply THEN Len(from) + 1 ELSE 0]
        /\ status' = [status EXCEPT ![c] = "run"]
        /\ Run(c)
    /\ UNCHANGED <<sleep_session, sessions, queues, depth, replies, next_session, owed,
                   dead, notified, exited, gone, termed, twice>>

(* A request of a type nobody registered is refused. *)
RefuseRequest(p) ==
    /\ MayDeliver /\ Live(p) /\ Len(from) < MaxRequest
    /\ from' = Append(from, p)
    /\ Answer({Len(from) + 1})
    /\ mode' = "fork"
    /\ UNCHANGED <<coroutines, sessions, queues, running, depth, unresponse, forgot,
                   next_session, owed, dead, notified, exited, gone, termed, twice>>

(* PTYPE_RESPONSE for session s, from a service or a timer. *)
DispatchResponse(s) ==
    /\ MayDeliver
    /\ owed[s] # "no" /\ Live(owed[s])
    /\ owed' = [owed EXCEPT ![s] = "no"]
    /\ LET c == session_id_coroutine[s]
           cleared == [session_id_coroutine EXCEPT ![s] = None]
       IN  IF c \in Co
           THEN Resume(c, s, cleared)
           ELSE /\ mode' = "fork"
                /\ session_id_coroutine' = cleared
                /\ UNCHANGED <<running, status, sleep_session, watching_session>>
    /\ UNCHANGED <<session_coroutine_id, queues, depth, replies, next_session, from,
                   dead, notified, exited, gone, termed, twice>>

Captured_Sleeping(s) == {c \in Co : sleep_session[c] = s} # {}

(* An error is for a call that is still watched; a late one is ignored. *)
Captured(s) == watching_session[s] # None

(* PTYPE_ERROR for session s.  The coroutine that runs _error_dispatch     *)
(* does not block and is back in the pool when the step ends.              *)
DispatchError(s) ==
    /\ MayDeliver
    /\ owed[s] \in Peer
    /\ owed' = [owed EXCEPT ![s] = "no"]
    /\ error_queue' = IF Captured(s) THEN Append(error_queue, s) ELSE error_queue
    /\ Suspend
    /\ UNCHANGED <<coroutines, sessions, wakeup_queue, fork_queue, trigger, replies,
                   next_session, from, dead, notified, exited, gone, termed, twice>>

(* The orders in which pairs() may visit the sessions sent to p. *)
Watched(p) ==
    LET S == {s \in Session : watching_session[s] = p}
    IN  {q \in [1 .. Cardinality(S) -> S] : Queued(q) = S}

(* _error_dispatch(0, p) in skynet.lua: p is down. *)
error_dispatch(p) ==
    /\ unresponse' = {r \in unresponse : from[r] # p}
    /\ \E q \in Watched(p) : error_queue' = error_queue \o q

DispatchDown(p) ==
    /\ MayDeliver
    /\ p \in dead \ notified
    /\ notified' = notified \cup {p}
    /\ error_dispatch(p)
    /\ Suspend
    /\ UNCHANGED <<coroutines, sessions, wakeup_queue, fork_queue, trigger, answers, forgot,
                   next_session, owed, from, dead, exited, gone, termed, twice>>

(* A service dies.  What it still owes is answered by errors, from its     *)
(* skynet.exit or from the queue that is dropped.                          *)
PeerDies(p) ==
    /\ Live(p)
    /\ dead' = dead \cup {p}
    /\ UNCHANGED <<coroutines, sessions, queues, machine, replies, next_session, owed, from,
                   notified, exited, gone, termed, twice>>

(* After skynet.exit the context is freed and its queue dropped. *)
Gone ==
    /\ exited /\ mode = "idle" /\ ~gone
    /\ gone' = TRUE
    /\ UNCHANGED <<coroutines, sessions, queues, machine, replies, next_session, owed, from,
                   dead, notified, exited, termed, twice>>

-------------------------------------------------------------------------------
(* Calls of the running coroutine *)

NewSession == next_session + 1

ignoreret_Blind == UNCHANGED session_coroutine_id

(* The running coroutine has no request to answer any more. *)
ignoreret == session_coroutine_id' = [session_coroutine_id EXCEPT ![running] = None]

(* The coroutine blocks under a new session, whose answer w will send.     *)
Block(kind, w) ==
    /\ mode = "run"
    /\ next_session < MaxSession
    /\ next_session' = NewSession
    /\ owed' = [owed EXCEPT ![NewSession] = w]
    /\ session_id_coroutine' = [session_id_coroutine EXCEPT ![NewSession] = running]
    /\ status' = [status EXCEPT ![running] = kind]
    /\ Suspend
    /\ UNCHANGED <<session_coroutine_id, queues, replies, from, dead, notified, exited, gone,
                   termed, twice>>

\* The token is the coroutine itself, as without the optional argument, so it
\* is not in use yet.
suspend_sleep(kind, w) ==
    /\ Block(kind, w)
    /\ sleep_session' = [sleep_session EXCEPT ![running] = NewSession]
    /\ UNCHANGED watching_session

(* skynet.suspend differs in who answers: another service's skynet.resume. *)
sleep == suspend_sleep("sleep", "timer")

wait == suspend_sleep("wait", "no")

(* A call to a dead service fails at once, as any error in the coroutine.  *)
call(p) ==
    /\ Live(p)
    /\ Block("call", p)
    /\ watching_session' = [watching_session EXCEPT ![NewSession] = p]
    /\ UNCHANGED sleep_session

timeout ==
    /\ mode = "run"
    /\ next_session < MaxSession
    /\ next_session' = NewSession
    /\ owed' = [owed EXCEPT ![NewSession] = "timer"]
    /\ \E c \in co_create :
        /\ session_id_coroutine' = [session_id_coroutine EXCEPT ![NewSession] = c]
        /\ status' = [status EXCEPT ![c] = "timeout"]
    /\ UNCHANGED <<session_coroutine_id, sleep_session, watching_session, queues, machine,
                   replies, from, dead, notified, exited, gone, termed, twice>>

wakeup(token) ==
    /\ mode = "run"
    /\ sleep_session[token] # None
    /\ Len(wakeup_queue) < MaxQueued
    /\ twice' = (twice \/ token \in Queued(wakeup_queue))
    /\ wakeup_queue' = Append(wakeup_queue, token)
    /\ UNCHANGED <<coroutines, sessions, error_queue, fork_queue, trigger, machine, replies,
                   next_session, owed, from, dead, notified, exited, gone, termed>>

fork ==
    /\ mode = "run"
    /\ \E c \in co_create :
        /\ fork_queue' = fork_queue \cup {c}
        /\ status' = [status EXCEPT ![c] = "fork"]
    /\ UNCHANGED <<session_coroutine_id, sleep_session, sessions, wakeup_queue, error_queue,
                   trigger, machine, replies, world>>

(* skynet.ret; without a session it raises an error. *)
ret ==
    /\ mode = "run"
    /\ session_coroutine_id[running] # None
    /\ Answer(Unanswered(running))
    /\ ignoreret
    /\ UNCHANGED <<status, sleep_session, sessions, queues, machine, unresponse, forgot, world>>

(* skynet.response: the request is to be answered by the closure. *)
response ==
    /\ mode = "run"
    /\ session_coroutine_id[running] # None
    /\ unresponse' = unresponse \cup Unanswered(running)
    /\ ignoreret
    /\ UNCHANGED <<status, sleep_session, sessions, queues, machine, answers, forgot, world>>

(* The closure is called; it sends nothing once it has left unresponse. *)
Respond(r) ==
    /\ mode = "run"
    /\ r \in unresponse
    /\ Answer({r})
    /\ unresponse' = unresponse \ {r}
    /\ UNCHANGED <<coroutines, sessions, queues, machine, forgot, world>>

(* skynet.term calls _error_dispatch in the caller's own coroutine, which  *)
(* loses its session by skynet.ignoreret.                                  *)
term(p) ==
    /\ mode = "run"
    /\ Len(error_queue) + Cardinality({s \in Session : watching_session[s] = p}) <= MaxQueued
    /\ error_dispatch(p)
    /\ forgot' = forgot \cup Unanswered(running) \cup (unresponse \ unresponse')
    /\ ignoreret
    /\ termed' = termed \cup {p}
    /\ UNCHANGED <<status, sleep_session, sessions, wakeup_queue, fork_queue, trigger, machine,
                   answers, next_session, owed, from, dead, notified, exited, gone, twice>>

(* The function of the coroutine returns, and the coroutine is recycled. *)
Finish ==
    /\ mode = "run"
    /\ forgot' = forgot \cup Unanswered(running)
    /\ ignoreret
    /\ status' = [status EXCEPT ![running] = "pool"]
    /\ Suspend
    /\ UNCHANGED <<sleep_session, sessions, queues, answers, unresponse, world>>

Retrigger_Never == UNCHANGED trigger

(* skynet.fork(function() end), which leads to another SUSPEND. *)
Retrigger == trigger' = trigger + 1

(* An error leaves the coroutine: the caller is told, the frames are lost. *)
Fail ==
    /\ mode = "run" /\ trigger < MaxQueued
    /\ Answer(Unanswered(running))
    /\ ignoreret
    /\ status' = [status EXCEPT ![running] = "unused"]
    /\ Retrigger
    /\ Unwind
    /\ UNCHANGED <<sleep_session, sessions, wakeup_queue, error_queue, fork_queue, forgot,
                   unresponse, world>>

Reported_Coroutines == UNION {Unanswered(c) : c \in Co}

(* The callers skynet.exit reports to. *)
Reported == (UNION {Unanswered(c) : c \in Co}) \cup unresponse

(* No coroutine forked before runs after skynet.exit. *)
DropForks ==
    /\ fork_queue' = {} /\ trigger' = 0
    /\ status' = [c \in Co |-> IF c = running THEN "quit"
                               ELSE IF c \in fork_queue THEN "unused" ELSE status[c]]

(* skynet.exit reports to callers but leaves the sessions as they are; the *)
(* frames below go on with dispatch_error_queue.                           *)
exit ==
    /\ mode = "run" /\ ~exited
    /\ exited' = TRUE
    /\ Answer(Reported)
    /\ unresponse' = {}
    /\ DropForks
    /\ Return(depth)
    /\ UNCHANGED <<session_coroutine_id, sleep_session, sessions, wakeup_queue, error_queue,
                   forgot, next_session, owed, from, dead, notified, gone, termed, twice>>

Next ==
    \/ dispatch_wakeup \/ dispatch_error_queue \/ RunFork \/ RunTrigger \/ MessageDone
    \/ \E p \in Peer : \/ \E reply \in BOOLEAN : DispatchRequest(p, reply)
                       \/ RefuseRequest(p) \/ DispatchDown(p) \/ PeerDies(p)
                       \/ call(p) \/ term(p)
    \/ \E s \in Session : DispatchResponse(s) \/ DispatchError(s)
    \/ \E c \in Co : wakeup(c)
    \/ \E r \in Request : Respond(r)
    \/ sleep \/ wait \/ timeout \/ fork \/ ret \/ response \/ Finish \/ Fail \/ exit \/ Gone

Spec == Init /\ [][Next]_vars

-------------------------------------------------------------------------------
(* Properties *)

(* The tables agree: a coroutine that blocks in skynet.lua is found under  *)
(* exactly one session, a token leads to the coroutine that sleeps on it,  *)
(* and a session is watched exactly while a call waits for it.             *)
OneWayBack ==
    /\ \A c \in Co :
        LET S == {s \in Session : session_id_coroutine[s] = c}
        IN  /\ Cardinality(S) = IF status[c] \in Waiting THEN 1 ELSE 0
            /\ IF status[c] \in {"sleep", "wait"} THEN S = {sleep_session[c]}
                                                  ELSE sleep_session[c] = None
    /\ \A s \in Session :
        watching_session[s] # None <=>
            \E c \in Co : session_id_coroutine[s] = c /\ status[c] = "call"

(* No coroutine sleeps or calls in vain: the answer to its session is      *)
(* still to come, or its failure is queued.  And no answer comes in vain:  *)
(* the coroutine it is for, or BREAK, is still there, unless skynet.term   *)
(* gave the call up.  A timer that fires after a wakeup, an error before   *)
(* or after the death of the callee, and an error that unwinds suspend()   *)
(* must neither consume an answer nor leave one over.                      *)
AnswerToCome ==
    \A s \in Session :
        LET c == session_id_coroutine[s]
        IN  /\ c \in Co /\ status[c] # "wait" => owed[s] # "no" \/ s \in Queued(error_queue)
            /\ owed[s] \notin {"no"} \cup dead \cup termed => c # None

(* Until the service exits, a request is answered once, by skynet.ret, a   *)
(* response closure or an error, or held by one coroutine or one closure,  *)
(* which skynet.exit can find; never both.  Only the handler that drops it *)
(* or the death of its sender leaves it neither answered nor held.         *)
AnsweredOnce ==
    ~exited => \A r \in 1 .. Len(from) :
        LET holders == {c \in Co : session_coroutine_id[c] = r}
            ways == answers[r] + Cardinality(holders) + (IF r \in unresponse THEN 1 ELSE 0)
        IN  ways = 1 \/ (ways = 0 /\ (r \in forgot \/ ~Live(from[r])))

(* When a message has been handled, every wakeup and every failed call has *)
(* been delivered, whatever errors the coroutines raised on the way; up to *)
(* the exit, and if the program neither woke a token that was queued       *)
(* already (the stale token ends the chain of wakeups) nor used            *)
(* skynet.term (which may queue a session twice).                          *)
Drained ==
    mode = "idle" /\ ~exited /\ ~twice /\ termed = {} => wakeup_queue = <<>> /\ error_queue = <<>>

(* "report the sources that call me": once an exited service is gone, no   *)
(* live caller is left without an answer, unless its handler dropped it.   *)
CallersReported ==
    gone => \A r \in 1 .. Len(from) : answers[r] > 0 \/ r \in forgot \/ ~Live(from[r])
=============================================================================
