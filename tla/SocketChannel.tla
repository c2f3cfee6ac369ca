---------------------------- MODULE SocketChannel ----------------------------
(***************************************************************************)
(* A socket channel (lualib/skynet/socketchannel.lua) over the sockets of  *)
(* lualib/skynet/socket.lua: coroutines of one service share a connection  *)
(* to a peer; each writes a request and waits for its answer; one dispatch *)
(* coroutine reads the answers and wakes who waits.  In session mode an    *)
(* answer carries the session of its request, in order mode answers come   *)
(* in the order of the requests.  The connection is made when a request    *)
(* finds none, and again after it was lost.                                *)
(*                                                                         *)
(* Coroutines are switched only where they yield: cpu is the one that      *)
(* runs, wq those woken (skynet.wakeup), which all run before the service  *)
(* takes its next message.  Requests of several parts (padding), the auth  *)
(* function and channel:response are left out.                             *)
(***************************************************************************)
EXTENDS Integers, Sequences, FiniteSets, SequencesExt

CONSTANTS Req,        \* the coroutines that make a request, one each
          Parts,      \* socket.read calls it takes to read one answer
          MaxConn,    \* bound on the connections opened
          UserCalls   \* what the user of the channel calls: sets of close, changehost

Conn == 1..MaxConn
NoSock == 0
User == "user"
Disp == "disp"
Raised == "raised"    \* the dispatch coroutine, where it waits in socket.close
Signal == "signal"    \* the close signal (true, false) in the order queue

VARIABLES mode,       \* order or session
          sock, closed, connecting, queue, dispatch,   \* __sock, __closed, __connecting, ...
          conn,       \* the sockets: the network's side and socket.lua's
          inbox,      \* messages to the service, in order
          cpu, wq, forked,
          pc, result, \* of each request; pc[User] too
          user,       \* calls left to the user
          dropped     \* history: the user closed the socket under a request

chan == <<sock, closed, connecting, queue, dispatch>>
vars == <<mode, chan, conn, inbox, cpu, wq, forked, pc, result, user, dropped>>

Idle == "idle"
NewConn == [st |-> "none", connected |-> FALSE, pool |-> FALSE, co |-> "none",
            closing |-> "none", buffer |-> <<>>, sent |-> <<>>, half |-> 0]

Init ==
    /\ mode \in {"order", "session"}
    /\ sock = NoSock /\ closed = FALSE /\ connecting = <<>> /\ queue = <<>>
    /\ dispatch = [pc |-> "none", k |-> NoSock, cur |-> "none", got |-> 0]
    /\ conn = [k \in Conn |-> NewConn]
    /\ inbox = <<>> /\ cpu = Idle /\ wq = <<>> /\ forked = FALSE
    /\ pc = [x \in Req \cup {User} |-> <<"idle", NoSock>>]
    /\ result = [r \in Req |-> "none"]
    /\ user \in UserCalls /\ dropped = FALSE

At(r) == pc[r][1]
GotoOn(r, l, k) == pc' = [pc EXCEPT ![r] = <<l, k>>]
Goto(r, l) == GotoOn(r, l, NoSock)
Yield == cpu' = Idle
Run(r) == cpu = r

\* The service takes a message when no coroutine can run.
Quiet == cpu = Idle /\ wq = <<>> /\ ~forked

(***************************************************************************)
(* The scheduler of the service's coroutines.                              *)
(***************************************************************************)
resume ==
    /\ cpu = Idle
    /\ \/ wq # <<>> /\ cpu' = Head(wq) /\ wq' = Tail(wq) /\ UNCHANGED forked
       \/ wq = <<>> /\ forked /\ cpu' = Disp /\ forked' = FALSE /\ UNCHANGED wq
    /\ UNCHANGED <<mode, chan, conn, inbox, pc, result, user, dropped>>

(***************************************************************************)
(* The network and socket.lua.                                             *)
(***************************************************************************)
\* socket.open completes: with a new socket or with an error.
open_result(r) ==
    /\ At(r) = "opening"
    /\ \/ \E k \in Conn : /\ conn[k].st = "none" /\ \A j \in 1..(k - 1) : conn[j].st # "none"
                          /\ conn' = [conn EXCEPT ![k].st = "open", ![k].connected = TRUE,
                                                  ![k].pool = TRUE]
                          /\ inbox' = Append(inbox, [t |-> "resume", r |-> r])
                          /\ GotoOn(r, "opened", k)
       \/ /\ inbox' = Append(inbox, [t |-> "resume", r |-> r])
          /\ GotoOn(r, "opened", NoSock)
          /\ UNCHANGED conn
    /\ UNCHANGED <<mode, chan, cpu, wq, forked, result, user, dropped>>

\* The peer sends the next part of an answer: to the oldest request, or to any
\* when answers carry sessions.
answer(k) ==
    /\ conn[k].st = "open"
    /\ \E i \in DOMAIN conn[k].sent :
         LET r == conn[k].sent[i]
             rest == RemoveAt(conn[k].sent, i)
             last == conn[k].half + 1 = Parts
         IN
         /\ mode = "order" \/ conn[k].half > 0 => i = 1
         /\ conn' = [conn EXCEPT ![k].sent = IF last THEN rest ELSE <<r>> \o rest,
                                 ![k].half = IF last THEN 0 ELSE @ + 1]
         /\ inbox' = Append(inbox, [t |-> "data", k |-> k, r |-> r])
    /\ UNCHANGED <<mode, chan, cpu, wq, forked, pc, result, user, dropped>>

\* The socket thread closes the socket: by the peer or for driver.close.
cut(k) ==
    /\ conn[k].st = "open"
    /\ conn' = [conn EXCEPT ![k].st = "cut"]
    /\ inbox' = Append(inbox, [t |-> "close", k |-> k])
    /\ UNCHANGED <<mode, chan, cpu, wq, forked, pc, result, user, dropped>>

Wake(x) == wq' = IF x = "none" THEN wq ELSE Append(wq, x)

\* The service's next message: a coroutine's timer or connect message, or
\* socket_message[1] and [3].
message ==
    /\ Quiet /\ inbox # <<>>
    /\ inbox' = Tail(inbox)
    /\ LET m == Head(inbox) IN
       \/ m.t = "resume" /\ Wake(m.r) /\ UNCHANGED conn
       \/ /\ m.t = "data" /\ conn[m.k].pool
          /\ conn' = [conn EXCEPT ![m.k].buffer = Append(@, m.r),
                                  ![m.k].co = IF @ = Disp THEN "none" ELSE @]
          /\ Wake(IF conn[m.k].co = Disp THEN Disp ELSE "none")
       \/ /\ m.t \in {"data", "close"} /\ ~conn[m.k].pool
          /\ UNCHANGED <<conn, wq>>
       \/ /\ m.t = "close" /\ conn[m.k].pool
          /\ conn' = [conn EXCEPT ![m.k].connected = FALSE, ![m.k].co = "none"]
          /\ Wake(IF conn[m.k].co = Raised THEN Disp ELSE conn[m.k].co)
    /\ UNCHANGED <<mode, chan, cpu, forked, pc, result, user, dropped>>

\* The end of socket.close: the socket leaves the pool.
Removed(c) == [c EXCEPT !.pool = FALSE, !.connected = FALSE, !.buffer = <<>>,
                        !.closing = "none"]

\* socket.close by x of a connected socket: x waits, for the reader if there
\* is one, else for the close message.
Closing(c, x) == IF c.co = Disp THEN [c EXCEPT !.closing = x] ELSE [c EXCEPT !.co = x]

(***************************************************************************)
(* wakeup_all: everyone who waits gets socket_error, in order mode the     *)
(* close signal is thrown away too.                                        *)
(***************************************************************************)
Waiters == SelectSeq(queue, LAMBDA x : x # Signal)
Failed(res, s) == [r \in Req |-> IF r \in Range(s) THEN "error" ELSE res[r]]

\* push_response, which wakes the dispatch coroutine that waits for work.
pushed(x) == /\ queue' = Append(queue, x)
             /\ dispatch' = [dispatch EXCEPT !.pc = IF @ = "wait" THEN "pop" ELSE @]
             /\ Wake(IF dispatch.pc = "wait" THEN Disp ELSE "none")

\* Mutant: the old dispatch coroutine is not told to end.
term_dispatch_thread_NoSignal == UNCHANGED <<queue, dispatch, wq>>

\* term_dispatch_thread
term_dispatch_thread ==
    IF mode = "order" /\ dispatch.pc # "none" THEN pushed(Signal)
    ELSE UNCHANGED <<queue, dispatch, wq>>

(***************************************************************************)
(* channel:request                                                         *)
(***************************************************************************)
request(r) ==
    /\ Quiet /\ At(r) = "idle"
    /\ cpu' = r /\ Goto(r, "check")
    /\ UNCHANGED <<mode, chan, conn, inbox, wq, forked, result, user, dropped>>

\* check_connection; a socket found disconnected is closed without waiting.
check_connection(r) ==
    /\ Run(r) /\ At(r) \in {"check", "recheck"}
    /\ IF sock # NoSock /\ ~conn[sock].connected
       THEN sock' = NoSock /\ conn' = [conn EXCEPT ![sock] = Removed(@)]
       ELSE UNCHANGED <<sock, conn>>
    /\ \/ sock' # NoSock /\ Goto(r, "write") /\ UNCHANGED <<cpu, result>>
       \/ /\ sock' = NoSock /\ At(r) = "check" /\ (sock # NoSock \/ ~closed)
          /\ Goto(r, "connect") /\ UNCHANGED <<cpu, result>>
       \/ /\ sock' = NoSock /\ (At(r) = "recheck" \/ (sock = NoSock /\ closed))
          /\ Goto(r, "done") /\ result' = [result EXCEPT ![r] = "error"] /\ Yield
    /\ UNCHANGED <<mode, closed, connecting, queue, dispatch, inbox, wq, forked, user, dropped>>

\* block_connect: wait for the coroutine that connects, or connect (try_connect
\* and connect_once up to socket.open; a closed channel is not connected).
block_connect(r) ==
    /\ Run(r) /\ At(r) = "connect"
    /\ \/ /\ connecting # <<>>
          /\ connecting' = Append(connecting, r) /\ Goto(r, "recheck") /\ Yield
          /\ UNCHANGED <<queue, dispatch, wq>>
       \/ /\ connecting = <<>> /\ ~closed
          /\ connecting' = <<r>> /\ Goto(r, "opening") /\ Yield
          /\ term_dispatch_thread
       \/ /\ connecting = <<>> /\ closed
          /\ Goto(r, "recheck")
          /\ UNCHANGED <<connecting, queue, dispatch, wq, cpu>>
    /\ UNCHANGED <<mode, sock, closed, conn, inbox, forked, result, user, dropped>>

\* connect_once after socket.open: wait until the old dispatch coroutine is
\* gone, fork a new one; then the others that wait to connect are woken.
connect_once(r) ==
    /\ Run(r) /\ \E k \in Conn \cup {NoSock} :
       /\ pc[r] = <<"opened", k>>
       /\ \/ /\ k # NoSock /\ dispatch.pc # "none"          \* skynet.yield
             /\ inbox' = Append(inbox, [t |-> "resume", r |-> r]) /\ Yield
             /\ UNCHANGED <<sock, dispatch, forked, connecting, wq, pc>>
          \/ /\ k = NoSock \/ dispatch.pc = "none"
             /\ IF k = NoSock THEN UNCHANGED <<sock, dispatch, forked>>
                ELSE /\ sock' = k /\ forked' = TRUE
                     /\ dispatch' = [pc |-> "loop", k |-> k, cur |-> "none", got |-> 0]
             /\ wq' = wq \o Tail(connecting)
             /\ connecting' = <<>> /\ Goto(r, "recheck")
             /\ UNCHANGED <<inbox, cpu>>
    /\ UNCHANGED <<mode, closed, queue, conn, result, user, dropped>>

\* The request is written and its coroutine waits for the answer; or the
\* socket thread has closed the socket already (sock_err).
write(r) ==
    /\ Run(r) /\ At(r) = "write"
    /\ \/ /\ conn[sock].st = "open"
          /\ conn' = [conn EXCEPT ![sock].sent = Append(@, r)]
          /\ pushed(r) /\ Goto(r, "await") /\ UNCHANGED sock
       \/ /\ conn[sock].st = "cut"
          /\ sock' = NoSock /\ conn' = [conn EXCEPT ![sock] = Closing(@, r)]
          /\ GotoOn(r, "sock_err", sock) /\ UNCHANGED <<queue, dispatch, wq>>
    /\ Yield
    /\ UNCHANGED <<mode, closed, connecting, inbox, forked, result, user, dropped>>

\* Mutant: sock_err fails its own request only.
sock_err_OnlySelf(r) ==
    /\ Run(r) /\ \E k \in Conn : /\ pc[r] = <<"sock_err", k>>
                                 /\ conn' = [conn EXCEPT ![k] = Removed(@)]
    /\ result' = [result EXCEPT ![r] = "error"]
    /\ Goto(r, "done") /\ Yield
    /\ UNCHANGED <<mode, chan, inbox, wq, forked, user, dropped>>

sock_err(r) ==
    /\ Run(r) /\ \E k \in Conn : /\ pc[r] = <<"sock_err", k>>
                                 /\ conn' = [conn EXCEPT ![k] = Removed(@)]
    /\ queue' = <<>> /\ wq' = wq \o Waiters
    /\ result' = [Failed(result, Waiters) EXCEPT ![r] = "error"]
    /\ Goto(r, "done") /\ Yield
    /\ UNCHANGED <<mode, sock, closed, connecting, dispatch, inbox, forked, user, dropped>>

wait_for_response(r) ==
    /\ Run(r) /\ At(r) = "await"
    /\ Goto(r, "done") /\ Yield
    /\ UNCHANGED <<mode, chan, conn, inbox, wq, forked, result, user, dropped>>

(***************************************************************************)
(* The dispatch coroutine: dispatch_by_order and dispatch_by_session.      *)
(***************************************************************************)
dispatch_exit == dispatch' = [dispatch EXCEPT !.pc = "none"] /\ Yield

dispatch_loop ==
    /\ Run(Disp) /\ dispatch.pc = "loop"
    /\ \/ sock = NoSock /\ dispatch_exit
       \/ /\ sock # NoSock /\ UNCHANGED cpu
          /\ dispatch' = IF mode = "order" THEN [dispatch EXCEPT !.pc = "pop"]
                         ELSE [pc |-> "read", k |-> sock, cur |-> "none", got |-> 0]
    /\ UNCHANGED <<mode, sock, closed, connecting, queue, conn, inbox, wq, forked, pc, result, user, dropped>>

\* pop_response: wait for work, end on the close signal, or take a request.
pop_response ==
    /\ Run(Disp) /\ dispatch.pc = "pop"
    /\ \/ /\ queue = <<>>
          /\ dispatch' = [dispatch EXCEPT !.pc = "wait"] /\ Yield
          /\ UNCHANGED <<queue, wq, result>>
       \/ /\ queue # <<>> /\ Head(queue) = Signal
          /\ queue' = <<>> /\ wq' = wq \o Waiters /\ result' = Failed(result, Waiters)
          /\ dispatch_exit
       \/ /\ queue # <<>> /\ Head(queue) # Signal
          /\ dispatch' = [pc |-> "read", k |-> sock, cur |-> Head(queue), got |-> 0]
          /\ queue' = Tail(queue) /\ UNCHANGED <<cpu, wq, result>>
    /\ UNCHANGED <<mode, sock, closed, connecting, conn, inbox, forked, pc, user, dropped>>

\* The socket that is read; __sock may have become false since the request came.
Reading == IF dispatch.k = NoSock THEN NewConn ELSE conn[dispatch.k]

\* socket.read with an empty buffer: suspend.
read_suspend ==
    /\ Run(Disp) /\ dispatch.pc = "read"
    /\ Reading.buffer = <<>> /\ Reading.connected /\ Reading.co = "none"
    /\ conn' = [conn EXCEPT ![dispatch.k].co = Disp]
    /\ dispatch' = [dispatch EXCEPT !.pc = "woken"] /\ Yield
    /\ UNCHANGED <<mode, sock, closed, connecting, queue, inbox, wq, forked, pc, result, user, dropped>>

\* The end of suspend: a coroutine that waits in socket.close is woken.
read_woken ==
    /\ Run(Disp) /\ dispatch.pc = "woken"
    /\ Wake(Reading.closing)
    /\ dispatch' = [dispatch EXCEPT !.pc = "read"]
    /\ UNCHANGED <<mode, sock, closed, connecting, queue, conn, inbox, cpu, forked, pc, result, user, dropped>>

\* A part is read; the last one makes the answer: to the request popped, or to
\* the one with its session.
get_response ==
    LET a == Head(Reading.buffer)
        r == IF mode = "order" THEN dispatch.cur ELSE a
        last == dispatch.got + 1 = Parts
    IN
    /\ Run(Disp) /\ dispatch.pc = "read" /\ Reading.buffer # <<>>
    /\ conn' = [conn EXCEPT ![dispatch.k].buffer = Tail(@)]
    /\ IF last /\ (mode = "order" \/ a \in Range(queue))
       THEN result' = [result EXCEPT ![r] = a] /\ Wake(r)
       ELSE UNCHANGED <<result, wq>>
    /\ queue' = IF last /\ mode = "session" THEN SelectSeq(queue, LAMBDA x : x # a) ELSE queue
    /\ dispatch' = IF last THEN [dispatch EXCEPT !.pc = "loop"] ELSE [dispatch EXCEPT !.got = @ + 1]
    /\ UNCHANGED <<mode, sock, closed, connecting, inbox, cpu, forked, pc, user, dropped>>

\* The channel has a connected socket: to close it takes a wait.
Attached == sock # NoSock /\ conn[sock].connected

\* The response function refuses what it read on a connected socket: the
\* dispatch coroutine waits in socket.close before it fails everyone.
response_raises ==
    /\ Run(Disp) /\ dispatch.pc = "read" /\ Reading.buffer # <<>> /\ Attached
    /\ sock' = NoSock /\ conn' = [conn EXCEPT ![sock] = Closing(@, Raised)]
    /\ dispatch' = [dispatch EXCEPT !.pc = "raised"] /\ Yield
    /\ UNCHANGED <<mode, closed, connecting, queue, inbox, wq, forked, pc, result, user, dropped>>

\* The read fails, or the response function raises: the socket is closed (at
\* once when it is disconnected) and everyone fails.
read_error ==
    LET all == IF mode = "order" THEN <<dispatch.cur>> \o Waiters ELSE Waiters IN
    /\ Run(Disp)
    /\ \/ /\ dispatch.pc = "read" /\ Reading.buffer = <<>>
          /\ ~Reading.connected \/ Reading.co # "none"
       \/ dispatch.pc = "read" /\ Reading.buffer # <<>> /\ ~Attached
       \/ dispatch.pc = "raised"
    /\ sock' = NoSock
    /\ conn' = CASE dispatch.pc = "raised" -> [conn EXCEPT ![dispatch.k] = Removed(@)]
                 [] sock # NoSock -> [conn EXCEPT ![sock] = Removed(@)]
                 [] OTHER -> conn
    /\ queue' = <<>> /\ wq' = wq \o all /\ result' = Failed(result, all)
    /\ dispatch' = [dispatch EXCEPT !.pc = "loop"]
    /\ UNCHANGED <<mode, closed, connecting, inbox, cpu, forked, pc, user, dropped>>

(***************************************************************************)
(* channel:close and channel:changehost by the user of the channel.        *)
(***************************************************************************)
Outstanding == Waiters # <<>> \/ dispatch.pc \in {"read", "woken"}

close_channel_socket ==
    IF sock = NoSock THEN UNCHANGED <<sock, conn, pc, dropped>>
    ELSE /\ sock' = NoSock
         /\ dropped' = (dropped \/ Outstanding)
         /\ IF conn[sock].connected
            THEN /\ conn' = [conn EXCEPT ![sock] = Closing(@, User)]
                 /\ GotoOn(User, "closing", sock)
            ELSE conn' = [conn EXCEPT ![sock] = Removed(@)] /\ UNCHANGED pc

close ==
    /\ Quiet /\ "close" \in user /\ At(User) = "idle" /\ ~closed
    /\ user' = user \ {"close"} /\ closed' = TRUE
    /\ term_dispatch_thread
    /\ close_channel_socket
    /\ UNCHANGED <<mode, connecting, inbox, cpu, forked, result>>

changehost ==
    /\ Quiet /\ "changehost" \in user /\ At(User) = "idle" /\ ~closed
    /\ user' = user \ {"changehost"}
    /\ close_channel_socket
    /\ UNCHANGED <<mode, closed, connecting, queue, dispatch, inbox, cpu, wq, forked, result>>

user_closed ==
    /\ Run(User) /\ \E k \in Conn : /\ pc[User] = <<"closing", k>>
                                    /\ conn' = [conn EXCEPT ![k] = Removed(@)]
    /\ Goto(User, "idle") /\ Yield
    /\ UNCHANGED <<mode, chan, inbox, wq, forked, result, user, dropped>>

Coroutine(r) == \/ check_connection(r) \/ block_connect(r) \/ connect_once(r)
                \/ write(r) \/ sock_err(r) \/ wait_for_response(r)
Dispatch == dispatch_loop \/ pop_response \/ read_suspend \/ read_woken \/ get_response
            \/ response_raises \/ read_error
ServiceStep == resume \/ message \/ Dispatch \/ user_closed \/ \E r \in Req : Coroutine(r)
Network(k) == answer(k) \/ cut(k)

Next == \/ ServiceStep
        \/ \E r \in Req : request(r) \/ open_result(r)
        \/ \E k \in Conn : Network(k)
        \/ close \/ changehost

\* The service handles its messages, socket.open ends, and a socket with
\* something outstanding gets its answers or is closed.
Busy(k) == conn[k].sent # <<>> \/ {conn[k].co, conn[k].closing} \ {"none", Disp} # {}
Fairness == /\ WF_vars(ServiceStep)
            /\ WF_vars(\E r \in Req : open_result(r))
            /\ \A k \in Conn : WF_vars(Busy(k) /\ Network(k))

Spec == Init /\ [][Next]_vars /\ Fairness

-----------------------------------------------------------------------------
\* A request gets the answer to itself or an error, never another's answer,
\* through lost connections and reconnects (unless the user closed the socket
\* under waiting requests).
RightAnswer == dropped \/ \A r \in Req : result[r] \in {"none", "error", r}

\* In order mode the requests that wait (the one being read, then the queue)
\* are, in order, those written on the channel's connection and not answered:
\* nobody waits on a connection that is gone.
InStep ==
    (mode = "order" /\ ~dropped /\ sock # NoSock /\ conn[sock].st = "open") =>
        LET c == conn[sock]
            flight == SelectSeq(inbox, LAMBDA m : m.t = "data" /\ m.k = sock)
            coming == c.buffer \o [i \in DOMAIN flight |-> flight[i].r] \o c.sent
        IN  (IF dispatch.pc \in {"read", "woken"} THEN <<dispatch.cur>> ELSE <<>>) \o Waiters = coming

\* Every request ends, with its answer or an error: nobody is left waiting for
\* a connection, for an answer or in socket.close.
RequestsEnd == <>[](dropped \/ \A r \in Req : At(r) \in {"idle", "done"})

\* socket.close waits for the coroutine that reads before it drops the socket.
ClosedAfterReader == \A k \in Conn : conn[k].st # "none" /\ ~conn[k].pool => conn[k].co # Disp
=============================================================================
