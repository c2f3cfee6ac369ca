---------------------------- MODULE SocketServer ----------------------------
(***************************************************************************)
(* The socket server (skynet-src/socket_server.c) under the wrapper of     *)
(* skynet_socket.c.  One socket thread owns the sockets: it executes the   *)
(* requests that services write into a pipe, then handles the events of    *)
(* one epoll_wait, then looks at the pipe again.  A service thread that    *)
(* sends takes a short cut when nothing of the socket waits to be sent: it *)
(* takes the socket's dw_lock and writes to the descriptor itself; what    *)
(* the kernel does not take is left in dw_buffer for the socket thread.    *)
(*                                                                         *)
(* A message is the sequence of its bytes, each tagged with the message,   *)
(* so a write buffer list is the sequence of the bytes still to send and   *)
(* wire[id] is all that was written to the descriptor of socket id.        *)
(***************************************************************************)
EXTENDS Integers, Sequences, FiniteSets, Functions

CONSTANTS Service,      \* the services (each runs on one worker at a time)
          MaxSocket,    \* MAX_SOCKET, the number of slots
          MaxId,        \* bound on alloc_id
          Workloads,    \* bounds on the calls of each kind that each service
                        \* makes; one of them is chosen at the start
          MsgSize,      \* bytes of a message
          MaxSending,   \* 0xffff, the largest count of s->sending
          WARNING_SIZE

ASSUME SizeAssumption == MaxSocket \in Nat \ {0} /\ MsgSize \in Nat \ {0} /\ MaxSending > 0

VARIABLES slot,       \* slot[i]: struct socket
          alloc_id,
          pipe,       \* requests written to sendctrl_fd, not yet read
          ev,         \* events of the last epoll_wait not yet handled
          checkctrl,
          st,         \* where the socket thread is inside close_socket
          th,         \* where each service thread is inside socket_server_send
          abort,      \* an assert() of the socket server has failed
          calls,      \* calls of each kind left to each service
          opened,     \* <<id, kind>> once SOCKET_OPEN is reported (UDP: at once)
          wire,       \* bytes written to the descriptor of each id
          owed,       \* history: what the first close of an id must still send
          ended       \* history: how each id ended

vars == <<slot, alloc_id, pipe, ev, checkctrl, st, th, abort, calls, opened, wire, owed, ended>>
history == <<opened, wire, owed, ended>>

Slot == 0..MaxSocket-1
Id == 1..MaxId
HASH_ID(id) == id % MaxSocket
ID_TAG16(id) == id \div MaxSocket
bytes(m) == [b \in 1..MsgSize |-> <<m, b>>]
Stream(s) == s.protocol = "tcp"

(***************************************************************************)
(* Predicates of the code on one socket.                                   *)
(***************************************************************************)
send_buffer_empty(s) == s.high = <<>> /\ s.low = <<>>
Buffered(s) == ~(send_buffer_empty(s) /\ s.dw = <<>>)

list_uncomplete(list) == list # <<>> /\ list[1][2] # 1

\* Mutant: the rest of a direct write is forgotten.
nomore_sending_data_NoDw(s) == send_buffer_empty(s) /\ s.count = 0

nomore_sending_data(s) == send_buffer_empty(s) /\ s.dw = <<>> /\ s.count = 0

\* Mutant: requests still in the pipe are not looked at.
can_direct_write_NoCount(s, id) ==
    s.id = id /\ send_buffer_empty(s) /\ s.dw = <<>> /\ s.type = "CONNECTED" /\ s.udpconnecting = 0

can_direct_write(s, id) ==
    s.id = id /\ nomore_sending_data(s) /\ s.type = "CONNECTED" /\ s.udpconnecting = 0

\* m with the address it is sent to: its own, or the one of udp_connect.
udp_socket_address(s, m) == [m EXCEPT !.known = IF m.cmd = "A" \/ Stream(s) THEN @ ELSE s.address]

Stale(s, id) == s.type = "INVALID" \/ s.id # id

(***************************************************************************)
(* reserve_id tries MAX_SOCKET consecutive ids and takes the first whose   *)
(* slot is free; alloc_id keeps every id that was tried.                   *)
(***************************************************************************)
FreeIds == {id \in alloc_id + 1 .. alloc_id + MaxSocket : slot[HASH_ID(id)].type = "INVALID"}
reserve_id == CHOOSE id \in FreeIds : \A other \in FreeIds : id <= other

reserved(s, id) == [s EXCEPT !.type = "RESERVE", !.id = id, !.protocol = "unknown", !.udpconnecting = 0]

\* new_fd with the type its caller sets next.
new_fd(s, id, protocol, type, poll) ==
    [s EXCEPT !.type = type, !.tag = ID_TAG16(id), !.count = 0, !.protocol = protocol,
              !.wb_size = 0, !.warn_size = 0, !.dw = <<>>, !.poll = poll, !.address = FALSE]
new_fd_asserts(s) == s.type = "RESERVE" /\ send_buffer_empty(s)

\* What force_close leaves of a socket.  It waits for the dw_lock.
freed(s) == [s EXCEPT !.type = "INVALID", !.high = <<>>, !.low = <<>>, !.dw = <<>>, !.poll = {}]
force_close(i, how) ==
    /\ slot[i].lock = "free"
    /\ abort' = (abort \/ slot[i].type = "RESERVE")
    /\ slot' = [slot EXCEPT ![i] = freed(@)]
    /\ ended' = [ended EXCEPT ![slot[i].id] = how]

Init ==
    /\ slot = [i \in Slot |->
                 [type |-> "INVALID", id |-> 0, protocol |-> "unknown", tag |-> 0, count |-> 0,
                  high |-> <<>>, low |-> <<>>, dw |-> <<>>, wb_size |-> 0, warn_size |-> 0,
                  poll |-> {}, udpconnecting |-> 0, address |-> FALSE, lock |-> "free"]]
    /\ alloc_id = 0 /\ pipe = <<>> /\ ev = {} /\ checkctrl = TRUE
    /\ st = [pc |-> "poll"]
    /\ th = [t \in Service |-> [pc |-> "idle"]]
    /\ abort = FALSE
    /\ calls \in Workloads
    /\ opened = {} /\ wire = [id \in Id |-> <<>>]
    /\ owed = [id \in Id |-> [by |-> "nobody", msgs |-> {}]] /\ ended = [id \in Id |-> "no"]

-----------------------------------------------------------------------------
(***************************************************************************)
(* Calls of the services.                                                  *)
(***************************************************************************)
exiting == st.pc \in {"exit", "released"} \/ \E r \in Range(pipe) : r.cmd = "X"

Call(t, c) ==
    /\ th[t].pc = "idle" /\ calls[t][c] > 0 /\ ~exiting
    /\ calls' = [calls EXCEPT ![t][c] = @ - 1]

send_request(r) == pipe' = Append(pipe, r)

\* socket_server_connect, _listen, _bind and _udp: reserve an id and ask the
\* socket thread to open it (O, L, B, U).
OpenRequest(t, cmd) ==
    /\ Call(t, cmd) /\ cmd \in {"O", "L", "B", "U"}
    /\ alloc_id + MaxSocket <= MaxId
    /\ IF FreeIds = {}
       THEN alloc_id' = alloc_id + MaxSocket /\ UNCHANGED <<slot, pipe, opened>>
       ELSE /\ alloc_id' = reserve_id
            /\ slot' = [slot EXCEPT ![HASH_ID(reserve_id)] = reserved(@, reserve_id)]
            /\ send_request([cmd |-> cmd, id |-> reserve_id])
            /\ opened' = IF cmd = "U" THEN opened \cup {<<reserve_id, "udp">>} ELSE opened
    /\ UNCHANGED <<ev, checkctrl, st, th, abort, wire, owed, ended>>

socket_server_start(t, id) ==
    /\ Call(t, "S") /\ id <= alloc_id
    /\ send_request([cmd |-> "S", id |-> id])
    /\ UNCHANGED <<slot, alloc_id, ev, checkctrl, st, th, abort, history>>

\* The messages accepted for id that are not written yet, wherever they wait.
InFlight(id) ==
    LET s == slot[HASH_ID(id)]
        buffered == IF s.id = id THEN s.high \o s.low \o s.dw ELSE <<>>
    IN {b[1] : b \in Range(buffered)}
       \cup {r.msg : r \in {q \in Range(pipe) : q.cmd \in {"D", "P"} /\ q.id = id}}

\* socket_server_close and socket_server_shutdown.
socket_server_close(t, id, shutdown) ==
    /\ Call(t, IF shutdown THEN "shutdown" ELSE "K") /\ id <= alloc_id
    /\ send_request([cmd |-> "K", id |-> id, shutdown |-> shutdown])
    /\ owed' = IF owed[id].by = "nobody"
               THEN [owed EXCEPT ![id] = [by |-> t, msgs |-> {m \in InFlight(id) : m.by = t /\ Stream(slot[HASH_ID(id)])}]]
               ELSE owed
    /\ UNCHANGED <<slot, alloc_id, ev, checkctrl, st, th, abort, opened, wire, ended>>

(***************************************************************************)
(* socket_server_send (D), socket_server_send_lowpriority (P) and          *)
(* socket_server_udp_send (A), one step per access to shared state.        *)
(***************************************************************************)
Goto(t, pc) == th' = [th EXCEPT ![t] = IF pc = "idle" THEN [pc |-> pc] ELSE [@ EXCEPT !.pc = pc]]

SendCall(t, id, cmd, known) ==
    /\ Call(t, cmd) /\ cmd \in {"D", "P", "A"}
    /\ \E kind \in {"tcp", "udp", "bind"} : <<id, kind>> \in opened /\ (cmd = "A" => kind = "udp")
    /\ cmd # "A" => known
    /\ IF Stale(slot[HASH_ID(id)], id)
       THEN UNCHANGED th
       ELSE th' = [th EXCEPT ![t] =
                     [pc |-> IF cmd = "P" THEN "count" ELSE "try",
                      msg |-> [by |-> t, n |-> calls[t][cmd], id |-> id,
                               cmd |-> cmd, known |-> known]]]
    /\ UNCHANGED <<slot, alloc_id, pipe, ev, checkctrl, st, abort, history>>

\* Both checks of can_direct_write with the trylock between them.
TryDirectWrite(t) ==
    LET m == th[t].msg  i == HASH_ID(m.id) IN
    /\ th[t].pc = "try"
    /\ IF can_direct_write(slot[i], m.id) /\ slot[i].lock = "free"
       THEN slot' = [slot EXCEPT ![i].lock = t] /\ Goto(t, "write")
       ELSE Goto(t, IF m.cmd = "A" THEN "request" ELSE "count") /\ UNCHANGED slot
    /\ UNCHANGED <<alloc_id, pipe, ev, checkctrl, st, abort, calls, history>>

\* Mutant: the write event is not asked for.
dw_rest_NoEvent(s, rest) == [s EXCEPT !.dw = rest]

\* What the kernel did not take stays in dw_buffer until the write event.
dw_rest(s, rest) == [s EXCEPT !.dw = rest, !.poll = @ \cup {"write"}]

\* n bytes are written while the lock is held; 0 is an error or EAGAIN.
DirectWrite(t, n) ==
    LET i == HASH_ID(th[t].msg.id)  s == slot[i]
        m == udp_socket_address(s, th[t].msg)
        rest == SubSeq(bytes(m), n + 1, MsgSize)
        unlocked == [s EXCEPT !.lock = "free"]
        Wrote(k) == wire' = [wire EXCEPT ![m.id] = @ \o SubSeq(bytes(m), 1, k)]
    IN
    /\ th[t].pc = "write"
    /\ IF Stream(s)
       THEN /\ m.cmd = "D" /\ Wrote(n) /\ Goto(t, "idle")
            /\ slot' = [slot EXCEPT ![i] = IF rest = <<>> THEN unlocked ELSE dw_rest(unlocked, rest)]
       ELSE /\ n \in {0, MsgSize}
            /\ Wrote(IF m.known THEN n ELSE 0)
            /\ slot' = [slot EXCEPT ![i] = IF ~m.known \/ n > 0 \/ m.cmd = "A" THEN unlocked ELSE dw_rest(unlocked, rest)]
            /\ Goto(t, IF m.cmd = "A" /\ m.known /\ n = 0 THEN "request" ELSE "idle")
    /\ UNCHANGED <<alloc_id, pipe, ev, checkctrl, st, abort, calls, opened, owed, ended>>

\* Mutant: the tag of the slot's present socket is not compared.
IncSendingRef_NoTag(t) ==
    LET i == HASH_ID(th[t].msg.id)  counted == Stream(slot[i]) IN
    /\ th[t].pc = "count"
    /\ counted => slot[i].count < MaxSending
    /\ slot' = [slot EXCEPT ![i].count = IF counted THEN @ + 1 ELSE @]
    /\ Goto(t, "request")
    /\ UNCHANGED <<alloc_id, pipe, ev, checkctrl, st, abort, calls, history>>

\* inc_sending_ref; it spins while the count is at its limit.
IncSendingRef(t) ==
    LET m == th[t].msg  i == HASH_ID(m.id)  s == slot[i]
        counted == Stream(s) /\ s.tag = ID_TAG16(m.id)
    IN
    /\ th[t].pc = "count"
    /\ counted => s.count < MaxSending
    /\ slot' = [slot EXCEPT ![i].count = IF counted THEN @ + 1 ELSE @]
    /\ Goto(t, "request")
    /\ UNCHANGED <<alloc_id, pipe, ev, checkctrl, st, abort, calls, history>>

PostMessage(t) ==
    /\ th[t].pc = "request"
    /\ send_request([cmd |-> th[t].msg.cmd, id |-> th[t].msg.id, msg |-> th[t].msg])
    /\ Goto(t, "idle")
    /\ UNCHANGED <<slot, alloc_id, ev, checkctrl, st, abort, calls, history>>

\* socket_server_udp_connect; the name may not resolve.
UdpConnect(t, id, resolves) ==
    LET i == HASH_ID(id) IN
    /\ Call(t, "C") /\ <<id, "udp">> \in opened /\ slot[i].lock = "free"
    /\ IF Stale(slot[i], id)
       THEN UNCHANGED <<slot, pipe>>
       ELSE /\ slot' = [slot EXCEPT ![i].udpconnecting = @ + 1]
            /\ IF resolves THEN send_request([cmd |-> "C", id |-> id]) ELSE UNCHANGED pipe
    /\ UNCHANGED <<alloc_id, ev, checkctrl, st, th, abort, history>>

\* socket_server_exit, called once every service is gone.
socket_server_exit ==
    /\ ~exiting /\ \A t \in Service : th[t].pc = "idle"
    /\ send_request([cmd |-> "X", id |-> 0])
    /\ UNCHANGED <<slot, alloc_id, ev, checkctrl, st, th, abort, calls, history>>

-----------------------------------------------------------------------------
(***************************************************************************)
(* The socket thread: ctrl_cmd.                                            *)
(***************************************************************************)
ctrl_cmd(cmds) ==
    /\ st.pc = "poll" /\ checkctrl /\ pipe # <<>> /\ Head(pipe).cmd \in cmds
    /\ pipe' = Tail(pipe)

has_no_cmd ==
    /\ st.pc = "poll" /\ checkctrl /\ pipe = <<>>
    /\ checkctrl' = FALSE
    /\ UNCHANGED <<slot, alloc_id, pipe, ev, st, th, abort, calls, history>>

Events(i) == {e \in ev : e.slot = i}

\* open_socket, listen_socket, bind_socket and add_udp_socket.  Any of them may
\* fail; connect() may also succeed at once.  Then, and when it is bound, a
\* descriptor is reported open.
open_socket(outcome) ==
    LET r == Head(pipe)  i == HASH_ID(r.id)  s == slot[i]
        New == CASE r.cmd = "L" -> new_fd(s, r.id, "tcp", "PLISTEN", {})
                 [] r.cmd = "B" -> new_fd(s, r.id, "tcp", "BIND", {"read"})
                 [] r.cmd = "U" -> new_fd(s, r.id, "udp", "CONNECTED", {"read"})
                 [] r.cmd = "O" /\ outcome = "connected" -> new_fd(s, r.id, "tcp", "CONNECTED", {"read"})
                 [] OTHER -> new_fd(s, r.id, "tcp", "CONNECTING", {"read", "write"})
    IN
    /\ ctrl_cmd({"O", "L", "B", "U"})
    /\ outcome = "connected" => r.cmd = "O"
    /\ outcome = "fail" => r.cmd # "L"
    /\ slot' = [slot EXCEPT ![i] = IF outcome = "fail" THEN [@ EXCEPT !.type = "INVALID"] ELSE New]
    /\ abort' = (abort \/ ~new_fd_asserts(s))
    /\ opened' = CASE outcome = "connected" -> opened \cup {<<r.id, "tcp">>}
                   [] outcome = "ok" /\ r.cmd = "B" -> opened \cup {<<r.id, "bind">>}
                   [] OTHER -> opened
    /\ UNCHANGED <<alloc_id, ev, checkctrl, st, th, calls, wire, owed, ended>>

start_socket(fails) ==
    LET r == Head(pipe)  i == HASH_ID(r.id)  s == slot[i]
        pending == ~Stale(s, r.id) /\ s.type \in {"PACCEPT", "PLISTEN"}
    IN
    /\ ctrl_cmd({"S"})
    /\ fails => pending
    /\ IF fails
       THEN force_close(i, "error") /\ UNCHANGED opened
       ELSE /\ slot' = IF pending
                       THEN [slot EXCEPT ![i].type = IF @ = "PACCEPT" THEN "CONNECTED" ELSE "LISTEN",
                                         ![i].poll = {"read"}]
                       ELSE slot
            /\ opened' = IF pending /\ s.type = "PACCEPT" THEN opened \cup {<<r.id, "tcp">>} ELSE opened
            /\ UNCHANGED <<abort, ended>>
    /\ ev' = ev \ (IF fails THEN Events(i) ELSE {})
    /\ UNCHANGED <<alloc_id, checkctrl, st, th, calls, wire, owed>>

set_udp_address(matches) ==
    LET r == Head(pipe)  i == HASH_ID(r.id)  s == slot[i]
        applies == ~Stale(s, r.id) /\ matches /\ ~Stream(s)
    IN
    /\ ctrl_cmd({"C"})
    /\ slot' = IF applies THEN [slot EXCEPT ![i].address = TRUE, ![i].udpconnecting = @ - 1] ELSE slot
    /\ UNCHANGED <<alloc_id, ev, checkctrl, st, th, abort, calls, history>>

exit_cmd ==
    /\ ctrl_cmd({"X"})
    /\ st' = [pc |-> "exit"]
    /\ UNCHANGED <<slot, alloc_id, ev, checkctrl, th, abort, calls, history>>

socket_server_release ==
    /\ st.pc = "exit"
    /\ slot' = [i \in Slot |-> IF slot[i].type = "RESERVE" THEN slot[i] ELSE freed(slot[i])]
    /\ st' = [pc |-> "released"]
    /\ UNCHANGED <<alloc_id, pipe, ev, checkctrl, th, abort, calls, history>>

(***************************************************************************)
(* send_socket, then dec_sending_ref for D and P.  out says what sendto()  *)
(* did when a datagram was tried at once.                                  *)
(***************************************************************************)
appended(s, m, low) ==
    [s EXCEPT !.high = IF low THEN @ ELSE @ \o bytes(m),
              !.low = IF low THEN @ \o bytes(m) ELSE @,
              !.wb_size = @ + MsgSize]

warned(s) ==
    IF s.wb_size >= WARNING_SIZE /\ s.wb_size >= s.warn_size
    THEN [s EXCEPT !.warn_size = IF @ = 0 THEN 2 * WARNING_SIZE ELSE 2 * @]
    ELSE s

dec_sending_ref(s, id) == IF s.id = id /\ Stream(s) THEN [s EXCEPT !.count = @ - 1] ELSE s

Idle(s) == send_buffer_empty(s) /\ s.type = "CONNECTED"
Unsendable == {"HALFCLOSE", "PACCEPT", "PLISTEN", "LISTEN"}

\* The socket after send_socket; out = TRUE when the datagram was sent.
queued(s, m, out) ==
    LET kept == appended(s, m, m.cmd = "P" /\ ~(Stream(s) /\ Idle(s))) IN
    IF \/ Stale(s, m.id) \/ s.type \in Unsendable
       \/ ~Stream(s) /\ Idle(s) /\ (out \/ ~m.known)
    THEN s
    ELSE warned(IF Idle(s) THEN [kept EXCEPT !.poll = @ \cup {"write"}] ELSE kept)

send_socket(out) ==
    LET i == HASH_ID(Head(pipe).id)  s == slot[i]
        m == udp_socket_address(s, Head(pipe).msg)
        counted == m.cmd # "A"
    IN
    /\ ctrl_cmd({"D", "P", "A"})
    /\ out => ~Stale(s, m.id) /\ ~Stream(s) /\ Idle(s) /\ m.known
    /\ slot' = [slot EXCEPT ![i] = IF counted THEN dec_sending_ref(queued(s, m, out), m.id)
                                              ELSE queued(s, m, out)]
    /\ abort' = (abort \/ (counted /\ s.id = m.id /\ Stream(s) /\ s.count = 0))
    /\ wire' = IF out THEN [wire EXCEPT ![m.id] = @ \o bytes(m)] ELSE wire
    /\ UNCHANGED <<alloc_id, ev, checkctrl, st, th, calls, opened, owed, ended>>

(***************************************************************************)
(* send_buffer: dw_buffer goes before the high list, then the high list is *)
(* written as far as the kernel takes it, then the low list.  A list gives *)
(* written bytes and consumed bytes (a datagram may be dropped, a stream   *)
(* never drops).  A datagram from dw_buffer has lost its address: whatever *)
(* is in that memory decides where it goes, or that it is dropped; wire    *)
(* does not tell addresses.                                                *)
(***************************************************************************)
send_list(s, list) ==
    IF Stream(s) THEN {<<n, n>> : n \in 0..Len(list)}
    ELSE {<<n, k>> \in (0..Len(list)) \X (0..Len(list)) :
            n % MsgSize = 0 /\ k \in {n, n + MsgSize} /\ \A b \in 1..n : list[b][1].known}

From(list, n) == SubSeq(list, n + 1, Len(list))

\* high and low once the head of low that was sent in part is raised.
raise_uncomplete(s) ==
    LET left == MsgSize - s.low[1][2] + 1
    IN [s EXCEPT !.high = SubSeq(s.low, 1, left), !.low = From(@, left)]

\* All outcomes of send_buffer: the socket, the bytes written, whether it was
\* drained, and whether the asserts on the way hold.
send_buffer(s) ==
    LET t == [s EXCEPT !.high = s.dw \o @, !.wb_size = @ + Len(s.dw), !.dw = <<>>]
        Low(h) == IF h[2] = Len(t.high) THEN send_list(t, t.low) ELSE {<<0, 0>>}
        Outcome(h, l) ==
          LET u == [t EXCEPT !.high = From(@, h[2]), !.low = From(@, l[2]), !.wb_size = @ - h[2] - l[2]]
              drained == send_buffer_empty(u)
          IN [socket |-> CASE drained -> [u EXCEPT !.poll = @ \ {"write"}, !.warn_size = 0]
                           [] u.high = <<>> /\ list_uncomplete(u.low) -> raise_uncomplete(u)
                           [] OTHER -> u,
              written |-> SubSeq(t.high, 1, h[1]) \o SubSeq(t.low, 1, l[1]),
              progress |-> h[2] + l[2] > 0 \/ drained,
              closed |-> drained /\ s.type = "HALFCLOSE",
              assert |-> ~list_uncomplete(s.low) /\ (drained => u.wb_size = 0)]
    IN UNION {{Outcome(h, l) : l \in Low(h)} : h \in send_list(t, t.high)}

\* The effect of an outcome o of send_buffer on socket i.
Sent(i, o) ==
    /\ slot' = [slot EXCEPT ![i] = IF o.closed THEN freed(o.socket) ELSE o.socket]
    /\ wire' = [wire EXCEPT ![slot[i].id] = @ \o o.written]
    /\ ended' = IF o.closed THEN [ended EXCEPT ![slot[i].id] = "flushed"] ELSE ended
    /\ abort' = (abort \/ ~o.assert)

\* close_socket up to its second test: try to send what is left.
close_socket ==
    LET r == Head(pipe)  i == HASH_ID(r.id)
        Next2 == st' = [pc |-> "closing", id |-> r.id, shutdown |-> r.shutdown]
        tries == ~nomore_sending_data(slot[i]) /\ slot[i].lock = "free"
    IN
    /\ ctrl_cmd({"K"})
    /\ \/ /\ Stale(slot[i], r.id)
          /\ UNCHANGED <<slot, ev, st, abort, wire, ended>>
       \/ /\ ~Stale(slot[i], r.id) /\ ~tries
          /\ Next2 /\ UNCHANGED <<slot, ev, abort, wire, ended>>
       \/ /\ ~Stale(slot[i], r.id) /\ tries
          /\ \E o \in send_buffer(slot[i]) :
               /\ Sent(i, o)
               /\ IF o.closed THEN ev' = ev \ Events(i) /\ UNCHANGED st ELSE Next2 /\ UNCHANGED ev
       \/ /\ ~Stale(slot[i], r.id) /\ tries /\ Buffered(slot[i]) /\ Stream(slot[i])
          /\ force_close(i, "error") /\ ev' = ev \ Events(i) /\ UNCHANGED <<st, wire>>
    /\ UNCHANGED <<alloc_id, checkctrl, th, calls, opened, owed>>

\* The second test of close_socket.
CloseOrHalf ==
    LET i == HASH_ID(st.id) IN
    /\ st.pc = "closing"
    /\ IF st.shutdown \/ nomore_sending_data(slot[i])
       THEN st' = [st EXCEPT !.pc = "forcing"] /\ UNCHANGED slot
       ELSE st' = [pc |-> "poll"] /\ slot' = [slot EXCEPT ![i].type = "HALFCLOSE"]
    /\ UNCHANGED <<alloc_id, pipe, ev, checkctrl, th, abort, calls, history>>

\* ... and its force_close, followed by clear_closed_event.
ForceClose ==
    /\ st.pc = "forcing"
    /\ force_close(HASH_ID(st.id), IF st.shutdown THEN "shutdown" ELSE "flushed")
    /\ st' = [pc |-> "poll"]
    /\ ev' = ev \ Events(HASH_ID(st.id))
    /\ UNCHANGED <<alloc_id, pipe, checkctrl, th, calls, opened, wire, owed>>

-----------------------------------------------------------------------------
(***************************************************************************)
(* The socket thread: socket_server_poll once the pipe is empty.           *)
(***************************************************************************)
Flags(s) ==
    {{"read"}, {"error"}} \cup (IF "write" \in s.poll THEN {{"write"}, {"read", "write"}} ELSE {})

\* epoll_wait returns events of some of the registered sockets; an empty ev
\* stands for an event of the pipe alone.
sp_wait(ready) ==
    /\ st.pc = "poll" /\ ~checkctrl /\ ev = {}
    /\ \A i \in ready : slot[i].poll # {}
    /\ ready # {} \/ pipe # <<>>
    /\ ev' \in {{[slot |-> i, flags |-> f[i]] : i \in ready} : f \in [ready -> UNION {Flags(slot[i]) : i \in ready}]}
    /\ \A e \in ev' : e.flags \in Flags(slot[e.slot])
    /\ checkctrl' = TRUE
    /\ UNCHANGED <<slot, alloc_id, pipe, st, th, abort, calls, history>>

Event(e, types) == st.pc = "poll" /\ ~checkctrl /\ e \in ev /\ slot[e.slot].type \in types
Handled(e) == ev' = ev \ {e}

report_connect(e, ok) ==
    LET s == slot[e.slot] IN
    /\ Event(e, {"CONNECTING"}) /\ Handled(e)
    /\ IF ok
       THEN /\ slot' = [slot EXCEPT ![e.slot].type = "CONNECTED",
                                    ![e.slot].poll = IF nomore_sending_data(s) THEN {"read"} ELSE @]
            /\ opened' = opened \cup {<<s.id, "tcp">>}
            /\ UNCHANGED <<abort, ended>>
       ELSE force_close(e.slot, "error") /\ UNCHANGED opened
    /\ UNCHANGED <<alloc_id, pipe, checkctrl, st, th, calls, wire, owed>>

\* report_accept; accept() or reserve_id may fail.
report_accept(e, ok) ==
    LET i == HASH_ID(reserve_id) IN
    /\ Event(e, {"LISTEN"}) /\ Handled(e)
    /\ IF ok
       THEN /\ FreeIds # {} /\ reserve_id <= MaxId
            /\ alloc_id' = reserve_id
            /\ slot' = [slot EXCEPT ![i] = new_fd(reserved(@, reserve_id), reserve_id, "tcp", "PACCEPT", {})]
       ELSE UNCHANGED <<alloc_id, slot>>
    /\ UNCHANGED <<pipe, checkctrl, st, th, abort, calls, history>>

Other == {"CONNECTED", "HALFCLOSE", "BIND", "PACCEPT", "PLISTEN", "RESERVE"}

\* forward_message_tcp and forward_message_udp.  Reading data changes no state
\* of the server; the event stays for its write flag.  A datagram that is read
\* leaves the event as it is.
forward_message(e, ends) ==
    /\ Event(e, Other) /\ "read" \in e.flags
    /\ IF ends
       THEN force_close(e.slot, "peer") /\ Handled(e)
       ELSE /\ ev' = (ev \ {e}) \cup {[e EXCEPT !.flags = f] : f \in {e.flags \ {"read"}} \ {{}}}
            /\ UNCHANGED <<slot, abort, ended>>
    /\ UNCHANGED <<alloc_id, pipe, checkctrl, st, th, calls, opened, wire, owed>>

write_event(e) ==
    LET s == slot[e.slot] IN
    /\ Event(e, Other) /\ e.flags = {"write"} /\ Handled(e)
    /\ \/ /\ s.lock # "free"
          /\ UNCHANGED <<slot, wire, abort, ended>>
       \/ /\ s.lock = "free"
          /\ \E o \in send_buffer(s) : o.progress /\ Sent(e.slot, o)
       \/ /\ Buffered(s) /\ Stream(s)
          /\ force_close(e.slot, "error") /\ UNCHANGED wire
    /\ UNCHANGED <<alloc_id, pipe, checkctrl, st, th, calls, opened, owed>>

error_event(e) ==
    /\ Event(e, Other) /\ e.flags = {"error"} /\ Handled(e)
    /\ force_close(e.slot, "error")
    /\ UNCHANGED <<alloc_id, pipe, checkctrl, st, th, calls, opened, wire, owed>>

-----------------------------------------------------------------------------
ServiceCall(t) ==
    \/ \E cmd \in {"O", "L", "B", "U"} : OpenRequest(t, cmd)
    \/ \E id \in Id : socket_server_start(t, id)
    \/ \E id \in Id, shutdown \in BOOLEAN : socket_server_close(t, id, shutdown)
    \/ \E id \in Id, cmd \in {"D", "P", "A"}, known \in BOOLEAN : SendCall(t, id, cmd, known)
    \/ \E id \in Id, resolves \in BOOLEAN : UdpConnect(t, id, resolves)

Sending(t) ==
    \/ TryDirectWrite(t)
    \/ \E n \in 0..MsgSize : DirectWrite(t, n)
    \/ IncSendingRef(t)
    \/ PostMessage(t)

SocketThread ==
    \/ \E outcome \in {"ok", "connected", "fail"} : open_socket(outcome)
    \/ \E fails \in BOOLEAN : start_socket(fails)
    \/ \E matches \in BOOLEAN : set_udp_address(matches)
    \/ \E out \in BOOLEAN : send_socket(out)
    \/ close_socket \/ CloseOrHalf \/ ForceClose
    \/ exit_cmd \/ socket_server_release
    \/ has_no_cmd
    \/ \E e \in ev :
         \/ \E ok \in BOOLEAN : report_connect(e, ok) \/ report_accept(e, ok)
         \/ \E ends \in BOOLEAN : forward_message(e, ends)
         \/ write_event(e)
         \/ error_event(e)

Next ==
    \/ \E t \in Service : ServiceCall(t) \/ Sending(t)
    \/ socket_server_exit
    \/ SocketThread
    \/ \E ready \in SUBSET Slot : sp_wait(ready)

\* epoll_wait reports that slot i can be written to.
Writable(i) == /\ \E ready \in SUBSET Slot : sp_wait(ready)
               /\ [slot |-> i, flags |-> {"write"}] \in ev'

\* The socket thread goes on, a worker finishes a send it began, and a
\* descriptor that is waited for becomes writable again and again.
Fairness ==
    /\ WF_vars(SocketThread)
    /\ WF_vars(\E ready \in SUBSET Slot : sp_wait(ready))
    /\ \A i \in Slot : SF_vars(Writable(i))
    /\ \A t \in Service : WF_vars(Sending(t))

Spec == Init /\ [][Next]_vars /\ Fairness

-----------------------------------------------------------------------------
Live(s) == s.type \notin {"INVALID", "RESERVE"}

\* The requests counted in s->sending for socket id: in the pipe, or about to
\* be written to it.
Requests(id) ==
    Cardinality({k \in DOMAIN pipe : pipe[k].cmd \in {"D", "P"} /\ pipe[k].id = id})
    + Cardinality({t \in Service : th[t].pc = "request" /\ th[t].msg.id = id})

\* No assert() of the server fails, wb_size is what the lists hold, and
\* s->sending counts exactly the requests of this socket under way, whatever
\* requests of earlier sockets of the slot still come in.
Accounted ==
    /\ ~abort
    /\ \A i \in Slot : Live(slot[i]) /\ Stream(slot[i]) =>
         /\ slot[i].wb_size = Len(slot[i].high) + Len(slot[i].low)
         /\ slot[i].count = Requests(slot[i].id)

\* What was written to a descriptor is a sequence of whole messages for it (the
\* last one perhaps unfinished), none twice, and two high priority messages of
\* one service are in the order in which it sent them, whether they went by
\* direct write, dw_buffer or the pipe.
StreamIntact ==
    \A id \in Id : LET w == wire[id] IN
      \A a \in DOMAIN w :
        /\ w[a][1].id = id
        /\ IF w[a][2] = 1 THEN a = 1 \/ w[a - 1][2] = MsgSize ELSE w[a - 1] = <<w[a][1], w[a][2] - 1>>
        /\ \A b \in a + 1 .. Len(w) :
             /\ w[a] # w[b]
             /\ /\ <<id, "udp">> \notin opened /\ w[a][1].by = w[b][1].by
                /\ w[a][1].cmd = "D" /\ w[b][1].cmd = "D"
                => w[a][1].n >= w[b][1].n

\* When the first close of a stream ends it without an error, all that the
\* closing service had sent on it was written before the descriptor was closed.
CloseFlushes ==
    \A id \in Id : ended[id] = "flushed" =>
      \A m \in owed[id].msgs : <<m, MsgSize>> \in Range(wire[id])

\* Some data of id waits in dw_buffer or in a list.
Unsent(id) == slot[HASH_ID(id)].id = id /\ Buffered(slot[HASH_ID(id)])

\* No data waits in a socket for ever for a write event: it is sent, or lost
\* with the socket (the services make finitely many calls).  But for a bound
\* descriptor: send_socket asks for the write event of a CONNECTED socket only,
\* so what is sent to a bound one waits until it is closed.
EventuallySent == <>[](\A id \in Id : Unsent(id) => <<id, "bind">> \in opened)
=============================================================================
