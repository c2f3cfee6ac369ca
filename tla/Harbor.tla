------------------------------- MODULE Harbor -------------------------------
(***************************************************************************)
(* Several skynet processes as one system: the master (service/cmaster.lua)*)
(* and, in each process, the slave (service/cslave.lua) and its harbor     *)
(* service (service-src/service_harbor.c).  A process joins by saying 'H'  *)
(* to the master; the master tells the processes that are up to connect to *)
(* it ('C') and tells it how many to wait for ('W').  The slave opens or   *)
(* accepts a connection, gives it up and hands it to its harbor service    *)
(* ('S', 'A'), which exchanges ids and then carries the messages that      *)
(* services send to other processes.  Global names go through the master.  *)
(*                                                                         *)
(* Only a process that was up is told to connect to a newer one, so a pair *)
(* of processes has at most one connection in its life: conn[c][d] is the  *)
(* one c opened to d.  The address of the one service of a process that    *)
(* matters is the process itself; NoHandle is the value 0 of a name.       *)
(* A process that crashed and starts again with its id is refused          *)
(* (slave_node keeps the id for ever), which changes nothing here.         *)
(***************************************************************************)
EXTENDS Integers, Sequences, FiniteSets, SequencesExt

CONSTANTS N,           \* the processes have harbor ids 1..N
          GlobalName,
          Workloads    \* bounds on what services do; one is chosen at the start

ASSUME NAssumption == N \in Nat \ {0}

Node == 1..N
NoHandle == 0

VARIABLES phase,        \* off, hello, wait, shaken, ready, dead
          slave_node,   \* master: nil, up (fd # 0) or down (fd = 0)
          global_name,  \* master
          up, down,     \* the connection of each slave with the master
          cs,           \* cs[x]: the slave of process x
          hb,           \* hb[x]: its harbor service
          hbox, tbox,   \* commands from slave to harbor, texts from harbor to slave
          conn,         \* conn[c][d]: none, open or broken
          reader,       \* reader[d][c]: who reads what c sends to d
          wire,         \* wire[x][y]: sent by x to y and not read yet
          sent, got,    \* history: messages x addressed to y; messages y got from x
          calls         \* calls of each kind left

mvars == <<slave_node, global_name>>
nvars == <<conn, reader, wire>>
vars == <<phase, mvars, up, down, cs, hb, hbox, tbox, nvars, sent, got, calls>>

Send(box, x, m) == [box EXCEPT ![x] = Append(@, m)]
Running(x) == phase[x] \in {"wait", "shaken", "ready"}
Listening(x) == phase[x] \in {"hello", "wait"}

NewSlave == [slaves |-> [y \in Node |-> "nil"], n |-> 0, connect_queue |-> {},
             globalname |-> [g \in GlobalName |-> NoHandle],
             queryname |-> {},           \* names with waiting responses
             monitor |-> {},             \* waiting responses: <<id, LINK or CONNECT>>
             opening |-> 0,              \* monitor_master is inside socket.open
             todo |-> {}, cur |-> 0, flush |-> FALSE]  \* the coroutine of ready()

NewHarbor == [fd |-> [y \in Node |-> FALSE], status |-> [y \in Node |-> "WAIT"],
              queue |-> [y \in Node |-> <<>>],
              value |-> [g \in GlobalName |-> NoHandle],
              nameq |-> [g \in GlobalName |-> <<>>]]

Init ==
    /\ phase = [x \in Node |-> "off"]
    /\ slave_node = [x \in Node |-> "nil"]
    /\ global_name = [g \in GlobalName |-> NoHandle]
    /\ up = [x \in Node |-> <<>>] /\ down = [x \in Node |-> <<>>]
    /\ cs = [x \in Node |-> NewSlave] /\ hb = [x \in Node |-> NewHarbor]
    /\ hbox = [x \in Node |-> <<>>] /\ tbox = [x \in Node |-> <<>>]
    /\ conn = [x \in Node |-> [y \in Node |-> "none"]]
    /\ reader = [x \in Node |-> [y \in Node |-> "backlog"]]
    /\ wire = [x \in Node |-> [y \in Node |-> <<>>]]
    /\ sent = [x \in Node |-> [y \in Node |-> <<>>]]
    /\ got = [x \in Node |-> [y \in Node |-> <<>>]]
    /\ calls \in Workloads

(***************************************************************************)
(* The master.                                                             *)
(***************************************************************************)
Up == {k \in Node : slave_node[k] = "up"}

\* socket.write to every slave: what goes to a dead one is lost with it.
Broadcast(m, to) == [k \in Node |-> IF k \in to THEN Append(down[k], m) ELSE down[k]]

handshake(x) ==
    /\ up[x] # <<>> /\ Head(up[x]).t = "H" /\ slave_node[x] = "nil"
    /\ up' = [up EXCEPT ![x] = Tail(@)]
    /\ down' = Send(Broadcast([t |-> "C", id |-> x], Up), x,
                    [t |-> "W", n |-> Cardinality(Up)])
    /\ slave_node' = [slave_node EXCEPT ![x] = "up"]
    /\ UNCHANGED <<phase, global_name, cs, hb, hbox, tbox, nvars, sent, got, calls>>

dispatch_slave(x) ==
    /\ up[x] # <<>> /\ Head(up[x]).t \in {"R", "Q"}
    /\ up' = [up EXCEPT ![x] = Tail(@)]
    /\ LET m == Head(up[x]) g == m.name IN
       \/ /\ m.t = "R"
          /\ global_name' = [global_name EXCEPT ![g] = IF @ = NoHandle THEN m.addr ELSE @]
          /\ down' = Broadcast([t |-> "N", name |-> g, addr |-> m.addr], Up)
       \/ /\ m.t = "Q"
          /\ down' = IF global_name[g] = NoHandle THEN down
                     ELSE Send(down, x, [t |-> "N", name |-> g, addr |-> global_name[g]])
          /\ UNCHANGED global_name
    /\ UNCHANGED <<phase, slave_node, cs, hb, hbox, tbox, nvars, sent, got, calls>>

\* The end of monitor_slave: the connection is closed and all of it was read.
slave_down(x) ==
    /\ phase[x] = "dead" /\ slave_node[x] = "up" /\ up[x] = <<>>
    /\ slave_node' = [slave_node EXCEPT ![x] = "down"]
    /\ down' = Broadcast([t |-> "D", id |-> x], Up \ {x})
    /\ UNCHANGED <<phase, global_name, up, cs, hb, hbox, tbox, nvars, sent, got, calls>>

(***************************************************************************)
(* The slave: start-up.                                                    *)
(***************************************************************************)
\* Listen, connect to the master and say hello.  The ids are interchangeable,
\* so processes start in the order of their ids.
start(x) ==
    /\ phase[x] = "off" /\ calls.start > 0
    /\ \A y \in 1..(x - 1) : phase[y] # "off"
    /\ phase' = [phase EXCEPT ![x] = "hello"]
    /\ up' = Send(up, x, [t |-> "H"])
    /\ calls' = [calls EXCEPT !.start = @ - 1]
    /\ UNCHANGED <<mvars, down, cs, hb, hbox, tbox, nvars, sent, got>>

waiting_for(x) ==
    /\ phase[x] = "hello" /\ down[x] # <<>> /\ Head(down[x]).t = "W"
    /\ LET n == Head(down[x]).n IN
       /\ cs' = [cs EXCEPT ![x].n = n]
       /\ phase' = [phase EXCEPT ![x] = IF n > 0 THEN "wait" ELSE "shaken"]
    /\ down' = [down EXCEPT ![x] = Tail(@)]
    /\ UNCHANGED <<mvars, up, hb, hbox, tbox, nvars, sent, got, calls>>

monitor_clear(monitor, y) == {w \in monitor : w[1] # y}

Known(c) == {y \in Node : c.slaves[y] # "nil"}

\* The accept callback: accept_slave, then the slaves known are counted
\* (a slave reported down counts) and the start-up goes on when they suffice.
accept_slave(x, y) ==
    /\ Running(x) /\ conn[y][x] # "none" /\ reader[x][y] \in {"backlog", "accepting"}
    /\ reader[x][y] = "backlog" => phase[x] = "wait"
    /\ \/ /\ wire[y][x] # <<>>                       \* the id of y is read
          /\ IF cs[x].slaves[y] # "nil"
             THEN /\ conn' = [conn EXCEPT ![y][x] = "broken"]
                  /\ reader' = [reader EXCEPT ![x][y] = "closed"]
                  /\ UNCHANGED <<cs, hbox, wire>>
             ELSE /\ cs' = [cs EXCEPT ![x].slaves[y] = "fd", ![x].monitor = monitor_clear(@, y)]
                  /\ hbox' = Send(hbox, x, [t |-> "A", id |-> y])
                  /\ wire' = [wire EXCEPT ![y][x] = Tail(@)]
                  /\ reader' = [reader EXCEPT ![x][y] = "abandoned"]
                  /\ UNCHANGED conn
       \/ /\ wire[y][x] = <<>> /\ conn[y][x] = "broken"   \* closed before its id
          /\ reader' = [reader EXCEPT ![x][y] = "closed"]
          /\ UNCHANGED <<conn, cs, hbox, wire>>
    /\ phase' = [phase EXCEPT ![x] = IF @ = "wait" /\ Cardinality(Known(cs'[x])) >= cs[x].n
                                     THEN "shaken" ELSE @]
    /\ UNCHANGED <<mvars, up, down, hb, tbox, sent, got, calls>>

\* The start of ready(): it takes the slaves queued for connection.
ready_LosesQueue(c) == [c EXCEPT !.flush = TRUE]
ready(c) == [c EXCEPT !.todo = c.connect_queue, !.flush = TRUE]

\* slave_fd is closed and ready() is forked; services of this process start.
\* What is still in its backlog breaks, but a coroutine that has begun
\* accept_slave goes on reading its connection (accepting).
begin_ready(x) ==
    /\ phase[x] = "shaken"
    /\ LET backlog == {c \in Node : conn[c][x] = "open" /\ reader[x][c] = "backlog"} IN
       \E accepting \in SUBSET backlog :
         /\ conn' = [c \in Node |-> [conn[c] EXCEPT ![x] =
                       IF c \in backlog \ accepting THEN "broken" ELSE @]]
         /\ reader' = [reader EXCEPT ![x] = [c \in Node |->
                       IF c \in accepting THEN "accepting" ELSE @[c]]]
    /\ phase' = [phase EXCEPT ![x] = "ready"]
    /\ cs' = [cs EXCEPT ![x] = ready(@)]
    /\ UNCHANGED <<mvars, up, down, hb, hbox, tbox, wire, sent, got, calls>>

(***************************************************************************)
(* The slave: connections.  connect_slave runs in the coroutine of ready() *)
(* and in that of monitor_master; it yields in socket.open.                *)
(***************************************************************************)
Opened(x, y) ==
    \/ /\ Listening(y)
       /\ conn' = [conn EXCEPT ![x][y] = "open"]
       /\ hbox' = Send(hbox, x, [t |-> "S", id |-> y])
    \/ /\ ~Listening(y)                              \* "Can't connect to"
       /\ UNCHANGED <<conn, hbox>>

\* The fields of cs[x] after connect_slave(y) returned.
Connected(c, x, y) ==
    IF conn'[x][y] = "open" THEN [c EXCEPT !.slaves[y] = "fd", !.monitor = monitor_clear(@, y)] ELSE c

ready_connect(x) ==
    /\ phase[x] = "ready" /\ cs[x].cur = 0
    /\ \E y \in cs[x].todo :
         cs' = [cs EXCEPT ![x].todo = @ \ {y},
                          ![x].cur = IF cs[x].slaves[y] = "nil" THEN y ELSE 0]
    /\ UNCHANGED <<phase, mvars, up, down, hb, hbox, tbox, nvars, sent, got, calls>>

ready_opened(x) ==
    LET y == cs[x].cur IN
    /\ phase[x] = "ready" /\ y # 0
    /\ Opened(x, y)
    /\ cs' = [cs EXCEPT ![x] = Connected([@ EXCEPT !.cur = 0], x, y)]
    /\ UNCHANGED <<phase, mvars, up, down, hb, tbox, reader, wire, sent, got, calls>>

\* The last loop of ready(): every name known goes to the harbor service.
ready_names(x) ==
    /\ phase[x] = "ready" /\ cs[x].cur = 0 /\ cs[x].todo = {} /\ cs[x].flush
    /\ cs' = [cs EXCEPT ![x].flush = FALSE]
    /\ \E order \in SetToSeqs({g \in GlobalName : cs[x].globalname[g] # NoHandle}) :
         hbox' = [hbox EXCEPT ![x] = @ \o [i \in DOMAIN order |->
                    [t |-> "N", name |-> order[i], addr |-> cs[x].globalname[order[i]]]]]
    /\ UNCHANGED <<phase, mvars, up, down, hb, tbox, nvars, sent, got, calls>>

\* 'D' from the master and from the harbor service.
harbor_down_ClearedLast(c, y) == [c EXCEPT !.slaves[y] = "false"]
harbor_down(c, y) ==
    [c EXCEPT !.slaves[y] = "false",
              !.monitor = IF c.slaves[y] = "fd" THEN monitor_clear(@, y) ELSE @]

monitor_opened(x) ==
    LET y == cs[x].opening IN
    /\ phase[x] = "ready" /\ y # 0
    /\ Opened(x, y)
    /\ cs' = [cs EXCEPT ![x] = Connected([@ EXCEPT !.opening = 0], x, y)]
    /\ UNCHANGED <<phase, mvars, up, down, hb, tbox, reader, wire, sent, got, calls>>

\* socket.close in 'D' is given a descriptor the slave has abandoned: nothing.
monitor_master(x) ==
    /\ Running(x) /\ down[x] # <<>> /\ cs[x].opening = 0
    /\ down' = [down EXCEPT ![x] = Tail(@)]
    /\ LET m == Head(down[x]) IN
       \/ /\ m.t = "C" /\ phase[x] # "ready"
          /\ cs' = [cs EXCEPT ![x].connect_queue = @ \cup {m.id}]
          /\ UNCHANGED hbox
       \/ /\ m.t = "C" /\ phase[x] = "ready"
          /\ cs' = [cs EXCEPT ![x].opening = IF cs[x].slaves[m.id] = "nil" THEN m.id ELSE 0]
          /\ UNCHANGED hbox
       \/ /\ m.t = "N"
          /\ cs' = [cs EXCEPT ![x].globalname[m.name] = m.addr, ![x].queryname = @ \ {m.name}]
          /\ hbox' = IF phase[x] = "ready" THEN Send(hbox, x, m) ELSE hbox
       \/ /\ m.t = "D"
          /\ cs' = [cs EXCEPT ![x] = harbor_down(@, m.id)]
          /\ UNCHANGED hbox
    /\ UNCHANGED <<phase, mvars, up, hb, tbox, nvars, sent, got, calls>>

monitor_harbor(x) ==
    /\ Running(x) /\ tbox[x] # <<>>
    /\ tbox' = [tbox EXCEPT ![x] = Tail(@)]
    /\ LET m == Head(tbox[x]) IN
       \/ /\ m.t = "Q"
          /\ IF cs[x].globalname[m.name] # NoHandle
             THEN /\ hbox' = Send(hbox, x, [t |-> "N", name |-> m.name,
                                            addr |-> cs[x].globalname[m.name]])
                  /\ UNCHANGED up
             ELSE up' = Send(up, x, m) /\ UNCHANGED hbox
          /\ UNCHANGED cs
       \/ /\ m.t = "D"
          /\ cs' = [cs EXCEPT ![x] = harbor_down(@, m.id)]
          /\ UNCHANGED <<up, hbox>>
    /\ UNCHANGED <<phase, mvars, down, hb, nvars, sent, got, calls>>

(***************************************************************************)
(* The harbor service.  A message is numbered by its sender; named tells   *)
(* that it waited in the queue of a name, dest the handle in its header.   *)
(***************************************************************************)
ID == [no |-> 0, named |-> FALSE, dest |-> NoHandle]

send_remote(x, y, ms) == wire' = [wire EXCEPT ![x][y] = @ \o ms]

\* dispatch_name_queue: h is the harbor service before, y the address.
dispatch_name_queue(x, h, g, y) ==
    LET q == h.nameq[g] IN
    IF ~h.fd[y]
    THEN IF x = y                                         \* the harbor_id is local
         THEN /\ got' = [got EXCEPT ![x][x] = @ \o [i \in DOMAIN q |-> [q[i] EXCEPT !.dest = y]]]
              /\ hb' = [hb EXCEPT ![x] = [h EXCEPT !.nameq[g] = <<>>, !.value[g] = y]]
              /\ UNCHANGED wire
         ELSE /\ hb' = [hb EXCEPT ![x] = [h EXCEPT !.nameq[g] = <<>>, !.value[g] = y,
                                                   !.queue[y] = @ \o q]]
              /\ UNCHANGED <<wire, got>>
    ELSE /\ send_remote(x, y, [i \in DOMAIN q |-> [q[i] EXCEPT !.dest = y]])
         /\ hb' = [hb EXCEPT ![x] = [h EXCEPT !.nameq[g] = <<>>, !.value[g] = y]]
         /\ UNCHANGED got

\* Commands N, S and A (harbor_command).
harbor_command(x) ==
    /\ phase[x] # "dead" /\ hbox[x] # <<>>
    /\ hbox' = [hbox EXCEPT ![x] = Tail(@)]
    /\ LET m == Head(hbox[x]) IN
       \/ /\ m.t = "N"
          /\ dispatch_name_queue(x, hb[x], m.name, m.addr)
          /\ UNCHANGED reader
       \/ /\ m.t = "S"
          /\ send_remote(x, m.id, <<ID>>)
          /\ hb' = [hb EXCEPT ![x].fd[m.id] = TRUE, ![x].status[m.id] = "HANDSHAKE"]
          /\ reader' = [reader EXCEPT ![x][m.id] = "harbor"]
          /\ UNCHANGED got
       \/ /\ m.t = "A"
          /\ send_remote(x, m.id, <<ID>> \o hb[x].queue[m.id])
          /\ hb' = [hb EXCEPT ![x].fd[m.id] = TRUE, ![x].status[m.id] = "HEADER",
                              ![x].queue[m.id] = <<>>]
          /\ reader' = [reader EXCEPT ![x][m.id] = "harbor"]
          /\ UNCHANGED got
    /\ UNCHANGED <<phase, mvars, up, down, cs, tbox, conn, sent, calls>>

Carries(x, y) == conn[x][y] = "open" \/ conn[y][x] = "open"
Broken(x, y) == conn[x][y] = "broken" \/ conn[y][x] = "broken"

\* push_socket_data and forward_local_messsage; before the harbor service has
\* started the socket, data go to the slave, which has abandoned it: dropped.
\* Peers are harbor services of this program, so the id of the handshake is the
\* one expected; messages are shorter than 16 MB (close_harbor otherwise).
push_socket_data(x, y) ==
    /\ phase[x] # "dead" /\ wire[y][x] # <<>> /\ (Carries(x, y) \/ Broken(x, y))
    /\ LET m == Head(wire[y][x]) IN
       \/ /\ reader[x][y] = "abandoned"
          /\ wire' = [wire EXCEPT ![y][x] = Tail(@)]
          /\ UNCHANGED <<hb, got>>
       \/ /\ reader[x][y] = "harbor" /\ hb[x].status[y] = "HANDSHAKE" /\ m = ID
          /\ wire' = [wire EXCEPT ![y][x] = Tail(@), ![x][y] = @ \o hb[x].queue[y]]
          /\ hb' = [hb EXCEPT ![x].status[y] = "HEADER", ![x].queue[y] = <<>>]
          /\ UNCHANGED got
       \/ /\ reader[x][y] = "harbor" /\ hb[x].status[y] = "HEADER"
          /\ wire' = [wire EXCEPT ![y][x] = Tail(@)]
          /\ got' = [got EXCEPT ![x][y] = Append(@, m)]
          /\ UNCHANGED hb
    /\ UNCHANGED <<phase, mvars, up, down, cs, hbox, tbox, conn, reader, sent, calls>>

\* SKYNET_SOCKET_TYPE_CLOSE or _ERROR: what was not read is lost.
report_harbor_down(x, y) ==
    /\ phase[x] # "dead" /\ Broken(x, y) /\ reader[x][y] = "harbor"
    /\ reader' = [reader EXCEPT ![x][y] = "closed"]
    /\ tbox' = Send(tbox, x, [t |-> "D", id |-> y])
    /\ UNCHANGED <<phase, mvars, up, down, cs, hb, hbox, conn, wire, sent, got, calls>>

(***************************************************************************)
(* What services do.  Messages from services reach the harbor service in   *)
(* any order relative to the commands of its slave, so sending is one step.*)
(***************************************************************************)
Call(c) == calls[c] > 0 /\ calls' = [calls EXCEPT ![c] = @ - 1]

MustQueue_NoHandshake(h, y) == ~h.fd[y]
MustQueue(h, y) == ~h.fd[y] \/ h.status[y] = "HANDSHAKE"

\* m carries the handle y.
remote_send_handle(x, y, m) ==
    IF x = y
    THEN got' = [got EXCEPT ![x][x] = Append(@, m)] /\ UNCHANGED <<hb, wire>>
    ELSE IF MustQueue(hb[x], y)
         THEN hb' = [hb EXCEPT ![x].queue[y] = Append(@, m)] /\ UNCHANGED <<wire, got>>
         ELSE send_remote(x, y, <<m>>) /\ UNCHANGED <<hb, got>>

Message(x, y) == [no |-> Len(sent[x][y]) + 1, named |-> FALSE, dest |-> y]

send_to(x, y) ==
    /\ phase[x] = "ready" /\ x # y /\ Call("send")
    /\ remote_send_handle(x, y, Message(x, y))
    /\ sent' = [sent EXCEPT ![x][y] = Append(@, Message(x, y))]
    /\ UNCHANGED <<phase, mvars, up, down, cs, hbox, tbox, conn, reader>>

remote_send_name(x, g) ==
    /\ phase[x] = "ready" /\ Call("name")
    /\ LET y == hb[x].value[g] IN
       IF y = NoHandle
       THEN /\ hb' = [hb EXCEPT ![x].nameq[g] = Append(@, [no |-> Len(@) + 1, named |-> TRUE,
                                                           dest |-> NoHandle])]
            /\ tbox' = Send(tbox, x, [t |-> "Q", name |-> g])
            /\ UNCHANGED <<wire, got, sent>>
       ELSE /\ remote_send_handle(x, y, Message(x, y))
            /\ sent' = [sent EXCEPT ![x][y] = Append(@, Message(x, y))]
            /\ UNCHANGED tbox
    /\ UNCHANGED <<phase, mvars, up, down, cs, hbox, conn, reader>>

\* REGISTER asserts that the slave does not know the name.
REGISTER(x, g) ==
    /\ phase[x] = "ready" /\ cs[x].globalname[g] = NoHandle /\ Call("register")
    /\ cs' = [cs EXCEPT ![x].globalname[g] = x, ![x].queryname = @ \ {g}]
    /\ up' = Send(up, x, [t |-> "R", name |-> g, addr |-> x])
    /\ hbox' = Send(hbox, x, [t |-> "N", name |-> g, addr |-> x])
    /\ UNCHANGED <<phase, mvars, down, hb, tbox, nvars, sent, got>>

QUERYNAME(x, g) ==
    /\ phase[x] = "ready" /\ Call("query")
    /\ IF cs[x].globalname[g] # NoHandle THEN UNCHANGED <<cs, up>>
       ELSE /\ up' = IF g \in cs[x].queryname THEN up
                     ELSE Send(up, x, [t |-> "Q", name |-> g])
            /\ cs' = [cs EXCEPT ![x].queryname = @ \cup {g}]
    /\ UNCHANGED <<phase, mvars, down, hb, hbox, tbox, nvars, sent, got>>

\* LINK waits while the harbor is connected, CONNECT while it is not.
LINK(x, y) ==
    /\ phase[x] = "ready" /\ x # y /\ Call("link")
    /\ cs' = IF cs[x].slaves[y] = "fd" THEN [cs EXCEPT ![x].monitor = @ \cup {<<y, "LINK">>}] ELSE cs
    /\ UNCHANGED <<phase, mvars, up, down, hb, hbox, tbox, nvars, sent, got>>

CONNECT(x, y) ==
    /\ phase[x] = "ready" /\ x # y /\ Call("connect")
    /\ cs' = IF cs[x].slaves[y] # "fd" THEN [cs EXCEPT ![x].monitor = @ \cup {<<y, "CONNECT">>}] ELSE cs
    /\ UNCHANGED <<phase, mvars, up, down, hb, hbox, tbox, nvars, sent, got>>

\* A process dies: its connections break.
crash(x) ==
    /\ phase[x] \notin {"off", "dead"} /\ Call("crash")
    /\ phase' = [phase EXCEPT ![x] = "dead"]
    /\ conn' = [c \in Node |-> [d \in Node |->
                  IF x \in {c, d} /\ conn[c][d] = "open" THEN "broken" ELSE conn[c][d]]]
    /\ UNCHANGED <<mvars, up, down, cs, hb, hbox, tbox, reader, wire, sent, got>>

-----------------------------------------------------------------------------
Master == \E x \in Node : handshake(x) \/ dispatch_slave(x) \/ slave_down(x)

\* The slave and the harbor service of process x.
Process(x) ==
    \/ waiting_for(x) \/ begin_ready(x) \/ monitor_master(x) \/ monitor_opened(x)
    \/ ready_connect(x) \/ ready_opened(x) \/ ready_names(x) \/ monitor_harbor(x)
    \/ harbor_command(x)
    \/ \E y \in Node : accept_slave(x, y) \/ push_socket_data(x, y) \/ report_harbor_down(x, y)

Services(x) ==
    \/ \E y \in Node : send_to(x, y) \/ LINK(x, y) \/ CONNECT(x, y)
    \/ \E g \in GlobalName : remote_send_name(x, g) \/ REGISTER(x, g) \/ QUERYNAME(x, g)

Next == Master \/ \E x \in Node : start(x) \/ Process(x) \/ Services(x) \/ crash(x)

(***************************************************************************)
(* The scheduler dispatches the messages of each process, what was written *)
(* to a live connection arrives, and a broken connection is noticed.  With *)
(* bounded calls a process has finitely many steps to take, so that it     *)
(* keeps taking steps is enough.                                           *)
(***************************************************************************)
Fairness == WF_vars(Master) /\ \A x \in Node : WF_vars(Process(x))

Spec == Init /\ [][Next]_vars /\ Fairness

-----------------------------------------------------------------------------
(***************************************************************************)
(* Safety and liveness.                                                    *)
(***************************************************************************)
\* What x addressed to y by handle and y has got, in the order y got it.
Addressed(s) == SelectSeq(s, LAMBDA m : ~m.named)

(***************************************************************************)
(* A process gets the messages another one addressed to it by handle in    *)
(* the order they were sent, none lost in between and none twice, though   *)
(* they may wait in the queue of an unconnected harbor, be sent at the     *)
(* handshake or go straight to the socket; and every message that arrives, *)
(* one that waited for a name included, carries the handle it is for       *)
(* (remote_send_handle, dispatch_queue, push_socket_data).                 *)
(***************************************************************************)
RemoteOrder ==
    \A x, y \in Node :
        /\ IsPrefix(Addressed(got[y][x]), sent[x][y])
        /\ \A i \in DOMAIN got[y][x] : got[y][x][i].dest = y

(***************************************************************************)
(* While no process dies, every message sent by handle arrives: each pair  *)
(* of processes ends up with a connection whose handshake empties the      *)
(* queues (report_slave, connect_slave, accept_slave, harbor_command).     *)
(***************************************************************************)
Pending(x, y) == phase[y] # "off" /\ Len(Addressed(got[y][x])) < Len(sent[x][y])
Crashed == \E x \in Node : phase[x] = "dead"
EventuallyDelivered == <>[](Crashed \/ \A x, y \in Node : ~Pending(x, y))

(***************************************************************************)
(* A service that waits on its slave is answered: harbor.link returns once *)
(* the other process is dead, and harbor.queryname once the name is        *)
(* registered anywhere (monitor_clear, response_name).                     *)
(***************************************************************************)
LinkOwed(x, y) == phase[y] = "dead" /\ <<y, "LINK">> \in cs[x].monitor
NameOwed(x, g) == global_name[g] # NoHandle /\ g \in cs[x].queryname
CallersAnswered ==
    <>[](\A x \in Node : \/ phase[x] = "dead"
                          \/ /\ \A y \in Node : ~LinkOwed(x, y)
                             /\ \A g \in GlobalName : ~NameOwed(x, g))
=============================================================================
