# A verification project for skynet

TLA+ models of skynet 1.2.0 as it is kept in `src/skynet-1.2.0`: the C runtime
that schedules services (actors) on threads, with the Lua layer and the game
servers of `study/` built on it. The modules are checked with TLC on small
instances; for the message queue, the scheduler, the lock, the critical section,
the Lua layer and the player gateway, proofs checked by TLAPS show the safety
properties for every instance.

## The system

A skynet process runs *services*. A service is a C structure (`skynet_context`)
with a reference count, a handle, a message queue and a callback. Everything a
service does, it does in the callback for one message at a time; it sends
messages to other services by handle or name.

| part | state | operations | what makes it hard |
|---|---|---|---|
| message queue (`skynet_mq.c`) | circular buffer, `in_global`, `release`, overload meter | push, pop, length, overload, mark_release, release | growth of a wrapped buffer; the queue changes hands while others push |
| global queue (`skynet_mq.c`) | linked list of queues | push, pop | a queue may be linked once only |
| contexts (`skynet_server.c`) | reference count, `init`, total | launch, grab, release, exit, kill, push, dispatch | the last reference may be dropped by any thread at any time |
| handle table (`skynet_handle.c`) | slots, next handle, sorted names | register, retire, retireall, grab, findname, namehandle | growth, 24-bit wrap, iteration with the lock released |
| timer (`skynet_timer.c`) | five-level wheel, 32-bit tick | timeout, update | moves between levels, wrap, unlocked dispatch |
| threads (`skynet_start.c`) | sleep count, quit flag, condition variable | sleep, wakeup, shutdown | signals sent without the mutex |
| read-write lock (`rwlock.h`) | `write`, `read` | lock and unlock for each side | readers back off before writers |
| socket server (`socket_server.c`) | slots, send lists, command pipe, events | open, start, send, close, udp_connect, poll | direct writes by services race with the socket thread; slots are reused |
| Lua layer (`skynet.lua`, `queue.lua`) | sessions, coroutines, wakeups | call, ret, sleep, wakeup, fork, exit | answers, errors and timeouts for one session |
| socket channel (`socketchannel.lua`, `socket.lua`) | connection, waiting requests, dispatch coroutine | request, connect, close, changehost | many coroutines share a connection that breaks |
| harbor (`cmaster.lua`, `cslave.lua`, `service_harbor.c`) | slaves, connections, queues, names | join, connect, send, register, query, link | news of one event on several ways, in any order |
| player gateway (`study/server/`) | game servers, their agents, calls in flight | register, getAgent, call, take-over | a new instance takes over while calls are out |

Worker threads take a queue from the global queue, grab its service, dispatch
some messages, and put the queue back. The timer and socket threads push
messages and wake workers. A service that exits leaves the handle table; its
context is freed with its last reference, and its queue is then dropped by the
worker that holds it, which reports an error to each message's sender.

Sockets belong to one thread. Services reach it through a pipe of requests, or
write to a descriptor themselves when nothing of the socket waits to be sent; it
reports what happens as messages, which `socket.lua` turns into coroutines that
wake up. A socket channel lets the coroutines of a service share one connection
to a database or another cluster. Processes form one system through the harbor:
a master introduces them to one another, each pair has one connection, and the
harbor service of a process sends what is addressed to another one. The gateway
of the game (`server_server`, `server_player`) is built on names of the harbor
and on the critical section: it forwards the calls of a user to an agent inside
each game server, and takes a new instance of a game server over while the
system runs.

## Modules

| module | models | how |
|---|---|---|
| `FifoQueue` | what a queue promises | an unbounded sequence |
| `MessageQueue` | `skynet_mq.c`, one queue | one action per function; `owner` says who has the queue (its creator, the global list, a worker, nobody) |
| `Scheduler` | `skynet_mq.c`, `skynet_server.c`, grab and retire of `skynet_handle.c` | one step per locked region or atomic instruction; `pc[t]` is where thread `t` is; the buffer is a sequence, which `MessageQueue` justifies |
| `ServiceRegistry` | what the handle table promises | two partial functions |
| `HandleStorage` | `skynet_handle.c`, and the assignment of `ctx->handle` in `skynet_server.c` | one step per locked region, which `RWLock` justifies |
| `Timer` | `skynet_timer.c` | one step per region of the spinlock; `pending` is a history variable with the ticks left to each timer |
| `Workers` | `skynet_start.c` | one step per access to shared state; what a worker does with a queue is a `handler` that may never return |
| `RWLock` | `rwlock.h` | one step per access to a field of the lock |
| `LuaService` | `lualib/skynet.lua`, one service | one action per API call of the running coroutine, per kind of message, and per step of `suspend()`; `depth` counts the nested frames of `suspend()` |
| `CriticalSection` | `lualib/skynet/queue.lua` | one action per way to enter, wait, be resumed and leave |
| `SocketServer` | `socket_server.c` | one step of the socket thread per request, per event and per stage of a close; one step of a sender per access to shared state. A message is the sequence of its bytes, `wire[id]` what was written to a descriptor |
| `SocketChannel` | `lualib/skynet/socketchannel.lua` and what it uses of `socket.lua` | `cpu` is the coroutine that runs, each runs until it yields; `inbox` are the messages of the service; the network answers, breaks and connects |
| `Harbor` | `cmaster.lua`, `cslave.lua`, `service_harbor.c` | one action per package, command or event handled; `connect_slave` is split at `socket.open`, where it yields |
| `PlayerGateway` | `study/server/server_server.lua`, `server_player.lua` | one action per stretch between two yields; `ssq` and `newCS` are critical sections, which `CriticalSection` justifies |
| `SchedulerInvariant` | | the inductive invariant of `Scheduler` |
| `MessageQueueProofs`, `SchedulerSteps`, `SchedulerLives`, `SchedulerCounts`, `SchedulerProofs`, `WaitingProofs`, `LuaServiceProofs`, `GatewayProofs` | | lemmas and theorems; `WaitingProofs` is about `RWLock` and `CriticalSection` |
| `MC*` | | instances and bounds for TLC. `MCCore`, `MCThreads`, `MCWaiting` and `MCSockets` put components that share nothing side by side: `part`, chosen at the start, says which of them a behaviour is about, and the others do not move |

Abstractions. Messages are model values, or a source and a type where dropping
matters. Log output (`skynet_error`) is a message to the logger like any other
and is not sent separately. Names are numbers with the order of `strcmp`. The
harbor byte of a handle is constant within a process and left out. In
`Scheduler` a handle names one context for ever; `HandleStorage` shows when
handles are used again. Handles are used by services that were told them
(`known`): by the launcher's answer or a registered name.

In `Scheduler` the harbor service (`Remote`) is reserved, as `skynet_harbor_start`
does it in every process: the pointer `REMOTE` is a reference to it, and it does not
count in `G_NODE.total`. `HarborSend` pushes to it through that pointer, whether or
not it is still in the handle table. The model ends where the threads do: the
release by `skynet_harbor_exit`, after they were joined, is left out, as are the
errors for dropped messages whose source is in another process.

In `SocketServer` the owner of a socket (`opaque`), statistics, options and user
objects are left out, reading is only whether it ends the socket, and
`reserve_id` with the assignments that follow it is one step, as is `force_close`
with the removal of its events. Services send on sockets that were reported open,
as `socket.lua` does, or on bound descriptors. A datagram that a service could not
write at once loses its address on the way through `dw_buffer`; the model knows
whether a datagram has an address, not which, so nothing is said of where it goes. In
`SocketChannel` an answer has `Parts` parts, each read by one `socket.read`, and the
response function may raise on what it read; authentication, backup hosts,
padding, `channel:response`, overload and the retries of `try_connect` are left
out. In `LuaService` the token of a wait is the coroutine itself, as it is unless
the caller passes one, so `assert(sleep_session[token] == nil)` cannot fail. In
`Harbor` the stream delivers whole messages, one service per process
matters and is named by its process, and a process has one life, since the master
refuses its id afterwards; `close_harbor`, for a peer that sends a wrong id or a
message of 16 MB, is left out. An `accept_slave` that waits for its peer's id when the
slave stops listening goes on; it takes four processes to get there, one more than
the run has.

In `PlayerGateway` an agent is named by the instance that made it, and the 3 seconds
of a take-over may pass at any time. A player's record has four history fields:
`told` counts the registrations it was told of, and dates the questions for an
agent: `asked` the last one, `dated` the one that gave the agent in use, `failed` the
last one that failed.

## Runs

| run | question | result |
|---|---|---|
| `core` | is the circular buffer a FIFO queue (`ImplementsFifo`), is no message stranded? Is the handle table a map through growth, wrap, exhaustion and name changes (`ImplementsRegistry`), does registration fail only when it must, does retireall find everything? | holds, for one launch at a time and up to the expansion of `handle_wrap_full` |
| `scheduler` | are queues owned once, contexts counted and used only while alive, services run by one thread at a time and only after init? Is only the reserved service left when the total is 0 (`AbortIsSafe`)? | holds |
| `threads` | does every timer fire, on its tick, in order? Is work taken though wakeups are lost or workers hang, and does the process end? Is every message served or dropped, every dead service and queue freed? | holds, but for a reserved service that was killed |
| `waiting` | the read-write lock: exclusion, no livelock. The critical section: exclusion, safe handover, order, no starvation. The gateway: does every user's agent learn of every registration (`NoRegistrationLost`), does no call use an agent older than a registration it knew of (`FreshAgent`), does every call end? | holds; `FreshAgent` but for a take-over that failed |
| `lua` | do sessions lead back to their coroutines, is each request answered once, is every woken or failed coroutine resumed, is every caller told of an exit? | holds, if no message follows the exit |
| `sockets` | the socket server: do its assertions hold and its counts agree (`Accounted`), is a stream made of whole messages in order (`StreamIntact`), is what a service sent written before its close takes effect (`CloseFlushes`), does no data wait for ever (`EventuallySent`)? The channel: does a request get its own answer or an error (`RightAnswer`), do waiters and outstanding answers correspond (`InStep`), does every request end? | holds, `EventuallySent` but for bound descriptors, the channel for answers read in one part, and as long as the user does not close the channel's socket under waiting requests |
| `harbor` | do messages arrive in order and with their handle (`RemoteOrder`), do they all arrive while nobody dies, are those answered who wait for a death or a name? | holds |
| `handle_race` | does the expansion's assertion hold for overlapping launches? | **violated** |
| `handle_wrap_full` | is the table expanded only when full? | **violated** |
| `lua_exit` | is every caller told when messages follow the exit? | **violated** |
| `takeover` | is every take-over reported that leaves calls under way? | **violated** |
| `channel_close` | does `socket.close` wait for the coroutine that reads? | **violated** |

The violations:

- `handle_race`. `skynet_handle_register` puts the context in the table and
  unlocks; only then does `skynet_context_new` store the handle in the context.
  A registration on another thread that doubles the table in between rehashes
  the context by handle 0, and `assert(new_slot[hash] == NULL)` fails.
- `handle_wrap_full`. A search that crosses `HANDLE_MASK` skips 0, tries one
  slot twice and slot 0 never. If only that one is free, the table is expanded
  with an empty slot in it, whose handle is read through a null pointer. It takes
  2^24 launches to get there.
- `lua_exit`. A worker dispatches several messages while it holds the context, so
  messages of its batch reach the service after `skynet.exit`. A request among
  them whose handler blocks is never resumed, and its caller is neither reported
  by the exit nor found in the dropped queue.
- `takeover`. A forced take-over sets `callNumber` to 0 with calls still out. When
  they return they decrement it, so it falls below the number of calls made
  since; the next take-over then neither waits nor logs, with a call under way.
- `channel_close`. `suspend` wakes the coroutine that closes whenever the reader
  is woken, not when it has done its last read. A reader that needs two reads for
  an answer, as those of the mongo and mysql drivers, suspends again in the
  second; the closing coroutine removes the socket; no message wakes the reader
  any more, and the channel's next connection waits for it for ever.

What the models show and no run checks, because the code fails it or promises
nothing:

- Socket server. A comment in `start_socket` (line 1014) says that a half-closed
  socket's `SOCKET_CLOSE` is sent later. A close handled while another service's
  request is counted but not yet handled makes the socket half closed; the request
  is then dropped, nothing waits to be sent and no write event was asked for, so
  only the peer ends the socket. TLC finds it as a counterexample to "a half-closed
  socket is closed in the end". `EventuallySent` therefore speaks of data only.
- Socket channel. `changehost` under waiting requests in order mode leaves them in
  the queue, and the next connection's answers go to them; requests may then also
  wait for ever. `RightAnswer`, `InStep` and `RequestsEnd` exclude this case
  (variable `dropped`). With answers in two parts `RequestsEnd` fails as in
  `channel_close`.
- Harbor. The comment at the head of `service_harbor.c` (line 9) says that to a
  harbor it connects to, the service sends its queue last. `dispatch_name_queue`
  sends what waited for a name at once, during the handshake too. It may overtake
  messages that were sent by handle; and it may come while the other side's slave
  has abandoned the socket and its harbor service has not started it yet, and be
  dropped there. So `RemoteOrder` orders, and `EventuallyDelivered` counts, only what
  was sent by handle.
- Reserved service. A harbor service that was killed is kept by `REMOTE`: its queue is
  neither dispatched nor released and goes round on the global list until the
  process ends. `EventuallyServed` and `EventuallyReclaimed` except it (`Kept`).
- Bound descriptors. `send_socket` asks for a write event only for a connected
  socket, and `bind_socket` asks for none: what a service sends to a bound descriptor
  waits in its lists until the socket is closed. `EventuallySent` excepts it.
- Failed take-over. `checkAgent` clears `isNew` before it asks the new instance for
  its agent. When the question fails the player keeps the agent of the instance
  before, or has none, and no later call asks again until the next registration.
  `FreshAgent` allows this case and no other: whoever goes to an older agent does so
  because a question put after the registration failed (`failed`).

Three facts about `skynet.lua` that the model shows and no run checks. A token
woken twice before it runs ends the chain of `dispatch_wakeup`, so tokens behind
it wait for a later message; `Drained` is stated for programs that do not do this
(`twice`). A coroutine resumed after the exit may answer a caller whom the exit
has already answered; `AnsweredOnce` is stated up to the exit. The comment in
`skynet.exit` that no fork is executed after it is true of earlier forks only:
later messages of the batch, and frames of `suspend()` that go on after `QUIT`,
may fork again.

### Bounds

- `core`: the buffer starts with one slot and grows to eight (`MaxLength` 4), so
  it grows when wrapped and when not; two messages tell orders apart. The table
  starts at two slots and the mask is 3, so four contexts reach growth, the wrap
  and exhaustion in a few registrations, with three names for the binary search;
  no names are bound while retireall runs. `FullOnly` leaves out the one expansion
  that `handle_wrap_full` is about, `MaxLaunching` bounds overlapping launches.
  Contexts are interchangeable (symmetry).
- `scheduler`: three services, two workers of different weight, one feeding
  thread, three operations (`MaxOps`). Three are enough for a launch during
  which the new service is told of and killed, and for a kill of a service with
  a message in flight; two workers suffice for every race between two holders
  of a reference, and the feeding thread adds a third. One of the services is the
  reserved one. In `threads`: the reserved service, one that is the monitor of exits
  and one that may be launched, with two operations, which give a launch, a kill of
  any of them, and a message to or from each.
- `threads`, timer: two ticks per near block, two slots per level, five bits for
  the word, as 8 + 4 * 6 = 32 in the code: all five levels and the wrap are reached
  within 32 ticks. `MaxTimeout` is 15, half of the word, as an `int` is. Workers:
  three, with two ready queues.
- `waiting`: four threads; four coroutines, each entering up to twice; two users,
  one game server that starts twice, three calls. Two starts give a take-over, and
  a registration during it; three calls give one under way at a take-over, one
  that takes over and one that waits for it. One socket at a time asks
  `server_server` for an agent (`MaxAsking`): of a user who is new or known already.
  Calls get their numbers in the order in which they are made, as they differ in
  nothing else. `takeover` needs a third start, and lets two sockets ask.
- `lua*`: three coroutines (one that acts, two that wait, or a recycled one), one
  peer, two sessions, two requests; `MaxQueued` bounds the queues
  and the errors in one message. Coroutines are interchangeable (symmetry).
- `sockets`: two slots and four ids, so a slot is used twice; messages of two
  bytes, so that a write may be partial; at most two pending sends, which two
  services reach. `MCWorkloads` gives seven mixes of calls: a shared connection
  with high and low priority, one slot used by several connections in turn, a
  listener, datagrams, a bound descriptor that is sent to and closed. The channel:
  three requests, named in the order in which they are made, and two connections;
  the user calls nothing, `close` or `changehost`.
- `harbor`: three processes that join while a message is sent; two with a name
  that is asked for, registered and sent to; two with messages, a link and a
  crash; two with link, connect and a crash. The order of the ids in which
  processes start is fixed, as ids are interchangeable.

Deadlock checking is off in all passing runs: an idle process waits for events
(`scheduler`, `sockets`, `harbor`), a service exits (`lua`), threads end (`threads`),
a failed registration ends the process and the backlog is bounded (`core`), and
in `waiting` the gateway has only so many calls to make. That nobody waits for
ever is stated by the liveness properties (`LockProgress`, `Served`, `CallsEnd`,
`RequestsEnd`, `QueueIsTaken` and others).

The type invariants of the modules are not among the properties of the runs;
those of the queue, the scheduler, the lock, the critical section, the Lua layer
and the gateway are part of the invariants proved. That a pop returns only
messages (`PopsOnlyMessages`) is left to its proof as well.

### Fairness

- `FairSpec` of `Scheduler`: a thread that has begun an operation goes on, since
  the kernel schedules every thread. Timer and socket threads need not send.
  Callbacks return, because the operations they may start are bounded.
- `Timer`: weak fairness of the timer thread, which loops every 2.5 ms.
- `Workers`: weak fairness of every thread, none for handlers, socket events and
  spurious wakeups. Strong fairness of the timer's lock of the mutex at
  shutdown (workers hold it for a few instructions), and of the socket thread's
  exit (commands are read before events).
- `CriticalSection`: a woken coroutine is resumed (`Drained` of `LuaService`), and
  whoever is in the section leaves it in the end: that `f` returns is up to its
  author, and the repository's uses of the section (calls that are answered or
  fail) do.
- `RWLock`: weak fairness of threads inside the lock functions or holding the
  lock.
- `SocketServer`: weak fairness of the socket thread and of a sender inside its
  call; a descriptor waited for becomes writable again and again (strong fairness
  of that event: the peer reads, or the connection fails and is closed).
- `SocketChannel`: the service handles its messages, `socket.open` ends, and a
  connection with answers outstanding, or being closed, goes on or breaks.
- `Harbor`: weak fairness of the master and of each process. What is written to
  a live connection arrives; a broken one is noticed. Starting, sending and dying
  are not fair.
- `PlayerGateway`: names arrive, services dispatch their messages, the 3 seconds
  pass, and a call is answered or fails. Users and game servers need not do
  anything.

`MCThreads`, `MCWaiting` and `MCSockets` repeat these conditions for their parts; as
`part` never changes, one condition may serve an action of each part.

## Proofs

`MessageQueueProofs` shows for every initial buffer size, every overload limit
and every set of messages that the ring implements `FifoQueue`
(`RingImplementsFifo`), that the indices stay in the buffer (`TypeCorrect`), that a
pop returns only what was pushed, that no message is stranded, and that the
overload figure is current (`OverloadIsCurrent`, which no run repeats). The
refinement maps the ring to the sequence of its slots from `head` to `tail`. A
push stores one slot beyond the contents (`StoreAppends`) or fills the buffer,
which is then copied from the head (`StoreFills`, `ExpandKeeps`); a pop drops the
first slot (`TakeTail`). The inductive invariant joins the type invariant, that
every slot of the contents holds a message, the agreement of `in_global` with
the owner, and the band of the overload figure. It rests on the assumptions
that the initial size and the overload limit are positive, and that the value
of an unwritten slot is no message.

The proofs about `Scheduler` (`SchedulerProofs`) hold for any finite sets of
workers and feeding threads, any number of services and messages, and any number
of operations. They show that a queue is on the global list, with one worker or
with its creator, and otherwise empty (`QueueHasOneOwner`); that `ctx->ref` counts
the references there are (`CountsAreExact`); that nothing freed is used
(`NothingFreedIsUsed`); that a service runs on one thread at a time, after its
launch (`ServicesRunAlone`); and that no service but the reserved one is left when
the total is 0 (`AbortLeavesReserved`). None of these is inductive alone: that a worker may pop
from its queue rests on the queue being in no other place, which rests on
`in_global` and `release` telling where it is, which rests on when a context may
be freed, which rests on the count, which rests on what each thread holds at each
place of its code. `SchedulerInvariant` states these layers: the shape of a
thread's locals by its place (`Shape`), the count as the cardinality of a set of
places (`Counts`), how the lives of a context and its queue relate (`Lives`,
`Deleting`, `Reachable`), each queue in one place (`Unique`, `Present`, `Flagged`),
launches (`Initialised`) and the total (`Totalled`). `SchedulerSteps` shows that a
step keeps types and shapes, `SchedulerLives` the lives and places,
`SchedulerCounts` the counts, with lemmas on cardinality. TLC checked the
invariant on the instance of the run `scheduler` before it was proved. The
assumptions: threads are finitely many, workers do not feed, the initial services
differ, `None` is no handle, and the monitor of exits (`cmd_monitor`), if there is
one, is one of the initial services; it may exit like any other. The reserved
service, if there is one, is initial too. Its reference is one more in `Counts`, and
`Totalled` counts the contexts without it.

`WaitingProofs` shows mutual exclusion of the lock for every finite set of threads
(`LockExclusion`). Exclusion is not inductive: a writer relies on `read = 0`, so
the invariant `LockInv` must say that `read` counts exactly the readers past the
increment, that `write` is set exactly while one writer is past test_and_set, and
that no reader holds the lock beside a writer that does (theorem `CountsReaders`,
which no run repeats). Four lemmas on cardinality carry the count.

It shows for the critical section, any number of coroutines and any depth, that
the section excludes (`SectionExclusion`), that `assert(ref == 0)` never fails
(`HandoverIsSafe`), that nobody waits for a free section (`NoLostWakeup`; the three
together are `SectionIsSafe`) and that coroutines enter in order
(`FirstComeFirstServed`). The invariant `SectionInv` adds that a chosen coroutine is
the current one from its wakeup on, that at most one is woken, that exactly the
waiting ones are queued or woken, and that nobody is queued twice.

`LuaServiceProofs` shows the five safety properties of the Lua layer for any
coroutines and peers and all values of the bounds: `OneWayToResume`,
`EveryWaitIsAnswered`, `NoSecondAnswer`, `QueuesAreDrained` and
`ExitReportsToCallers`. The last assumes that no message follows the exit
(`~Batch`); without it the property is the one `lua_exit` refutes. The invariant
joins the types; the ways between coroutines, sessions and tokens (`Ways`), from
which one answer, error or wakeup takes away what the others would find; that a
session not yet allocated is named nowhere (`Unallocated`); what the interpreter is
doing (`Machine`); who owes the answer to each session (`Owing`); the account of each
request (`Requests`); what an exit has settled (`Exiting`); and that something will
look at what is queued, and finds it still waiting (`Flow`). TLC checked it in both
configurations of `LuaService`. The assumption `ConstantsOK` says that `None` and
`BREAK` are no coroutines and no peers, and that the bounds are numbers.

`GatewayProofs` shows for any users, game servers, instances and calls that no
registration is lost (`RegistrationsReachUsers`) and that calls go to agents asked
for after the last registration they knew of, or after it such a question failed
(`CallsReachFreshAgents`; an action property, about the step in which a call goes
out). The first
rests on `Informed`: only the first operation of `server_server` is under way, its
copy of the map of game servers is current, and whoever is known has been told of
all but what it still has to tell. The second rests on `Fresh`: an agent that is
not to be replaced was asked for after the last registration, or the call that is
about to ask is first in `newCS`; so a call that comes first and finds `isNew`
cleared finds no question about to be put. `Dated` adds that the last question gave
the agent in use, or failed, or is still under way, in which case its call is first in
`newCS` and no other call goes out. There are no assumptions.

Only model-checked: all liveness properties (`EventuallySent`, `CallsEnd`, `Served`
and the others), since liveness under fairness is beyond the prover, and the
refinement of `ServiceRegistry`, the invariants and the action properties of
`HandleStorage`, `Timer`, `Workers`, `SocketServer`, `SocketChannel` and `Harbor`. For
`HandleStorage`, `Timer` and `SocketServer` the arguments are about remainders by
sizes that grow, digits of the tick and sequences of bytes cut at any place, each
of which needs induction over data; in `SocketChannel` and `Harbor` the invariants
relate several queues element by element across two sides of a connection.

## Hazards without a property

`PROJECT.json` lists the hazards with the line where each bites and the properties
that would catch it. Three have none: pointers used after the release in
`skynet_context_new`, which `NoUseAfterFree` excludes, and messages to a process
that died, which are lost, as the code has them and no line of the repository
promises otherwise; and the half-closed socket that nothing ends, described above.

## Not modelled

The modules follow about a twentieth of the lines of `src/`. Most of the rest is
code that a state machine adds nothing to, or that is not this system's:

- third-party code as released by its authors: the Lua interpreter and its
  libraries, lpeg, md5 and pbc, together the larger part of the C code;
- codecs, crypto and bindings (`lua-seri.c`, `lua-bson.c`, `lua-crypt.c`,
  `lua-netpack.c`, sproto, the database drivers' packet formats): sequential
  conversions, whose results over all inputs are a matter of tests;
- loading of modules, configuration, log files, daemon start-up, the debug
  console, examples, tests, tables of messages and old copies (`backup/`);
- shared C objects (`lua-stm.c`, `lua-sharedata.c`, `lua-multicast.c`) and the
  services above them, the launcher and the service manager, the cluster
  services, the gates: state machines that could be modelled in the same way and
  are not. What they are built on is: contexts, calls and responses, socket
  channels, sockets;
- the router and the switch of `study/`, but for the step that asks for a user's
  agent;
- inside the modelled parts, what `PROJECT.json` notes under each component.
