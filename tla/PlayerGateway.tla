---------------------------- MODULE PlayerGateway ----------------------------
(***************************************************************************)
(* The gateway of the game servers under study/: server_server keeps which *)
(* agent serves a user and which game servers (chat_server, player_server, *)
(* ...) have registered; the server_agent of a user keeps, for each game   *)
(* server, the agent that handles the user there (server_player.lua), and  *)
(* passes the user's calls on to it.  When a game server registers again   *)
(* (a new instance took its name), the next call takes the user over to    *)
(* the new instance: it waits for the calls under way, at most 3 seconds,  *)
(* and asks the new instance for its agent.                                *)
(*                                                                         *)
(* Instances of a game server are numbered; an instance and its agent for  *)
(* a user are the same number.  harbor.queryname answers from the slave of *)
(* the gateway's process, which learns of a new instance by its own way    *)
(* (resolved), before or after the instance's register arrives.            *)
(***************************************************************************)
EXTENDS Integers, Sequences, FiniteSets

CONSTANTS Uid, Server,
          Call,            \* the calls clients make
          MaxInstance,     \* bound on the instances of a game server
          MaxAsking        \* bound on the sockets that ask for an agent

VARIABLES ssq,             \* server_server: the operations in its critical
                           \* section, the first one running
          serverNameMap, uidAgentMap,
          player,          \* player[u][s]: self.server[s] of server_player
          newCS,           \* newCS[u][s]: the calls in the section, in order
          call,
          instance,        \* the newest instance of each game server
          resolved         \* the instance harbor.queryname knows (0: none)

svars == <<ssq, serverNameMap, uidAgentMap>>
pvars == <<player, newCS, call>>
vars == <<svars, pvars, instance, resolved>>

\* History: told counts the registrations the player was told of.  Questions for
\* an agent are dated by it: asked dates the last one, dated the one that gave
\* the agent in use, failed the last one that failed.
Unknown == [known |-> FALSE, agent |-> 0, callNumber |-> 0, isNew |-> FALSE,
            told |-> 0, asked |-> 0, dated |-> 0, failed |-> 0]

Init ==
    /\ ssq = <<>> /\ serverNameMap = [s \in Server |-> 0] /\ uidAgentMap = {}
    /\ player = [u \in Uid |-> [s \in Server |-> Unknown]]
    /\ newCS = [u \in Uid |-> [s \in Server |-> <<>>]]
    /\ call = [c \in Call |-> [pc |-> "none"]]
    /\ instance = [s \in Server |-> 0] /\ resolved = [s \in Server |-> 0]

(***************************************************************************)
(* server_server.  Its two operations call agents and so yield; they run   *)
(* one at a time (dispatch.actionServerCS, dispatch.server).  An element   *)
(* of ssq is an operation with what is left of it.  serverNameMap[s] is    *)
(* the number of registrations of s, of which the code keeps whether there *)
(* was one.                                                                *)
(***************************************************************************)
MayRun_NoCS(i) == i \in DOMAIN ssq
MayRun(i) == i \in DOMAIN ssq /\ i = 1

Without(q, i) == SubSeq(q, 1, i - 1) \o SubSeq(q, i + 1, Len(q))
Leave(i) == ssq' = Without(ssq, i)

\* server_player's register, for the k-th registration of s.
registered(p, k) == [p EXCEPT !.known = TRUE, !.isNew = TRUE,
                              !.told = IF k > @ THEN k ELSE @]

\* register: note the name, then tell the agent of every user.
register_start(i) ==
    /\ MayRun(i) /\ ssq[i].op = "register" /\ ssq[i].pc = "start"
    /\ serverNameMap' = [serverNameMap EXCEPT ![ssq[i].server] = @ + 1]
    /\ ssq' = [ssq EXCEPT ![i] = [@ EXCEPT !.pc = "tell", !.left = uidAgentMap]]
    /\ UNCHANGED <<uidAgentMap, pvars, instance, resolved>>

register_tell(i) ==
    /\ MayRun(i) /\ ssq[i].op = "register" /\ ssq[i].pc = "tell"
    /\ LET s == ssq[i].server IN
       \/ \E u \in ssq[i].left :
            /\ player' = [player EXCEPT ![u][s] = registered(@, serverNameMap[s])]
            /\ ssq' = [ssq EXCEPT ![i].left = @ \ {u}]
       \/ ssq[i].left = {} /\ Leave(i) /\ UNCHANGED player
    /\ UNCHANGED <<serverNameMap, uidAgentMap, newCS, call, instance, resolved>>

\* getAgent: a new user's agent is told of all the game servers, then the
\* user is entered in the map.
getAgent_start(i) ==
    /\ MayRun(i) /\ ssq[i].op = "getAgent" /\ ssq[i].pc = "start"
    /\ IF ssq[i].uid \in uidAgentMap THEN Leave(i)
       ELSE ssq' = [ssq EXCEPT ![i] = [@ EXCEPT !.pc = "registerMap", !.map = serverNameMap]]
    /\ UNCHANGED <<serverNameMap, uidAgentMap, pvars, instance, resolved>>

registerMap(i) ==
    /\ MayRun(i) /\ ssq[i].op = "getAgent" /\ ssq[i].pc = "registerMap"
    /\ player' = [player EXCEPT ![ssq[i].uid] = [s \in Server |->
                    IF ssq[i].map[s] > 0 THEN registered(@[s], ssq[i].map[s]) ELSE @[s]]]
    /\ ssq' = [ssq EXCEPT ![i].pc = "enter"]
    /\ UNCHANGED <<serverNameMap, uidAgentMap, newCS, call, instance, resolved>>

getAgent_enter(i) ==
    /\ MayRun(i) /\ ssq[i].op = "getAgent" /\ ssq[i].pc = "enter"
    /\ uidAgentMap' = uidAgentMap \cup {ssq[i].uid}
    /\ Leave(i)
    /\ UNCHANGED <<serverNameMap, pvars, instance, resolved>>

(***************************************************************************)
(* Game servers: a new instance takes the name and registers; the name     *)
(* reaches the gateway's process on its own.                               *)
(***************************************************************************)
start_server(s) ==
    /\ instance[s] < MaxInstance
    /\ instance' = [instance EXCEPT ![s] = @ + 1]
    /\ ssq' = Append(ssq, [op |-> "register", server |-> s, pc |-> "start", left |-> {}])
    /\ UNCHANGED <<serverNameMap, uidAgentMap, pvars, resolved>>

name_arrives(s) ==
    /\ resolved[s] < instance[s]
    /\ resolved' = [resolved EXCEPT ![s] = @ + 1]
    /\ UNCHANGED <<svars, pvars, instance>>

(***************************************************************************)
(* The sockets of a user's clients (switch_fd_player.lua): the first       *)
(* package of each asks server_server for the agent of the user; then      *)
(* packages are calls.                                                     *)
(***************************************************************************)
ask_agent(u) ==
    /\ Cardinality({i \in DOMAIN ssq : ssq[i].op = "getAgent"}) < MaxAsking
    /\ ssq' = Append(ssq, [op |-> "getAgent", uid |-> u, pc |-> "start", map |-> <<>>])
    /\ UNCHANGED <<serverNameMap, uidAgentMap, pvars, instance, resolved>>

\* doCall and callServer: without the server the call fails at once; else it
\* enters newCS (checkAgent).
doCall(c, u, s) ==
    /\ call[c].pc = "none" /\ u \in uidAgentMap
    /\ IF player[u][s].known
       THEN /\ newCS' = [newCS EXCEPT ![u][s] = Append(@, c)]
            /\ call' = [call EXCEPT ![c] = [pc |-> "check", u |-> u, s |-> s, agent |-> 0,
                                            told |-> player[u][s].told]]
       ELSE /\ call' = [call EXCEPT ![c] = [pc |-> "done"]] /\ UNCHANGED newCS
    /\ UNCHANGED <<svars, player, instance, resolved>>

P(c) == player[call[c].u][call[c].s]
Holds(c) == newCS[call[c].u][call[c].s] # <<>> /\ Head(newCS[call[c].u][call[c].s]) = c
leave_newCS(c) == newCS' = [newCS EXCEPT ![call[c].u][call[c].s] = Tail(@)]
Becomes(c, p) == player' = [player EXCEPT ![call[c].u][call[c].s] = p]

\* skynet.call to the agent follows the section without a yield.
Issue(c, p) ==
    /\ Becomes(c, [p EXCEPT !.callNumber = @ + 1])
    /\ call' = [call EXCEPT ![c] = [@ EXCEPT !.pc = "calling", !.agent = p.agent]]

checkAgent_known(c) ==
    /\ call[c].pc = "check" /\ Holds(c) /\ ~P(c).isNew
    /\ leave_newCS(c)
    /\ Issue(c, P(c))
    /\ UNCHANGED <<svars, instance, resolved>>

\* The take-over: isNew is cleared before the new agent is asked for.
taken(p) == [p EXCEPT !.isNew = FALSE, !.callNumber = 0]

checkAgent_drained(c) ==
    /\ call[c].pc = "check" /\ Holds(c) /\ P(c).isNew /\ P(c).callNumber <= 0
    /\ Becomes(c, taken(P(c)))
    /\ call' = [call EXCEPT ![c].pc = "query"]
    /\ UNCHANGED <<svars, newCS, instance, resolved>>

\* After 3 seconds of waiting, reported as a forced take-over.
checkAgent_forced(c) ==
    /\ call[c].pc = "check" /\ Holds(c) /\ P(c).isNew /\ P(c).callNumber > 0
    /\ Becomes(c, taken(P(c)))
    /\ call' = [call EXCEPT ![c].pc = "query"]
    /\ UNCHANGED <<svars, newCS, instance, resolved>>

\* harbor.queryname waits until the name is known.
queryname(c) ==
    /\ call[c].pc = "query" /\ resolved[call[c].s] > 0
    /\ call' = [call EXCEPT ![c] = [@ EXCEPT !.pc = "getAgent", !.agent = resolved[call[c].s]]]
    /\ Becomes(c, [P(c) EXCEPT !.asked = P(c).told])
    /\ UNCHANGED <<svars, newCS, instance, resolved>>

\* The instance answers with its agent, and the call goes to that agent.
answered_LateClear(p, c) == [p EXCEPT !.agent = call[c].agent, !.dated = p.asked,
                                      !.isNew = FALSE]
answered(p, c) == [p EXCEPT !.agent = call[c].agent, !.dated = p.asked]

getAgent(c) ==
    /\ call[c].pc = "getAgent"
    /\ leave_newCS(c)
    /\ Issue(c, answered(P(c), c))
    /\ UNCHANGED <<svars, instance, resolved>>

\* skynet.call raises: an instance that was replaced may be gone.  The section
\* is left (skynet.queue catches), the call fails; the agent stays what it was,
\* the one before or none, and isNew cleared.
Gone(c) == call[c].agent # instance[call[c].s]

getAgent_fails_KeepsCS(c) ==
    /\ call[c].pc = "getAgent" /\ Gone(c)
    /\ call' = [call EXCEPT ![c] = [pc |-> "done"]]
    /\ UNCHANGED <<svars, player, newCS, instance, resolved>>
getAgent_fails(c) ==
    /\ call[c].pc = "getAgent" /\ Gone(c)
    /\ leave_newCS(c)
    /\ Becomes(c, [P(c) EXCEPT !.failed = P(c).asked])
    /\ call' = [call EXCEPT ![c] = [pc |-> "done"]]
    /\ UNCHANGED <<svars, instance, resolved>>

\* A call to no agent raises.
returns(c) ==
    /\ call[c].pc = "calling" /\ call[c].agent > 0
    /\ Becomes(c, [P(c) EXCEPT !.callNumber = @ - 1])
    /\ call' = [call EXCEPT ![c] = [pc |-> "done"]]
    /\ UNCHANGED <<svars, newCS, instance, resolved>>

\* A call that raises leaves the count as it is.
fails(c) ==
    /\ call[c].pc = "calling" /\ Gone(c)
    /\ call' = [call EXCEPT ![c] = [pc |-> "done"]]
    /\ UNCHANGED <<svars, player, newCS, instance, resolved>>

-----------------------------------------------------------------------------
server_server == \E i \in DOMAIN ssq : \/ register_start(i) \/ register_tell(i)
                                       \/ getAgent_start(i) \/ registerMap(i)
                                       \/ getAgent_enter(i)

server_player(c) == \/ checkAgent_known(c) \/ checkAgent_drained(c) \/ checkAgent_forced(c)
                    \/ queryname(c) \/ getAgent(c) \/ getAgent_fails(c)
                    \/ returns(c) \/ fails(c)

Next == \/ server_server
        \/ \E s \in Server : start_server(s) \/ name_arrives(s)
        \/ \E u \in Uid : ask_agent(u)
        \/ \E c \in Call : \/ server_player(c)
                           \/ \E u \in Uid, s \in Server : doCall(c, u, s)

(***************************************************************************)
(* Names arrive, server_server and the agents dispatch their messages, the *)
(* 3 seconds pass, and an agent answers a call or the call fails.          *)
(***************************************************************************)
Fairness == /\ WF_vars(server_server) /\ \A s \in Server : WF_vars(name_arrives(s))
            /\ \A c \in Call : WF_vars(server_player(c))

Spec == Init /\ [][Next]_vars /\ Fairness

-----------------------------------------------------------------------------
(***************************************************************************)
(* No registration is lost between a game server that registers and a user *)
(* that appears at the same time: whenever server_server has nothing left  *)
(* to do, every user it knows has been told of the last registration of    *)
(* every game server (register and getAgent of server_server.lua).         *)
(***************************************************************************)
NoRegistrationLost ==
    ssq = <<>> => \A u \in uidAgentMap, s \in Server : player[u][s].told = serverNameMap[s]

(***************************************************************************)
(* A call goes to an agent that was asked for after every registration its *)
(* player knew of when the call arrived, or else the take-over that these  *)
(* registrations led to was tried after the last of them and failed        *)
(* (checkAgent then keeps the agent it has, or none, until the next        *)
(* registration).  No registration goes unanswered: isNew is cleared       *)
(* before the question, so that one during it is not forgotten, and calls  *)
(* that arrive during a take-over wait for it.                             *)
(***************************************************************************)
Goes(c) == call[c].pc # "calling" /\ call'[c].pc = "calling"
FreshAgent == [][\A c \in Call : Goes(c) =>
                   call[c].told <= P(c)'.dated \/ call[c].told <= P(c)'.failed]_vars

(***************************************************************************)
(* Every call ends, though take-overs wait for other calls: the wait is    *)
(* bounded and newCS is left on an error (checkAgent, doCall).             *)
(***************************************************************************)
CallsEnd == <>[](\A c \in Call : call[c].pc \in {"none", "done"})

(***************************************************************************)
(* A take-over that leaves calls to the old agent under way is reported as *)
(* forced: one that is not forced finds no call of the user under way.     *)
(***************************************************************************)
UnderWay(c) == \E d \in Call : /\ call[d].pc = "calling"
                               /\ call[d].u = call[c].u /\ call[d].s = call[c].s
TakeoverReported == [][\A c \in Call : checkAgent_drained(c) => ~UnderWay(c)]_vars
=============================================================================
