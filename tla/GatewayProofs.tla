---------------------------- MODULE GatewayProofs ----------------------------
(***************************************************************************)
(* The player gateway: no registration lost and no call to an outdated     *)
(* agent, for any number of users, game servers, instances and calls.      *)
(***************************************************************************)
EXTENDS PlayerGateway, TLAPS

\* An operation of server_server, with what is left of it.
RegisterOp == [op : {"register"}, server : Server, pc : {"start", "tell"}, left : SUBSET Uid]
AgentOp == [op : {"getAgent"}, uid : Uid, pc : {"start", "registerMap", "enter"},
            map : {<< >>} \cup [Server -> Nat]]
Op == RegisterOp \cup AgentOp

Player == [known : BOOLEAN, agent : Nat, callNumber : Int, isNew : BOOLEAN,
           told : Nat, asked : Nat, dated : Nat, failed : Nat]

Stage == {"check", "query", "getAgent", "calling"}
Issued == [pc : Stage, u : Uid, s : Server, agent : Nat, told : Nat]
CallState == [pc : {"none", "done"}] \cup Issued

GatewayTypeOK ==
    /\ ssq \in Seq(Op)
    /\ serverNameMap \in [Server -> Nat] /\ uidAgentMap \subseteq Uid
    /\ player \in [Uid -> [Server -> Player]]
    /\ newCS \in [Uid -> [Server -> Seq(Call)]]
    /\ call \in [Call -> CallState]
    /\ instance \in [Server -> Nat] /\ resolved \in [Server -> Nat]

\* The first operation of server_server has still to tell user u of server s.
Telling(u, s) ==
    /\ ssq # << >> /\ ssq[1].op = "register" /\ ssq[1].pc = "tell"
    /\ ssq[1].server = s /\ u \in ssq[1].left

\* Only the first operation is under way.  A user who is known, or about to be
\* entered, has been told of everything but what the first operation still tells.
Informed ==
    /\ \A i \in DOMAIN ssq : i # 1 => ssq[i].pc = "start"
    /\ \A u \in Uid, s \in Server : player[u][s].told <= serverNameMap[s]
    /\ \A u \in uidAgentMap, s \in Server :
          player[u][s].told = serverNameMap[s] \/ Telling(u, s)
    /\ ssq # << >> /\ ssq[1].pc = "registerMap" => ssq[1].map = serverNameMap
    /\ ssq # << >> /\ ssq[1].pc = "enter" =>
          \A s \in Server : player[ssq[1].uid][s].told = serverNameMap[s]

Querying(u, s) == \E c \in Call : call[c].pc = "query" /\ call[c].u = u /\ call[c].s = s

\* An agent that is not to be replaced was asked for after the last registration,
\* unless the question is about to be put; who takes over is first in newCS.
Fresh ==
    /\ \A u \in Uid, s \in Server :
          /\ player[u][s].asked <= player[u][s].told
          /\ player[u][s].isNew \/ player[u][s].asked = player[u][s].told \/ Querying(u, s)
    /\ \A c \in Call : call[c].pc \in {"check", "query", "getAgent", "calling"} =>
          call[c].told <= P(c).told
    /\ \A c \in Call : call[c].pc \in {"query", "getAgent"} => Holds(c)
    /\ \A c \in Call : call[c].pc \in {"getAgent", "calling"} => call[c].told <= P(c).asked

Asking(u, s) == \E c \in Call : call[c].pc = "getAgent" /\ call[c].u = u /\ call[c].s = s

\* The last question put for an agent gave the one in use, or failed, or has not
\* been answered yet.
Dated == \A u \in Uid, s \in Server :
    \/ player[u][s].asked = player[u][s].dated
    \/ player[u][s].asked = player[u][s].failed
    \/ Asking(u, s)

GatewayInv == GatewayTypeOK /\ Informed /\ Fresh /\ Dated

\* The operation that leaves the critical section of server_server is its first.
LEMMA LeaveFirst ==
    ASSUME NEW S, NEW q \in Seq(S), q # << >>
    PROVE  /\ Without(q, 1) \in Seq(S) /\ Len(q) \in Nat
           /\ DOMAIN q = 1 .. Len(q) /\ DOMAIN Without(q, 1) = 1 .. Len(q) - 1
           /\ \A i \in 1 .. Len(q) - 1 : Without(q, 1)[i] = q[i + 1]
<1>1. Len(q) \in Nat \ {0} /\ DOMAIN q = 1 .. Len(q) /\ \A i \in 1 .. Len(q) : q[i] \in S
  OBVIOUS
<1>2. SubSeq(q, 1, 0) = << >>
  BY <1>1
<1>3. /\ SubSeq(q, 2, Len(q)) \in Seq(S) /\ DOMAIN SubSeq(q, 2, Len(q)) = 1 .. Len(q) - 1
      /\ \A i \in 1 .. Len(q) - 1 : SubSeq(q, 2, Len(q))[i] = q[i + 1]
  BY <1>1
<1>4. Without(q, 1) = SubSeq(q, 2, Len(q))
  BY <1>2, <1>3 DEF Without
<1> QED
  BY <1>1, <1>3, <1>4, Zenon

\* A step of the operation that runs changes the first one of ssq only.
LEMMA UpdateFirst ==
    ASSUME NEW S, NEW q \in Seq(S), q # << >>, NEW x \in S
    PROVE  /\ [q EXCEPT ![1] = x] \in Seq(S) /\ [q EXCEPT ![1] = x] # << >>
           /\ DOMAIN [q EXCEPT ![1] = x] = DOMAIN q /\ 1 \in DOMAIN q
           /\ [q EXCEPT ![1] = x][1] = x
           /\ \A i \in DOMAIN q : i # 1 => [q EXCEPT ![1] = x][i] = q[i]
OBVIOUS

\* A package that arrives (dispatch.actionServerCS) queues behind the operations
\* that are there.
LEMMA AppendLast ==
    ASSUME NEW S, NEW q \in Seq(S), NEW x \in S
    PROVE  /\ Append(q, x) \in Seq(S) /\ Append(q, x) # << >>
           /\ q # << >> => Append(q, x)[1] = q[1] /\ Head(Append(q, x)) = Head(q)
           /\ \A i \in DOMAIN Append(q, x) :
                 (i \in DOMAIN q /\ Append(q, x)[i] = q[i]) \/ Append(q, x)[i] = x
           /\ q = << >> => Append(q, x)[1] = x
OBVIOUS

\* Only the first operation may run (MayRun).
LEMMA Running ==
    ASSUME GatewayTypeOK, NEW i \in DOMAIN ssq, MayRun(i)
    PROVE  i = 1 /\ ssq # << >> /\ ssq[1] \in Op
BY DEF MayRun, GatewayTypeOK


\* A step of server_server is a step of the first operation.
LEMMA Operations ==
    ASSUME GatewayTypeOK, server_server
    PROVE  /\ ssq # << >> /\ ssq[1] \in Op
           /\ register_start(1) \/ register_tell(1) \/ getAgent_start(1) \/ registerMap(1)
              \/ getAgent_enter(1)
<1>1. PICK i \in DOMAIN ssq : \/ register_start(i) \/ register_tell(i) \/ getAgent_start(i)
                              \/ registerMap(i) \/ getAgent_enter(i)
  BY Zenon DEF server_server
<1>2. MayRun(i)
  BY <1>1, Zenon DEF register_start, register_tell, getAgent_start, registerMap, getAgent_enter
<1>3. i = 1 /\ ssq # << >> /\ ssq[1] \in Op
  BY <1>2, Running
<1> QED
  BY <1>1, <1>3, Zenon

\* An operation that goes on: with the users to tell, with one of them told, with
\* the map to send, and with the map sent.
Tell(o, U) == [o EXCEPT !.pc = "tell", !.left = U]
Untell(o, u) == [o EXCEPT !.left = @ \ {u}]
Mapping(o, m) == [o EXCEPT !.pc = "registerMap", !.map = m]
Entering(o) == [o EXCEPT !.pc = "enter"]

\* register begins to tell the agents of the users it knows.
LEMMA Tells ==
    ASSUME NEW o \in RegisterOp, NEW U \in SUBSET Uid
    PROVE  /\ Tell(o, U) \in Op /\ Tell(o, U).op = "register" /\ Tell(o, U).pc = "tell"
           /\ Tell(o, U).left = U /\ Tell(o, U).server = o.server
<1>1. Tell(o, U) \in RegisterOp
  BY Zenon DEF RegisterOp, Tell
<1> QED
  BY <1>1, Zenon DEF RegisterOp, Op, Tell

\* An agent less has to be told.
LEMMA Untells ==
    ASSUME NEW o \in RegisterOp, NEW u
    PROVE  /\ Untell(o, u) \in Op /\ Untell(o, u).op = "register" /\ Untell(o, u).pc = o.pc
           /\ Untell(o, u).left = o.left \ {u} /\ Untell(o, u).server = o.server
<1>1. Untell(o, u) \in RegisterOp
  BY DEF RegisterOp, Untell
<1> QED
  BY <1>1, Zenon DEF RegisterOp, Op, Untell

\* getAgent takes the map of game servers along.
LEMMA Maps ==
    ASSUME NEW o \in AgentOp, NEW m \in [Server -> Nat]
    PROVE  /\ Mapping(o, m) \in Op /\ Mapping(o, m).pc = "registerMap"
           /\ Mapping(o, m).map = m /\ Mapping(o, m).uid = o.uid
<1>1. Mapping(o, m) \in AgentOp
  BY Zenon DEF AgentOp, Mapping
<1> QED
  BY <1>1, Zenon DEF AgentOp, Op, Mapping

\* registerMap has been answered, and the user is to be entered.
LEMMA Enters ==
    ASSUME NEW o \in AgentOp
    PROVE  /\ Entering(o) \in Op /\ Entering(o).pc = "enter" /\ Entering(o).uid = o.uid
<1>1. Entering(o) \in AgentOp
  BY DEF AgentOp, Entering
<1> QED
  BY <1>1, Zenon DEF AgentOp, Op, Entering

\* Two entries of a player agree on the questions put.
SameDates(p, r) == p.asked = r.asked /\ p.dated = r.dated /\ p.failed = r.failed

\* server_player's register marks the agent as one to be replaced.
LEMMA Registers ==
    ASSUME NEW p \in Player, NEW k \in Nat
    PROVE  /\ registered(p, k) \in Player /\ registered(p, k).isNew
           /\ registered(p, k).told = (IF k > p.told THEN k ELSE p.told)
           /\ SameDates(registered(p, k), p)
<1> DEFINE n == IF k > p.told THEN k ELSE p.told
<1>1. n \in Nat
  BY DEF Player
<1>2. registered(p, k) = [p EXCEPT !.known = TRUE, !.isNew = TRUE, !.told = n]
  BY Zenon DEF registered
<1> HIDE DEF n
<1>3. LET x == [p EXCEPT !.known = TRUE, !.isNew = TRUE, !.told = n]
      IN  x \in Player /\ x.isNew /\ x.told = n /\ SameDates(x, p)
  BY <1>1, Zenon DEF Player, SameDates
<1> QED
  BY <1>2, <1>3, Zenon DEF n

\* A take-over clears isNew and the count of calls, and nothing else.
LEMMA Takes ==
    ASSUME NEW p \in Player
    PROVE  taken(p) \in Player /\ taken(p).told = p.told /\ SameDates(taken(p), p)
<1> DEFINE z == 0
<1>1. z \in Int
  OBVIOUS
<1>2. taken(p) = [p EXCEPT !.isNew = FALSE, !.callNumber = z]
  BY Zenon DEF taken
<1> HIDE DEF z
<1>3. LET x == [p EXCEPT !.isNew = FALSE, !.callNumber = z]
      IN  x \in Player /\ x.told = p.told /\ SameDates(x, p)
  BY <1>1, Zenon DEF Player, SameDates
<1> QED
  BY <1>2, <1>3, Zenon

\* The entry of a player when the agent is asked for, when the question fails, and
\* when a call goes and returns.
Asked(p) == [p EXCEPT !.asked = p.told]
Failed(p) == [p EXCEPT !.failed = p.asked]
Sent(p) == [p EXCEPT !.callNumber = @ + 1]
Returned(p) == [p EXCEPT !.callNumber = @ - 1]

\* The question for the agent is put after all registrations told so far.
LEMMA Asks ==
    ASSUME NEW p \in Player
    PROVE  /\ Asked(p) \in Player /\ Asked(p).told = p.told /\ Asked(p).asked = p.told
           /\ Asked(p).isNew = p.isNew
BY DEF Player, Asked

\* A question that fails is dated, and the agent stays.
LEMMA Misses ==
    ASSUME NEW p \in Player
    PROVE  /\ Failed(p) \in Player /\ Failed(p).told = p.told /\ Failed(p).asked = p.asked
           /\ Failed(p).isNew = p.isNew /\ Failed(p).failed = p.asked
BY DEF Player, Failed

\* callServer counts a call that goes to the agent.
LEMMA Counts ==
    ASSUME NEW p \in Player
    PROVE  /\ Sent(p) \in Player /\ Sent(p).told = p.told /\ Sent(p).isNew = p.isNew
           /\ SameDates(Sent(p), p)
BY DEF Player, Sent, SameDates

\* callServer discounts a call that returned.
LEMMA Discounts ==
    ASSUME NEW p \in Player
    PROVE  /\ Returned(p) \in Player /\ Returned(p).told = p.told
           /\ Returned(p).isNew = p.isNew /\ SameDates(Returned(p), p)
BY DEF Player, Returned, SameDates

\* The answer gives the agent, with the date of its question, and nothing else.
LEMMA Replaces ==
    ASSUME NEW p \in Player, NEW a \in Nat
    PROVE  LET x == [p EXCEPT !.agent = a, !.dated = p.asked]
           IN  /\ x \in Player /\ x.told = p.told /\ x.asked = p.asked /\ x.isNew = p.isNew
               /\ x.dated = p.asked
<1>1. p.asked \in Nat
  BY DEF Player
<1> QED
  BY <1>1, Zenon DEF Player

\* A call at its next stage, and with the agent it was given.
Later(k, l) == [k EXCEPT !.pc = l]
With(k, l, a) == [k EXCEPT !.pc = l, !.agent = a]

\* A call proceeds; whose it is, and to which server, stays.
LEMMA Proceeds ==
    ASSUME NEW k \in Issued, NEW l \in Stage
    PROVE  /\ Later(k, l) \in Issued /\ Later(k, l).pc = l /\ Later(k, l).u = k.u
           /\ Later(k, l).s = k.s /\ Later(k, l).told = k.told
BY DEF Issued, Later

\* So does a call that is given an agent.
LEMMA ProceedsWith ==
    \A k \in Issued, l \in Stage, a \in Nat :
        /\ With(k, l, a) \in Issued /\ With(k, l, a).pc = l /\ With(k, l, a).u = k.u
        /\ With(k, l, a).s = k.s /\ With(k, l, a).told = k.told
BY Zenon DEF Issued, With

\* What a step of call c does: c becomes k, and the entry of its user and server p.
Ended == [pc |-> "done"]
CallStep(c, k, p) ==
    /\ call[c] \in Issued
    /\ k.pc # "done" => k.u = call[c].u /\ k.s = call[c].s /\ k.told = call[c].told
    /\ call' = [call EXCEPT ![c] = k] /\ Becomes(c, p) /\ p.told = P(c).told
    /\ \/ /\ call[c].pc = "check" /\ Holds(c) /\ ~P(c).isNew /\ leave_newCS(c)
          /\ k.pc = "calling" /\ SameDates(p, P(c)) /\ p.isNew = P(c).isNew
       \/ /\ call[c].pc = "check" /\ Holds(c) /\ newCS' = newCS
          /\ k.pc = "query" /\ SameDates(p, P(c))
       \/ /\ call[c].pc = "query" /\ newCS' = newCS
          /\ k.pc = "getAgent" /\ p.asked = P(c).told /\ p.isNew = P(c).isNew
       \/ /\ call[c].pc = "getAgent" /\ leave_newCS(c)
          /\ k.pc \in {"calling", "done"} /\ p.asked = P(c).asked /\ p.isNew = P(c).isNew
          /\ p.dated = P(c).asked \/ (k.pc = "done" /\ p.failed = P(c).asked)
       \/ /\ call[c].pc = "calling" /\ newCS' = newCS
          /\ k.pc = "done" /\ SameDates(p, P(c)) /\ p.isNew = P(c).isNew
    /\ UNCHANGED <<svars, instance, resolved>>

\* A call that is being made names its user and its server.
LEMMA CallIssued ==
    ASSUME GatewayTypeOK, NEW c \in Call, call[c].pc \notin {"none", "done"}
    PROVE  /\ call[c] \in Issued /\ call[c].u \in Uid /\ call[c].s \in Server
           /\ call[c].agent \in Nat /\ P(c) \in Player
<1>1. call[c] \in [pc : {"none", "done"}] \cup Issued
  BY DEF GatewayTypeOK, CallState
<1>2. call[c] \in Issued
  BY <1>1
<1>3. call[c].u \in Uid /\ call[c].s \in Server /\ call[c].agent \in Nat
  BY <1>2 DEF Issued
<1>4. P(c) \in Player
  BY <1>3, ZenonT(60) DEF P, GatewayTypeOK
<1> QED
  BY <1>2, <1>3, <1>4, Zenon

\* Every step of server_player is one of those CallStep lists.
LEMMA CallEffect ==
    ASSUME GatewayTypeOK, NEW c \in Call, server_player(c)
    PROVE  \E k \in CallState, p \in Player : CallStep(c, k, p)
<1> USE Zenon
<1>1. call[c].pc \in {"check", "query", "getAgent", "calling"}
  BY DEF server_player, checkAgent_known, checkAgent_drained, checkAgent_forced, queryname,
         getAgent, getAgent_fails, returns, fails
<1>2. /\ call[c] \in Issued /\ call[c].u \in Uid /\ call[c].s \in Server
      /\ call[c].agent \in Nat /\ P(c) \in Player
  BY <1>1, CallIssued
<1>3. /\ "query" \in Stage /\ "getAgent" \in Stage /\ "calling" \in Stage
      /\ Issued \subseteq CallState /\ Ended \in CallState /\ Ended.pc = "done"
  BY DEF Stage, CallState, Ended
<1>4. CASE checkAgent_known(c)
  <2> DEFINE p == Sent(P(c))
             k == With(call[c], "calling", P(c).agent)
  <2>1. P(c).agent \in Nat
    BY <1>2, SMT DEF Player
  <2>2. p \in Player /\ p.told = P(c).told /\ SameDates(p, P(c)) /\ p.isNew = P(c).isNew
    BY <1>2, Counts
  <2>3. /\ k \in Issued /\ k.pc = "calling" /\ k.u = call[c].u /\ k.s = call[c].s
        /\ k.told = call[c].told
    <3>1. call[c] \in Issued /\ "calling" \in Stage /\ P(c).agent \in Nat
      BY <1>2, <1>3, <2>1
    <3> QED
      BY <3>1, ProceedsWith, ZenonT(60)
  <2>4. /\ call[c].pc = "check" /\ Holds(c) /\ ~P(c).isNew /\ leave_newCS(c) /\ Becomes(c, p)
        /\ call' = [call EXCEPT ![c] = k] /\ UNCHANGED <<svars, instance, resolved>>
    BY <1>4 DEF checkAgent_known, Issue, With, Sent
  <2> HIDE DEF p, k
  <2> QED
    BY <1>2, <1>3, <2>2, <2>3, <2>4 DEF CallStep
<1>5. CASE checkAgent_drained(c) \/ checkAgent_forced(c)
  <2> DEFINE p == taken(P(c))
             k == Later(call[c], "query")
  <2>1. p \in Player /\ p.told = P(c).told /\ SameDates(p, P(c))
    BY <1>2, Takes
  <2>2. /\ k \in Issued /\ k.pc = "query" /\ k.u = call[c].u /\ k.s = call[c].s
        /\ k.told = call[c].told
    BY <1>2, <1>3, Proceeds
  <2>3. /\ call[c].pc = "check" /\ Holds(c) /\ newCS' = newCS /\ Becomes(c, p)
        /\ call' = [call EXCEPT ![c] = k] /\ UNCHANGED <<svars, instance, resolved>>
    BY <1>5 DEF checkAgent_drained, checkAgent_forced, Later
  <2> HIDE DEF p, k
  <2> QED
    BY <1>2, <1>3, <2>1, <2>2, <2>3 DEF CallStep
<1>6. CASE queryname(c)
  <2> DEFINE p == Asked(P(c))
             k == With(call[c], "getAgent", resolved[call[c].s])
  <2>1. resolved[call[c].s] \in Nat
    BY <1>2 DEF GatewayTypeOK
  <2>2. p \in Player /\ p.told = P(c).told /\ p.asked = P(c).told /\ p.isNew = P(c).isNew
    BY <1>2, Asks
  <2>3. /\ k \in Issued /\ k.pc = "getAgent" /\ k.u = call[c].u /\ k.s = call[c].s
        /\ k.told = call[c].told
    <3>1. call[c] \in Issued /\ "getAgent" \in Stage /\ resolved[call[c].s] \in Nat
      BY <1>2, <1>3, <2>1
    <3> QED
      BY <3>1, ProceedsWith, ZenonT(60)
  <2>4. /\ call[c].pc = "query" /\ newCS' = newCS /\ Becomes(c, p)
        /\ call' = [call EXCEPT ![c] = k] /\ UNCHANGED <<svars, instance, resolved>>
    BY <1>6 DEF queryname, With, Asked
  <2> HIDE DEF p, k
  <2> QED
    BY <1>2, <1>3, <2>2, <2>3, <2>4 DEF CallStep
<1>7. CASE getAgent(c)
  <2> DEFINE q == answered(P(c), c)
             p == Sent(q)
             k == With(call[c], "calling", q.agent)
  <2>1. /\ q \in Player /\ q.told = P(c).told /\ q.asked = P(c).asked /\ q.isNew = P(c).isNew
        /\ q.dated = P(c).asked
    BY <1>2, Replaces DEF answered
  <2>2. /\ call[c].pc = "getAgent" /\ leave_newCS(c) /\ Becomes(c, p)
        /\ call' = [call EXCEPT ![c] = k] /\ UNCHANGED <<svars, instance, resolved>>
    BY <1>7 DEF getAgent, Issue, With, Sent
  <2> HIDE DEF q
  <2>3. q.agent \in Nat
    BY <2>1, SMT DEF Player
  <2>4. /\ p \in Player /\ p.told = q.told /\ p.asked = q.asked /\ p.isNew = q.isNew
        /\ p.dated = q.dated
    BY <2>1, Counts DEF SameDates
  <2>5. /\ k \in Issued /\ k.pc = "calling" /\ k.u = call[c].u /\ k.s = call[c].s
        /\ k.told = call[c].told
    <3>1. call[c] \in Issued /\ "calling" \in Stage /\ q.agent \in Nat
      BY <1>2, <1>3, <2>3
    <3> QED
      BY <3>1, ProceedsWith, ZenonT(60)
  <2> HIDE DEF p, k
  <2> QED
    BY <1>2, <1>3, <2>1, <2>2, <2>4, <2>5 DEF CallStep
<1>8. player' = player => Becomes(c, P(c))
  BY <1>2 DEF Becomes, P, GatewayTypeOK
<1>9. CASE getAgent_fails(c)
  <2> DEFINE p == Failed(P(c))
  <2>1. /\ p \in Player /\ p.told = P(c).told /\ p.asked = P(c).asked /\ p.isNew = P(c).isNew
        /\ p.failed = P(c).asked
    BY <1>2, Misses
  <2>2. /\ call[c].pc = "getAgent" /\ leave_newCS(c) /\ Becomes(c, p)
        /\ call' = [call EXCEPT ![c] = Ended] /\ UNCHANGED <<svars, instance, resolved>>
    BY <1>9 DEF getAgent_fails, Ended, Failed
  <2> HIDE DEF p
  <2> QED
    BY <1>2, <1>3, <2>1, <2>2 DEF CallStep
<1>10. CASE returns(c) \/ fails(c)
  <2> DEFINE p == IF returns(c) THEN Returned(P(c)) ELSE P(c)
  <2>1. p \in Player /\ p.told = P(c).told /\ SameDates(p, P(c)) /\ p.isNew = P(c).isNew
    BY <1>2, Discounts DEF SameDates
  <2>2. /\ call[c].pc = "calling" /\ newCS' = newCS
        /\ call' = [call EXCEPT ![c] = Ended] /\ UNCHANGED <<svars, instance, resolved>>
    BY <1>10 DEF returns, fails, Ended
  <2>3. Becomes(c, p)
    <3>1. returns(c) => Becomes(c, Returned(P(c)))
      BY DEF returns, Returned
    <3>2. ~returns(c) => player' = player
      BY <1>10 DEF fails
    <3> QED
      BY <1>8, <3>1, <3>2
  <2> HIDE DEF p
  <2> QED
    BY <1>2, <1>3, <2>1, <2>2, <2>3 DEF CallStep
<1> QED
  BY <1>4, <1>5, <1>6, <1>7, <1>9, <1>10 DEF server_player

\* The entries after an operation of server_server: told of more, or as before.
Advised ==
    /\ \A u \in Uid, s \in Server :
          \/ player'[u][s] = player[u][s]
          \/ /\ player'[u][s] \in Player /\ player'[u][s].isNew
             /\ SameDates(player'[u][s], player[u][s])
             /\ player[u][s].told <= player'[u][s].told
    /\ player' \in [Uid -> [Server -> Player]]
    /\ UNCHANGED <<newCS, call, instance, resolved>>

\* The first operation of ssq goes on as x, or leaves.
GoesOn(x) == /\ ssq' \in Seq(Op) /\ ssq' # << >> /\ ssq'[1] = x /\ DOMAIN ssq' = DOMAIN ssq
             /\ \A i \in DOMAIN ssq : i # 1 => ssq'[i] = ssq[i]
Left == /\ ssq' \in Seq(Op)
        /\ \A i \in DOMAIN ssq' : \E j \in DOMAIN ssq : j # 1 /\ ssq'[i] = ssq[j]

\* The operation that leaves is the first one; the others move up.
LEMMA LeaveLeft == ASSUME GatewayTypeOK, ssq # << >>, Leave(1) PROVE Left
<1>1. ssq \in Seq(Op) /\ ssq' = Without(ssq, 1)
  BY Zenon DEF GatewayTypeOK, Leave
<1>2. /\ ssq' \in Seq(Op) /\ Len(ssq) \in Nat
      /\ DOMAIN ssq = 1 .. Len(ssq) /\ DOMAIN ssq' = 1 .. Len(ssq) - 1
      /\ \A i \in 1 .. Len(ssq) - 1 : ssq'[i] = ssq[i + 1]
  BY <1>1, LeaveFirst, Zenon
<1>3. \A i \in DOMAIN ssq' : i + 1 \in DOMAIN ssq /\ i + 1 # 1 /\ ssq'[i] = ssq[i + 1]
  BY <1>2
<1> QED
  BY <1>2, <1>3, Zenon DEF Left

\* The operation that goes on is the first one; the others stay.
LEMMA UpdateGoesOn ==
    ASSUME GatewayTypeOK, ssq # << >>, NEW x \in Op, ssq' = [ssq EXCEPT ![1] = x]
    PROVE  GoesOn(x)
<1>1. ssq \in Seq(Op)
  BY DEF GatewayTypeOK
<1> QED
  BY <1>1, UpdateFirst, Zenon DEF GoesOn

\* What the operations of server_server do.
LEMMA RegisterStartEffect ==
    ASSUME GatewayTypeOK, ssq # << >>, ssq[1] \in Op, register_start(1)
    PROVE  /\ ssq[1] \in RegisterOp /\ ssq[1].pc = "start" /\ ssq[1].server \in Server
           /\ GoesOn(Tell(ssq[1], uidAgentMap))
           /\ serverNameMap' = [serverNameMap EXCEPT ![ssq[1].server] = @ + 1]
           /\ UNCHANGED <<uidAgentMap, player>> /\ Advised
<1>1. /\ ssq[1].op = "register" /\ ssq[1].pc = "start"
      /\ ssq' = [ssq EXCEPT ![1] = Tell(ssq[1], uidAgentMap)]
      /\ serverNameMap' = [serverNameMap EXCEPT ![ssq[1].server] = @ + 1]
      /\ UNCHANGED <<uidAgentMap, player, newCS, call, instance, resolved>>
  BY Zenon DEF register_start, Tell, pvars
<1>2. ssq[1] \in RegisterOp
  BY <1>1 DEF Op, RegisterOp, AgentOp
<1>3. ssq[1].server \in Server
  BY <1>2 DEF RegisterOp
<1>4. Tell(ssq[1], uidAgentMap) \in Op
  BY <1>2, Tells, Zenon DEF GatewayTypeOK
<1>5. GoesOn(Tell(ssq[1], uidAgentMap))
  BY <1>1, <1>4, UpdateGoesOn, Zenon
<1>6. Advised
  BY <1>1, Zenon DEF Advised, GatewayTypeOK
<1> QED
  BY <1>1, <1>2, <1>3, <1>5, <1>6, Zenon

\* register tells one more agent, or has told them all and leaves.
LEMMA RegisterTellEffect ==
    ASSUME GatewayTypeOK, ssq # << >>, ssq[1] \in Op, register_tell(1)
    PROVE  /\ ssq[1] \in RegisterOp /\ ssq[1].pc = "tell" /\ ssq[1].server \in Server
           /\ \/ \E u \in ssq[1].left :
                    /\ u \in Uid /\ GoesOn(Untell(ssq[1], u))
                    /\ \A v \in Uid, t \in Server : player'[v][t] =
                          IF v = u /\ t = ssq[1].server
                             THEN registered(player[v][t], serverNameMap[t]) ELSE player[v][t]
              \/ ssq[1].left = {} /\ Left /\ player' = player
           /\ UNCHANGED <<serverNameMap, uidAgentMap>> /\ Advised
<1>1. /\ ssq[1].op = "register" /\ ssq[1].pc = "tell"
      /\ UNCHANGED <<serverNameMap, uidAgentMap, newCS, call, instance, resolved>>
  BY Zenon DEF register_tell
<1>2. ssq[1] \in RegisterOp
  BY <1>1 DEF Op, RegisterOp, AgentOp
<1>3. ssq[1].server \in Server /\ ssq[1].left \subseteq Uid
  BY <1>2 DEF RegisterOp
<1>4. CASE ssq[1].left = {} /\ Leave(1) /\ UNCHANGED player
  BY <1>1, <1>2, <1>3, <1>4, LeaveLeft, Zenon DEF Advised, GatewayTypeOK
<1>5. ASSUME NEW u \in ssq[1].left,
             player' = [player EXCEPT ![u][ssq[1].server] =
                           registered(@, serverNameMap[ssq[1].server])],
             ssq' = [ssq EXCEPT ![1] = Untell(ssq[1], u)]
      PROVE  /\ u \in Uid /\ GoesOn(Untell(ssq[1], u)) /\ Advised
             /\ \A v \in Uid, t \in Server : player'[v][t] =
                   IF v = u /\ t = ssq[1].server
                      THEN registered(player[v][t], serverNameMap[t]) ELSE player[v][t]
  <2> DEFINE s == ssq[1].server
             p == player[u][s]
             k == serverNameMap[s]
  <2>1. u \in Uid /\ s \in Server /\ p \in Player /\ k \in Nat
    BY <1>3, Zenon DEF GatewayTypeOK
  <2>2. GoesOn(Untell(ssq[1], u))
    BY <1>2, <1>5, Untells, UpdateGoesOn, Zenon
  <2>3. /\ registered(p, k) \in Player /\ registered(p, k).isNew
        /\ registered(p, k).told = (IF k > p.told THEN k ELSE p.told)
        /\ SameDates(registered(p, k), p)
    BY <2>1, Registers, Zenon
  <2>4. p.told \in Nat
    BY <2>1 DEF Player
  <2>5. p.told <= registered(p, k).told
    BY <2>1, <2>3, <2>4
  <2>6. player' = [player EXCEPT ![u] = [player[u] EXCEPT ![s] = registered(p, k)]]
    BY <1>5, Zenon
  <2>7. player \in [Uid -> [Server -> Player]]
    BY Zenon DEF GatewayTypeOK
  <2> HIDE DEF s, p, k
  <2>8. /\ player' \in [Uid -> [Server -> Player]]
        /\ \A v \in Uid, t \in Server : player'[v][t] =
              IF v = u /\ t = s THEN registered(p, k) ELSE player[v][t]
    BY <2>1, <2>3, <2>6, <2>7, Zenon
  <2>9. Advised
    BY <1>1, <2>1, <2>3, <2>5, <2>8, Zenon DEF Advised, p
  <2> QED
    BY <2>1, <2>2, <2>8, <2>9, Zenon DEF s, p, k
<1>6. \/ ssq[1].left = {} /\ Leave(1) /\ UNCHANGED player
      \/ \E u \in ssq[1].left :
            /\ player' = [player EXCEPT ![u][ssq[1].server] =
                             registered(@, serverNameMap[ssq[1].server])]
            /\ ssq' = [ssq EXCEPT ![1] = Untell(ssq[1], u)]
  BY Zenon DEF register_tell, Untell
<1> QED
  BY <1>1, <1>2, <1>3, <1>4, <1>5, <1>6, Zenon

\* getAgent finds the user, or takes the map of the game servers along.
LEMMA GetAgentStartEffect ==
    ASSUME GatewayTypeOK, ssq # << >>, ssq[1] \in Op, getAgent_start(1)
    PROVE  /\ ssq[1] \in AgentOp /\ ssq[1].pc = "start"
           /\ Left \/ GoesOn(Mapping(ssq[1], serverNameMap))
           /\ UNCHANGED <<serverNameMap, uidAgentMap, player>> /\ Advised
<1>1. /\ ssq[1].op = "getAgent" /\ ssq[1].pc = "start"
      /\ Leave(1) \/ ssq' = [ssq EXCEPT ![1] = Mapping(ssq[1], serverNameMap)]
      /\ UNCHANGED <<serverNameMap, uidAgentMap, player, newCS, call, instance, resolved>>
  BY Zenon DEF getAgent_start, Mapping, pvars
<1>2. ssq[1] \in AgentOp
  BY <1>1 DEF Op, RegisterOp, AgentOp
<1>3. Mapping(ssq[1], serverNameMap) \in Op
  BY <1>2, Maps, Zenon DEF GatewayTypeOK
<1>4. Left \/ GoesOn(Mapping(ssq[1], serverNameMap))
  BY <1>1, <1>3, LeaveLeft, UpdateGoesOn, Zenon
<1>5. Advised
  BY <1>1, Zenon DEF Advised, GatewayTypeOK
<1> QED
  BY <1>1, <1>2, <1>4, <1>5, Zenon

\* registerMap tells the new agent of every game server that registered.
LEMMA RegisterMapEffect ==
    ASSUME GatewayTypeOK, ssq # << >>, ssq[1] \in Op, registerMap(1), ssq[1].map = serverNameMap
    PROVE  /\ ssq[1] \in AgentOp /\ ssq[1].pc = "registerMap" /\ ssq[1].uid \in Uid
           /\ GoesOn(Entering(ssq[1]))
           /\ \A v \in Uid, t \in Server : player'[v][t] =
                 IF v = ssq[1].uid /\ serverNameMap[t] > 0
                    THEN registered(player[v][t], serverNameMap[t]) ELSE player[v][t]
           /\ UNCHANGED <<serverNameMap, uidAgentMap>> /\ Advised
<1> DEFINE w == ssq[1].uid
           m == [s \in Server |-> IF serverNameMap[s] > 0
                    THEN registered(player[w][s], serverNameMap[s]) ELSE player[w][s]]
<1>1. /\ ssq[1].op = "getAgent" /\ ssq[1].pc = "registerMap"
      /\ ssq' = [ssq EXCEPT ![1] = Entering(ssq[1])]
      /\ player' = [player EXCEPT ![w] = m]
      /\ UNCHANGED <<serverNameMap, uidAgentMap, newCS, call, instance, resolved>>
  BY Zenon DEF registerMap, Entering
<1>2. ssq[1] \in AgentOp
  BY <1>1 DEF Op, RegisterOp, AgentOp
<1>3. w \in Uid
  BY <1>2 DEF AgentOp
<1>4. GoesOn(Entering(ssq[1]))
  BY <1>1, <1>2, Enters, UpdateGoesOn, Zenon
<1>5. player \in [Uid -> [Server -> Player]] /\ serverNameMap \in [Server -> Nat]
  BY Zenon DEF GatewayTypeOK
<1>6. ASSUME NEW t \in Server
      PROVE  /\ m[t] \in Player
             /\ \/ m[t] = player[w][t]
                \/ /\ m[t].isNew /\ SameDates(m[t], player[w][t])
                   /\ player[w][t].told <= m[t].told
  <2> DEFINE p == player[w][t]
             k == serverNameMap[t]
  <2>1. p \in Player /\ k \in Nat
    BY <1>3, <1>5, Zenon
  <2>2. m[t] = IF k > 0 THEN registered(p, k) ELSE p
    BY Zenon
  <2> HIDE DEF m, p, k
  <2>3. /\ registered(p, k) \in Player /\ registered(p, k).isNew
        /\ registered(p, k).told = (IF k > p.told THEN k ELSE p.told)
        /\ SameDates(registered(p, k), p)
    BY <2>1, Registers, Zenon
  <2>4. p.told \in Nat
    BY <2>1 DEF Player
  <2>5. p.told <= registered(p, k).told
    BY <2>1, <2>3, <2>4
  <2>6. CASE k > 0
    <3>1. m[t] = registered(p, k)
      BY <2>2, <2>6, Zenon
    <3> QED
      BY <2>3, <2>5, <3>1, Zenon DEF p
  <2>7. CASE ~(k > 0)
    <3>1. m[t] = p
      BY <2>2, <2>7, Zenon
    <3> QED
      BY <2>1, <3>1, Zenon DEF p
  <2> QED
    BY <2>6, <2>7, Zenon
<1>7. \A v \in Uid, t \in Server : player'[v][t] = IF v = w THEN m[t] ELSE player[v][t]
  <2> HIDE DEF m, w
  <2> QED
    BY <1>1, <1>3, <1>5, Zenon
<1>8. m \in [Server -> Player]
  BY <1>6, Zenon
<1>9. player' \in [Uid -> [Server -> Player]]
  <2> HIDE DEF m, w
  <2> QED
    BY <1>1, <1>3, <1>5, <1>8, Zenon
<1>10. Advised
  <2> HIDE DEF m, w
  <2> QED
    BY <1>1, <1>3, <1>6, <1>7, <1>9, Zenon DEF Advised
<1>11. ASSUME NEW v \in Uid, NEW t \in Server
       PROVE  player'[v][t] = IF v = ssq[1].uid /\ serverNameMap[t] > 0
                    THEN registered(player[v][t], serverNameMap[t]) ELSE player[v][t]
  <2>1. m[t] = IF serverNameMap[t] > 0
                  THEN registered(player[w][t], serverNameMap[t]) ELSE player[w][t]
    BY Zenon
  <2>2. player'[v][t] = IF v = w THEN m[t] ELSE player[v][t]
    BY <1>7
  <2> HIDE DEF m
  <2> QED
    BY <2>1, <2>2, Zenon
<1> HIDE DEF m
<1> QED
  BY <1>1, <1>2, <1>3, <1>4, <1>10, <1>11, Zenon

\* The user is entered in uidAgentMap, and the operation leaves.
LEMMA EnterEffect ==
    ASSUME GatewayTypeOK, ssq # << >>, ssq[1] \in Op, getAgent_enter(1)
    PROVE  /\ ssq[1] \in AgentOp /\ ssq[1].pc = "enter" /\ ssq[1].uid \in Uid
           /\ Left /\ uidAgentMap' = uidAgentMap \cup {ssq[1].uid}
           /\ UNCHANGED <<serverNameMap, player>> /\ Advised
<1>1. /\ ssq[1].op = "getAgent" /\ ssq[1].pc = "enter" /\ Leave(1)
      /\ uidAgentMap' = uidAgentMap \cup {ssq[1].uid}
      /\ UNCHANGED <<serverNameMap, player, newCS, call, instance, resolved>>
  BY Zenon DEF getAgent_enter, pvars
<1>2. ssq[1] \in AgentOp
  BY <1>1 DEF Op, RegisterOp, AgentOp
<1>3. ssq[1].uid \in Uid
  BY <1>2 DEF AgentOp
<1>4. Advised
  BY <1>1, Zenon DEF Advised, GatewayTypeOK
<1> QED
  BY <1>1, <1>2, <1>3, <1>4, LeaveLeft, Zenon

\* A new call becomes k: it fails at once, or waits for newCS.
NewCall(c, u, s, k) ==
    /\ k \in CallState
    /\ call[c].pc = "none" /\ call' = [call EXCEPT ![c] = k]
    /\ \/ /\ k \in Issued /\ k.pc = "check" /\ k.u = u /\ k.s = s
          /\ k.told = player[u][s].told
          /\ newCS' = [newCS EXCEPT ![u][s] = Append(@, c)]
       \/ k.pc = "done" /\ newCS' = newCS
    /\ UNCHANGED <<svars, player, instance, resolved>>

\* doCall makes a new call.
LEMMA DoCallEffect ==
    ASSUME GatewayTypeOK, NEW c \in Call, NEW u \in Uid, NEW s \in Server, doCall(c, u, s)
    PROVE  \E k : NewCall(c, u, s, k)
<1>1. CASE player[u][s].known
  <2> DEFINE n == player[u][s].told
             k == [pc |-> "check", u |-> u, s |-> s, agent |-> 0, told |-> n]
  <2>1. player[u][s] \in Player
    BY Zenon DEF GatewayTypeOK
  <2>2. n \in Nat
    BY <2>1 DEF Player
  <2>3. /\ call[c].pc = "none" /\ call' = [call EXCEPT ![c] = k]
        /\ newCS' = [newCS EXCEPT ![u][s] = Append(@, c)]
        /\ UNCHANGED <<svars, player, instance, resolved>>
    BY <1>1, Zenon DEF doCall
  <2> HIDE DEF n
  <2>4. k \in Issued /\ k.pc = "check" /\ k.u = u /\ k.s = s /\ k.told = n
    BY <2>2 DEF Issued, Stage
  <2> HIDE DEF k
  <2> QED
    BY <2>3, <2>4, Zenon DEF n, NewCall, CallState
<1>2. CASE ~player[u][s].known
  <2>1. /\ call[c].pc = "none" /\ call' = [call EXCEPT ![c] = Ended] /\ newCS' = newCS
        /\ UNCHANGED <<svars, player, instance, resolved>>
    BY <1>2, Zenon DEF doCall, Ended
  <2>2. Ended \in CallState /\ Ended.pc = "done"
    BY DEF Ended, CallState
  <2> QED
    BY <2>1, <2>2, Zenon DEF NewCall
<1> QED
  BY <1>1, <1>2, Zenon

\* An operation that arrives at an idle server_server is the first one.
LEMMA AppendOp ==
    ASSUME GatewayTypeOK, NEW x \in Op, ssq' = Append(ssq, x)
    PROVE  /\ ssq' \in Seq(Op) /\ ssq' # << >> /\ (ssq # << >> => ssq'[1] = ssq[1])
           /\ (ssq = << >> => ssq'[1] = x)
           /\ \A i \in DOMAIN ssq' : (i \in DOMAIN ssq /\ ssq'[i] = ssq[i]) \/ ssq'[i] = x
<1>1. ssq \in Seq(Op)
  BY Zenon DEF GatewayTypeOK
<1>2. /\ Append(ssq, x) \in Seq(Op) /\ Append(ssq, x) # << >>
      /\ (ssq # << >> => Append(ssq, x)[1] = ssq[1])
      /\ (ssq = << >> => Append(ssq, x)[1] = x)
      /\ \A i \in DOMAIN Append(ssq, x) :
            (i \in DOMAIN ssq /\ Append(ssq, x)[i] = ssq[i]) \/ Append(ssq, x)[i] = x
  BY <1>1, AppendLast
<1> QED
  BY <1>2, Zenon

\* start_server and ask_agent.
LEMMA ArrivalEffect ==
    ASSUME GatewayTypeOK,
           (\E s \in Server : start_server(s)) \/ (\E u \in Uid : ask_agent(u))
    PROVE  /\ \E x \in Op : ssq' = Append(ssq, x) /\ x.pc = "start"
           /\ UNCHANGED <<serverNameMap, uidAgentMap, pvars, resolved>>
           /\ instance' \in [Server -> Nat]
<1>1. ASSUME NEW s \in Server, start_server(s)
      PROVE  /\ \E x \in Op : ssq' = Append(ssq, x) /\ x.pc = "start"
             /\ UNCHANGED <<serverNameMap, uidAgentMap, pvars, resolved>>
             /\ instance' \in [Server -> Nat]
  <2> DEFINE x == [op |-> "register", server |-> s, pc |-> "start", left |-> {}]
  <2>1. x \in Op /\ x.pc = "start"
    BY DEF Op, RegisterOp
  <2>2. /\ ssq' = Append(ssq, x) /\ UNCHANGED <<serverNameMap, uidAgentMap, pvars, resolved>>
        /\ instance' = [instance EXCEPT ![s] = @ + 1]
    BY <1>1, Zenon DEF start_server
  <2>3. instance' \in [Server -> Nat]
    BY <2>2 DEF GatewayTypeOK
  <2> QED
    BY <2>1, <2>2, <2>3, Zenon
<1>2. ASSUME NEW u \in Uid, ask_agent(u)
      PROVE  /\ \E x \in Op : ssq' = Append(ssq, x) /\ x.pc = "start"
             /\ UNCHANGED <<serverNameMap, uidAgentMap, pvars, resolved>>
             /\ instance' \in [Server -> Nat]
  <2> DEFINE x == [op |-> "getAgent", uid |-> u, pc |-> "start", map |-> << >>]
  <2>1. x \in Op /\ x.pc = "start"
    BY Zenon DEF Op, AgentOp
  <2>2. /\ ssq' = Append(ssq, x)
        /\ UNCHANGED <<serverNameMap, uidAgentMap, pvars, instance, resolved>>
    BY <1>2, Zenon DEF ask_agent
  <2> QED
    BY <2>1, <2>2, Zenon DEF GatewayTypeOK
<1> QED
  BY <1>1, <1>2, Zenon

\* The kinds of steps.
GatewaySteps ==
    \/ server_server
    \/ (\E s \in Server : start_server(s)) \/ (\E u \in Uid : ask_agent(u))
    \/ \E s \in Server : name_arrives(s)
    \/ \E c \in Call, k \in CallState, p \in Player : CallStep(c, k, p)
    \/ \E c \in Call, u \in Uid, s \in Server : doCall(c, u, s)

\* The steps of the gateway, by what they do to its state.
LEMMA GatewayCases == ASSUME GatewayTypeOK, Next PROVE GatewaySteps
<1>1. \A c \in Call : server_player(c) => \E k \in CallState, p \in Player : CallStep(c, k, p)
  BY CallEffect, Zenon
<1> QED
  BY <1>1, Zenon DEF Next, GatewaySteps

\* A step of call c, seen entry by entry.
LEMMA CallStepEffect ==
    ASSUME GatewayTypeOK, NEW c \in Call, NEW k \in CallState, NEW p \in Player, CallStep(c, k, p)
    PROVE  /\ call[c].u \in Uid /\ call[c].s \in Server
           /\ \A d \in Call : call'[d] = IF d = c THEN k ELSE call[d]
           /\ \A u \in Uid, s \in Server : player'[u][s] =
                 IF u = call[c].u /\ s = call[c].s THEN p ELSE player[u][s]
           /\ call' \in [Call -> CallState]
           /\ player' \in [Uid -> [Server -> Player]]
           /\ UNCHANGED <<ssq, serverNameMap, uidAgentMap, instance, resolved>>
<1>1. /\ call[c] \in Issued /\ call' = [call EXCEPT ![c] = k]
      /\ player' = [player EXCEPT ![call[c].u][call[c].s] = p]
      /\ UNCHANGED <<ssq, serverNameMap, uidAgentMap, instance, resolved>>
  BY Zenon DEF CallStep, Becomes, svars
<1>2. call[c].u \in Uid /\ call[c].s \in Server
  BY <1>1 DEF Issued
<1>3. /\ call \in [Call -> CallState]
      /\ player \in [Uid -> [Server -> Player]]
  BY Zenon DEF GatewayTypeOK
<1>4. call' \in [Call -> CallState] /\ \A d \in Call : call'[d] = IF d = c THEN k ELSE call[d]
  BY <1>1, <1>3, Zenon
<1>5. /\ player' \in [Uid -> [Server -> Player]]
      /\ \A u \in Uid, s \in Server : player'[u][s] =
            IF u = call[c].u /\ s = call[c].s THEN p ELSE player[u][s]
  BY <1>1, <1>2, <1>3, Zenon
<1> QED
  BY <1>1, <1>2, <1>4, <1>5, Zenon

\* What waits for newCS stays a queue of calls.
LEMMA NewSection ==
    ASSUME GatewayTypeOK, NEW c \in Call, NEW u \in Uid, NEW s \in Server
    PROVE  /\ [newCS EXCEPT ![u][s] = Append(@, c)] \in [Uid -> [Server -> Seq(Call)]]
           /\ newCS[u][s] # << >> =>
                 [newCS EXCEPT ![u][s] = Tail(@)] \in [Uid -> [Server -> Seq(Call)]]
<1>1. newCS \in [Uid -> [Server -> Seq(Call)]] /\ newCS[u][s] \in Seq(Call)
  BY Zenon DEF GatewayTypeOK
<1>2. Append(newCS[u][s], c) \in Seq(Call)
  BY <1>1
<1>3. newCS[u][s] # << >> => Tail(newCS[u][s]) \in Seq(Call)
  BY <1>1
<1> QED
  BY <1>1, <1>2, <1>3, Zenon

\* Every step keeps the types.
LEMMA GatewayStepTypes ==
    ASSUME GatewayTypeOK, Informed, Fresh, Next
    PROVE  GatewayTypeOK'
<1>0. /\ ssq \in Seq(Op) /\ serverNameMap \in [Server -> Nat] /\ uidAgentMap \subseteq Uid
      /\ player \in [Uid -> [Server -> Player]] /\ newCS \in [Uid -> [Server -> Seq(Call)]]
      /\ call \in [Call -> CallState]
      /\ instance \in [Server -> Nat] /\ resolved \in [Server -> Nat]
  BY Zenon DEF GatewayTypeOK
<1>1. CASE server_server
  <2>1. /\ ssq # << >> /\ ssq[1] \in Op
        /\ register_start(1) \/ register_tell(1) \/ getAgent_start(1) \/ registerMap(1)
           \/ getAgent_enter(1)
    BY <1>1, Operations
  <2>2. Advised => /\ player' \in [Uid -> [Server -> Player]]
                   /\ UNCHANGED <<newCS, call, instance, resolved>>
    BY Zenon DEF Advised
  <2>3. (Left => ssq' \in Seq(Op)) /\ \A x : GoesOn(x) => ssq' \in Seq(Op)
    BY Zenon DEF Left, GoesOn
  <2>4. CASE register_start(1)
    <3>1. serverNameMap' \in [Server -> Nat]
      <4>1. /\ ssq[1].server \in Server
            /\ serverNameMap' = [serverNameMap EXCEPT ![ssq[1].server] = @ + 1]
        BY <2>1, <2>4, RegisterStartEffect, Zenon
      <4> QED
        BY <1>0, <4>1
    <3> QED
      BY <1>0, <2>1, <2>2, <2>3, <2>4, <3>1, RegisterStartEffect, Zenon DEF GatewayTypeOK
  <2>5. CASE register_tell(1)
    BY <1>0, <2>1, <2>2, <2>3, <2>5, RegisterTellEffect, Zenon DEF GatewayTypeOK
  <2>6. CASE getAgent_start(1)
    BY <1>0, <2>1, <2>2, <2>3, <2>6, GetAgentStartEffect, Zenon DEF GatewayTypeOK
  <2>7. CASE registerMap(1)
    <3>1. ssq[1].map = serverNameMap
      BY <2>1, <2>7, Zenon DEF registerMap, Informed
    <3> QED
      BY <1>0, <2>1, <2>2, <2>3, <2>7, <3>1, RegisterMapEffect, Zenon DEF GatewayTypeOK
  <2>8. CASE getAgent_enter(1)
    BY <1>0, <2>1, <2>2, <2>3, <2>8, EnterEffect, Zenon DEF GatewayTypeOK
  <2> QED
    BY <2>1, <2>4, <2>5, <2>6, <2>7, <2>8, Zenon
<1>2. CASE (\E s \in Server : start_server(s)) \/ (\E u \in Uid : ask_agent(u))
  <2>1. /\ \E x \in Op : ssq' = Append(ssq, x) /\ x.pc = "start"
        /\ UNCHANGED <<serverNameMap, uidAgentMap, player, newCS, call, resolved>>
        /\ instance' \in [Server -> Nat]
    BY <1>2, ArrivalEffect, Zenon DEF pvars
  <2>2. ssq' \in Seq(Op)
    BY <2>1, AppendOp, Zenon
  <2> QED
    BY <1>0, <2>1, <2>2, Zenon DEF GatewayTypeOK
<1>3. CASE \E s \in Server : name_arrives(s)
  <2>1. PICK s \in Server : name_arrives(s)
    BY <1>3
  <2>2. /\ UNCHANGED <<ssq, serverNameMap, uidAgentMap, player, newCS, call, instance>>
        /\ resolved' = [resolved EXCEPT ![s] = @ + 1]
    BY <2>1, Zenon DEF name_arrives, svars, pvars
  <2>3. resolved' \in [Server -> Nat]
    BY <1>0, <2>2
  <2> QED
    BY <1>0, <2>2, <2>3, Zenon DEF GatewayTypeOK
<1>4. ASSUME NEW c \in Call, NEW k \in CallState, NEW p \in Player, CallStep(c, k, p)
      PROVE  GatewayTypeOK'
  <2>1. /\ call[c].u \in Uid /\ call[c].s \in Server
        /\ call' \in [Call -> CallState]
        /\ player' \in [Uid -> [Server -> Player]]
        /\ UNCHANGED <<ssq, serverNameMap, uidAgentMap, instance, resolved>>
    BY <1>4, CallStepEffect, Zenon
  <2>2. newCS' = newCS \/ (leave_newCS(c) /\ Holds(c))
    BY <1>4, Zenon DEF CallStep, Fresh
  <2>3. newCS' \in [Uid -> [Server -> Seq(Call)]]
    <3> DEFINE u == call[c].u
               s == call[c].s
    <3>1. newCS' = newCS \/ (newCS' = [newCS EXCEPT ![u][s] = Tail(@)] /\ newCS[u][s] # << >>)
      BY <2>2, Zenon DEF leave_newCS, Holds
    <3>2. u \in Uid /\ s \in Server
      BY <2>1
    <3> HIDE DEF u, s
    <3>3. newCS[u][s] # << >> =>
             [newCS EXCEPT ![u][s] = Tail(@)] \in [Uid -> [Server -> Seq(Call)]]
      BY <3>2, NewSection, Zenon
    <3> QED
      BY <1>0, <3>1, <3>3, Zenon
  <2> QED
    BY <1>0, <2>1, <2>3, Zenon DEF GatewayTypeOK
<1>5. ASSUME NEW c \in Call, NEW u \in Uid, NEW s \in Server, doCall(c, u, s)
      PROVE  GatewayTypeOK'
  <2>0. PICK k : NewCall(c, u, s, k)
    BY <1>5, DoCallEffect, Zenon
  <2>1. /\ k \in CallState
        /\ call' = [call EXCEPT ![c] = k]
        /\ \/ newCS' = [newCS EXCEPT ![u][s] = Append(@, c)]
           \/ newCS' = newCS
        /\ UNCHANGED <<svars, player, instance, resolved>>
    BY <2>0, Zenon DEF NewCall
  <2>2. newCS' \in [Uid -> [Server -> Seq(Call)]]
    <3>1. [newCS EXCEPT ![u][s] = Append(@, c)] \in [Uid -> [Server -> Seq(Call)]]
      BY NewSection, Zenon
    <3> QED
      BY <1>0, <2>1, <3>1, Zenon
  <2>3. call' \in [Call -> CallState]
    BY <1>0, <2>1, Zenon
  <2> QED
    BY <1>0, <2>1, <2>2, <2>3, Zenon DEF GatewayTypeOK, svars
<1> QED
  BY <1>1, <1>2, <1>3, <1>4, <1>5, GatewayCases, Zenon DEF GatewaySteps

\* Numbers: what is compared, and that it is ordered.
LEMMA PlayerNumbers ==
    ASSUME GatewayTypeOK, NEW u \in Uid, NEW s \in Server
    PROVE  player[u][s] \in Player /\ player[u][s].told \in Nat /\ player[u][s].asked \in Nat
<1>1. player[u][s] \in Player
  BY Zenon DEF GatewayTypeOK
<1> QED
  BY <1>1 DEF Player

\* The order of the numbers, for steps without arithmetic.
LEMMA Ordered ==
    /\ \A a, b, d \in Nat : a <= b /\ b <= d => a <= d
    /\ \A a \in Nat : a <= a /\ a <= a + 1 /\ (a <= 0 => a = 0) /\ (a = 0 \/ a > 0)
    /\ \A a, b \in Nat : a <= b => (IF b > a THEN b ELSE a) = b
    /\ 0 \in Nat /\ \A a \in Nat : a + 1 \in Nat
OBVIOUS

\* Every step keeps who has been told of what: register and getAgent do not
\* overlap (dispatch.actionServerCS), so none misses what the other adds.
LEMMA GatewayStepInformed ==
    ASSUME GatewayTypeOK, Informed, Fresh, Next
    PROVE  Informed'
<1> DEFINE Known(u, s) == player[u][s].told = serverNameMap[s]
<1>0. /\ \A i \in DOMAIN ssq : i # 1 => ssq[i].pc = "start"
      /\ \A u \in Uid, s \in Server : player[u][s].told <= serverNameMap[s]
      /\ \A u \in uidAgentMap, s \in Server : Known(u, s) \/ Telling(u, s)
      /\ uidAgentMap \subseteq Uid
      /\ \A s \in Server : serverNameMap[s] \in Nat
      /\ \A u \in Uid, s \in Server : player[u][s] \in Player /\ player[u][s].told \in Nat
  BY PlayerNumbers, Zenon DEF Informed, GatewayTypeOK
<1>1. CASE server_server
  <2>1. /\ ssq # << >> /\ ssq[1] \in Op
        /\ register_start(1) \/ register_tell(1) \/ getAgent_start(1) \/ registerMap(1)
           \/ getAgent_enter(1)
    BY <1>1, Operations
  <2>2. ASSUME Left, UNCHANGED <<serverNameMap, player>>, uidAgentMap' \subseteq Uid,
               \A u \in uidAgentMap', s \in Server : Known(u, s)
        PROVE  Informed'
    <3>1. \A i \in DOMAIN ssq' : ssq'[i].pc = "start"
      BY <1>0, <2>2, Zenon DEF Left
    <3>2. ssq' # << >> => ssq'[1].pc = "start"
      <4>1. ssq' \in Seq(Op)
        BY <2>2, Zenon DEF Left
      <4>2. ssq' # << >> => 1 \in DOMAIN ssq'
        BY <4>1
      <4> QED
        BY <3>1, <4>2, Zenon
    <3> QED
      BY <1>0, <2>2, <3>1, <3>2, Zenon DEF Informed
  <2>3. CASE register_start(1)
    <3> DEFINE x == Tell(ssq[1], uidAgentMap)
               n == ssq[1].server
    <3>1. /\ ssq[1] \in RegisterOp /\ ssq[1].pc = "start" /\ n \in Server /\ GoesOn(x)
          /\ serverNameMap' = [serverNameMap EXCEPT ![n] = @ + 1]
          /\ UNCHANGED <<uidAgentMap, player>>
      BY <2>1, <2>3, RegisterStartEffect, Zenon
    <3>2. x.op = "register" /\ x.pc = "tell" /\ x.left = uidAgentMap /\ x.server = n
      <4>1. ssq[1] \in RegisterOp /\ uidAgentMap \in SUBSET Uid
        BY <1>0, <3>1
      <4> QED
        BY <4>1, Tells, Zenon
    <3>3. /\ ssq' # << >> /\ ssq'[1] = x
          /\ \A i \in DOMAIN ssq' : i # 1 => ssq'[i].pc = "start"
      BY <1>0, <3>1, Zenon DEF GoesOn
    <3>4. \A s \in Server : serverNameMap'[s] =
             IF s = n THEN serverNameMap[s] + 1 ELSE serverNameMap[s]
      BY <3>1, Zenon DEF GatewayTypeOK
    <3>5. \A u \in uidAgentMap, s \in Server : Known(u, s)
      BY <1>0, <3>1, Zenon DEF Telling
    <3> HIDE DEF x, n
    <3>6. ASSUME NEW u \in Uid, NEW s \in Server PROVE player'[u][s].told <= serverNameMap'[s]
      BY <1>0, <3>1, <3>4, Ordered
    <3>7. ASSUME NEW u \in uidAgentMap', NEW s \in Server
          PROVE  player'[u][s].told = serverNameMap'[s] \/ Telling(u, s)'
      <4>1. CASE s = n
        BY <3>1, <3>2, <3>3, <4>1, Zenon DEF Telling
      <4>2. CASE s # n
        BY <3>1, <3>4, <3>5, <4>2, Zenon
      <4> QED
        BY <4>1, <4>2
    <3> QED
      BY <3>2, <3>3, <3>6, <3>7, Zenon DEF Informed
  <2>4. CASE register_tell(1)
    <3> DEFINE n == ssq[1].server
    <3>1. /\ ssq[1] \in RegisterOp /\ ssq[1].pc = "tell" /\ n \in Server
          /\ UNCHANGED <<serverNameMap, uidAgentMap>>
          /\ \/ \E u \in ssq[1].left :
                   /\ u \in Uid /\ GoesOn(Untell(ssq[1], u))
                   /\ \A v \in Uid, t \in Server : player'[v][t] =
                         IF v = u /\ t = n
                            THEN registered(player[v][t], serverNameMap[t]) ELSE player[v][t]
             \/ ssq[1].left = {} /\ Left /\ player' = player
      BY <2>1, <2>4, RegisterTellEffect, Zenon
    <3>2. CASE ssq[1].left = {} /\ Left /\ player' = player
      <4>1. \A u \in uidAgentMap, s \in Server : Known(u, s)
        BY <1>0, <3>2, Zenon DEF Telling
      <4> QED
        BY <1>0, <2>2, <3>1, <3>2, <4>1, Zenon
    <3>3. ASSUME NEW u \in ssq[1].left, u \in Uid, GoesOn(Untell(ssq[1], u)),
                 \A v \in Uid, t \in Server : player'[v][t] =
                    IF v = u /\ t = n
                       THEN registered(player[v][t], serverNameMap[t]) ELSE player[v][t]
          PROVE  Informed'
      <4> DEFINE x == Untell(ssq[1], u)
      <4>1. /\ x.op = "register" /\ x.pc = "tell" /\ x.left = ssq[1].left \ {u}
            /\ x.server = n
        BY <3>1, Untells, Zenon
      <4>2. /\ ssq' # << >> /\ ssq'[1] = x
            /\ \A i \in DOMAIN ssq' : i # 1 => ssq'[i].pc = "start"
        BY <1>0, <3>3, Zenon DEF GoesOn
      <4>3. player'[u][n].told = serverNameMap[n]
        <5>1. player'[u][n] = registered(player[u][n], serverNameMap[n])
          BY <3>1, <3>3, Zenon
        <5>2. registered(player[u][n], serverNameMap[n]).told =
                 IF serverNameMap[n] > player[u][n].told THEN serverNameMap[n]
                                                         ELSE player[u][n].told
          BY <1>0, <3>1, <3>3, Registers, Zenon
        <5>3. player[u][n].told <= serverNameMap[n]
          BY <1>0, <3>1, <3>3, Zenon
        <5>4. player[u][n].told \in Nat /\ serverNameMap[n] \in Nat
          BY <1>0, <3>1, <3>3, Zenon
        <5>5. registered(player[u][n], serverNameMap[n]).told = serverNameMap[n]
          BY <5>2, <5>3, <5>4
        <5> QED
          BY <5>1, <5>5, Zenon
      <4>4. \A v \in Uid, t \in Server : ~(v = u /\ t = n) => player'[v][t] = player[v][t]
        BY <3>3, Zenon
      <4> HIDE DEF x, n
      <4>5. ASSUME NEW v \in Uid, NEW t \in Server PROVE player'[v][t].told <= serverNameMap'[t]
        <5>1. serverNameMap[t] <= serverNameMap[t] /\ player[v][t].told <= serverNameMap[t]
          BY <1>0, Ordered, Zenon
        <5>2. serverNameMap' = serverNameMap
          BY <3>1
        <5> QED
          BY <4>3, <4>4, <5>1, <5>2, Zenon
      <4>6. ASSUME NEW v \in uidAgentMap', NEW t \in Server
            PROVE  player'[v][t].told = serverNameMap'[t] \/ Telling(v, t)'
        <5>1. v \in uidAgentMap /\ v \in Uid
          BY <1>0, <3>1, Zenon
        <5>2. CASE v = u /\ t = n
          BY <3>1, <4>3, <5>2, Zenon
        <5>3. CASE ~(v = u /\ t = n)
          <6>1. Telling(v, t) => t = n /\ v \in ssq[1].left
            BY Zenon DEF Telling, n
          <6>2. Telling(v, t) => Telling(v, t)'
            BY <4>1, <4>2, <5>3, <6>1, Zenon DEF Telling
          <6>3. Known(v, t) \/ Telling(v, t)
            BY <1>0, <5>1, Zenon
          <6>4. player'[v][t] = player[v][t] /\ serverNameMap' = serverNameMap
            BY <3>1, <4>4, <5>1, <5>3, Zenon
          <6> QED
            BY <6>2, <6>3, <6>4, Zenon
        <5> QED
          BY <5>2, <5>3
      <4> QED
        BY <4>1, <4>2, <4>5, <4>6, Zenon DEF Informed
    <3> QED
      BY <3>1, <3>2, <3>3, Zenon
  <2>5. ASSUME ssq[1].pc # "tell" PROVE \A u \in uidAgentMap, s \in Server : Known(u, s)
    BY <1>0, <2>5, Zenon DEF Telling
  <2>6. CASE getAgent_start(1)
    <3> DEFINE x == Mapping(ssq[1], serverNameMap)
    <3>1. /\ ssq[1] \in AgentOp /\ ssq[1].pc = "start" /\ (Left \/ GoesOn(x))
          /\ UNCHANGED <<serverNameMap, uidAgentMap, player>>
      BY <2>1, <2>6, GetAgentStartEffect, Zenon
    <3>2. \A u \in uidAgentMap, s \in Server : Known(u, s)
      BY <2>5, <3>1
    <3>3. CASE Left
      BY <1>0, <2>2, <3>1, <3>2, <3>3, Zenon
    <3>4. CASE GoesOn(x)
      <4>1. x.pc = "registerMap" /\ x.map = serverNameMap
        <5>1. ssq[1] \in AgentOp /\ serverNameMap \in [Server -> Nat]
          BY <3>1, Zenon DEF GatewayTypeOK
        <5> QED
          BY <5>1, Maps, Zenon
      <4> HIDE DEF x
      <4>2. /\ ssq' # << >> /\ ssq'[1] = x
            /\ \A i \in DOMAIN ssq' : i # 1 => ssq'[i].pc = "start"
        BY <1>0, <3>4, Zenon DEF GoesOn
      <4> QED
        BY <1>0, <3>1, <3>2, <4>1, <4>2, Zenon DEF Informed
    <3> QED
      BY <3>1, <3>3, <3>4
  <2>7. CASE registerMap(1)
    <3> DEFINE x == Entering(ssq[1])
               w == ssq[1].uid
    <3>0. ssq[1].map = serverNameMap
      BY <2>1, <2>7, Zenon DEF registerMap, Informed
    <3>1. /\ ssq[1] \in AgentOp /\ ssq[1].pc = "registerMap" /\ w \in Uid /\ GoesOn(x)
          /\ \A v \in Uid, t \in Server : player'[v][t] =
                IF v = w /\ serverNameMap[t] > 0
                   THEN registered(player[v][t], serverNameMap[t]) ELSE player[v][t]
          /\ UNCHANGED <<serverNameMap, uidAgentMap>>
      BY <2>1, <2>7, <3>0, RegisterMapEffect, Zenon
    <3>2. x.pc = "enter" /\ x.uid = w
      BY <3>1, Enters, Zenon
    <3>3. \A u \in uidAgentMap, s \in Server : Known(u, s)
      BY <2>5, <3>1
    <3> HIDE DEF x, w
    <3>4. /\ ssq' # << >> /\ ssq'[1] = x
          /\ \A i \in DOMAIN ssq' : i # 1 => ssq'[i].pc = "start"
      BY <1>0, <3>1, Zenon DEF GoesOn
    <3>5. ASSUME NEW t \in Server PROVE player'[w][t].told = serverNameMap[t]
      <4> DEFINE p == player[w][t]
                 k == serverNameMap[t]
      <4>1. p \in Player /\ p.told \in Nat /\ k \in Nat /\ p.told <= k
        BY <1>0, <3>1, Zenon
      <4>2. player'[w][t] = IF k > 0 THEN registered(p, k) ELSE p
        BY <3>1, Zenon
      <4> HIDE DEF p, k
      <4>3. registered(p, k).told = IF k > p.told THEN k ELSE p.told
        BY <4>1, Registers, Zenon
      <4>4. CASE k > 0
        BY <4>1, <4>2, <4>3, <4>4, Ordered, Zenon DEF k
      <4>5. CASE ~(k > 0)
        <5>1. k = 0 /\ p.told = 0
          BY <4>1, <4>5
        <5> QED
          BY <4>2, <4>5, <5>1, Zenon DEF k
      <4> QED
        BY <4>4, <4>5
    <3>6. \A v \in Uid, t \in Server : v # w => player'[v][t] = player[v][t]
      BY <3>1, Zenon
    <3>9. serverNameMap' = serverNameMap /\ uidAgentMap' = uidAgentMap
      BY <3>1
    <3>7. ASSUME NEW v \in Uid, NEW t \in Server PROVE player'[v][t].told <= serverNameMap'[t]
      <4>1. serverNameMap[t] <= serverNameMap[t] /\ player[v][t].told <= serverNameMap[t]
        BY <1>0, Ordered, Zenon
      <4> QED
        BY <3>5, <3>6, <3>9, <4>1, Zenon
    <3>8. ASSUME NEW v \in uidAgentMap', NEW t \in Server
          PROVE  player'[v][t].told = serverNameMap'[t]
      <4>1. v \in uidAgentMap /\ v \in Uid
        BY <1>0, <3>9, Zenon
      <4>2. player[v][t].told = serverNameMap[t]
        BY <3>3, <4>1, Zenon
      <4> QED
        BY <3>5, <3>6, <3>9, <4>1, <4>2, Zenon
    <3> QED
      BY <3>1, <3>2, <3>4, <3>5, <3>7, <3>8, Zenon DEF Informed
  <2>8. CASE getAgent_enter(1)
    <3>1. /\ ssq[1] \in AgentOp /\ ssq[1].pc = "enter" /\ ssq[1].uid \in Uid
          /\ Left /\ uidAgentMap' = uidAgentMap \cup {ssq[1].uid}
          /\ UNCHANGED <<serverNameMap, player>>
      BY <2>1, <2>8, EnterEffect, Zenon
    <3>2. \A s \in Server : Known(ssq[1].uid, s)
      BY <2>1, <3>1, Zenon DEF Informed
    <3>3. \A u \in uidAgentMap, s \in Server : Known(u, s)
      BY <2>5, <3>1
    <3> QED
      BY <1>0, <2>2, <3>1, <3>2, <3>3, Zenon
  <2> QED
    BY <2>1, <2>3, <2>4, <2>6, <2>7, <2>8, Zenon
<1>2. CASE (\E s \in Server : start_server(s)) \/ (\E u \in Uid : ask_agent(u))
  <2>1. PICK x \in Op : ssq' = Append(ssq, x) /\ x.pc = "start"
    BY <1>2, ArrivalEffect
  <2>2. UNCHANGED <<serverNameMap, uidAgentMap, player>>
    BY <1>2, ArrivalEffect, Zenon DEF pvars
  <2>3. /\ ssq' # << >> /\ (ssq # << >> => ssq'[1] = ssq[1])
        /\ (ssq = << >> => ssq'[1] = x)
        /\ \A i \in DOMAIN ssq' : (i \in DOMAIN ssq /\ ssq'[i] = ssq[i]) \/ ssq'[i] = x
    BY <2>1, AppendOp, Zenon
  <2>4. \A i \in DOMAIN ssq' : i # 1 => ssq'[i].pc = "start"
    BY <1>0, <2>1, <2>3, Zenon
  <2>5. \A u \in uidAgentMap, s \in Server : Telling(u, s) => Telling(u, s)'
    BY <2>3, Zenon DEF Telling
  <2>6. /\ ssq'[1].pc = "registerMap" => ssq[1].map = serverNameMap /\ ssq'[1] = ssq[1]
        /\ ssq'[1].pc = "enter" =>
              /\ \A s \in Server : player[ssq[1].uid][s].told = serverNameMap[s]
              /\ ssq'[1] = ssq[1]
    BY <2>1, <2>3, Zenon DEF Informed
  <2> QED
    BY <1>0, <2>2, <2>4, <2>5, <2>6, Zenon DEF Informed
<1>3. ASSUME UNCHANGED <<ssq, serverNameMap, uidAgentMap>>,
             \A u \in Uid, s \in Server : player'[u][s].told = player[u][s].told
      PROVE  Informed'
  <2>1. \A u \in uidAgentMap, s \in Server : Telling(u, s) => Telling(u, s)'
    BY <1>3, Zenon DEF Telling
  <2>2. ssq # << >> /\ ssq[1].pc = "enter" => ssq[1].uid \in Uid
    <3>1. ssq # << >> => ssq[1] \in Op
      BY DEF GatewayTypeOK
    <3> QED
      BY <3>1 DEF Op, RegisterOp, AgentOp
  <2>3. /\ \A i \in DOMAIN ssq' : i # 1 => ssq'[i].pc = "start"
        /\ \A u \in Uid, s \in Server : player'[u][s].told <= serverNameMap'[s]
    BY <1>0, <1>3, Zenon
  <2>4. ASSUME NEW u \in uidAgentMap', NEW s \in Server
        PROVE  player'[u][s].told = serverNameMap'[s] \/ Telling(u, s)'
    <3>1. u \in uidAgentMap /\ u \in Uid
      BY <1>0, <1>3, Zenon
    <3>2. Known(u, s) \/ Telling(u, s)
      BY <1>0, <3>1, Zenon
    <3> QED
      BY <1>3, <2>1, <3>1, <3>2, Zenon
  <2>5. /\ ssq' # << >> /\ ssq'[1].pc = "registerMap" => ssq'[1].map = serverNameMap'
        /\ ssq' # << >> /\ ssq'[1].pc = "enter" =>
              \A s \in Server : player'[ssq'[1].uid][s].told = serverNameMap'[s]
    BY <1>3, <2>2, Zenon DEF Informed
  <2> QED
    BY <2>3, <2>4, <2>5, Zenon DEF Informed
<1>4. CASE \E s \in Server : name_arrives(s)
  BY <1>3, <1>4, Zenon DEF name_arrives, svars, pvars
<1>5. ASSUME NEW c \in Call, NEW k \in CallState, NEW p \in Player, CallStep(c, k, p)
      PROVE  Informed'
  <2>1. /\ \A u \in Uid, s \in Server : player'[u][s] =
              IF u = call[c].u /\ s = call[c].s THEN p ELSE player[u][s]
        /\ UNCHANGED <<ssq, serverNameMap, uidAgentMap>>
    <3>1. CallStep(c, k, p)
      BY <1>5
    <3> QED
      BY <3>1, CallStepEffect
  <2>2. p.told = player[call[c].u][call[c].s].told
    BY <1>5, Zenon DEF CallStep, P
  <2>3. \A u \in Uid, s \in Server : player'[u][s].told = player[u][s].told
    BY <2>1, <2>2, Zenon
  <2> QED
    BY <1>3, <2>1, <2>3, Zenon
<1>6. ASSUME NEW c \in Call, NEW u \in Uid, NEW s \in Server, doCall(c, u, s)
      PROVE  Informed'
  BY <1>3, <1>6, DoCallEffect, Zenon DEF NewCall, svars
<1> QED
  BY <1>1, <1>2, <1>4, <1>5, <1>6, GatewayCases, Zenon DEF GatewaySteps

\* The numbers of a call that is under way.
LEMMA CallNumbers ==
    ASSUME GatewayTypeOK, NEW c \in Call,
           call[c].pc \in {"check", "query", "getAgent", "calling"}
    PROVE  /\ call[c] \in Issued /\ call[c].u \in Uid /\ call[c].s \in Server
           /\ call[c].told \in Nat /\ P(c).told \in Nat /\ P(c).asked \in Nat
<1>1. call[c] \in Issued /\ call[c].u \in Uid /\ call[c].s \in Server
  BY CallIssued
<1>2. call[c].told \in Nat
  BY <1>1 DEF Issued
<1> QED
  BY <1>1, <1>2, PlayerNumbers, Zenon DEF P

\* A registration that reaches a player makes its agent one to be replaced.
LEMMA AdvisedFresh ==
    ASSUME GatewayTypeOK, Fresh, Advised
    PROVE  Fresh'
<1>1. call' = call /\ newCS' = newCS
  BY Zenon DEF Advised
<1>2. ASSUME NEW u \in Uid, NEW s \in Server
      PROVE  /\ player'[u][s].asked = player[u][s].asked
             /\ player[u][s].told <= player'[u][s].told /\ player'[u][s].told \in Nat
             /\ player'[u][s].asked <= player'[u][s].told
             /\ player'[u][s].isNew \/ player'[u][s].asked = player'[u][s].told
                \/ Querying(u, s)'
  <2>1. player[u][s].told \in Nat /\ player[u][s].asked \in Nat
    BY PlayerNumbers
  <2>2. /\ player[u][s].asked <= player[u][s].told
        /\ player[u][s].isNew \/ player[u][s].asked = player[u][s].told \/ Querying(u, s)
    BY Zenon DEF Fresh
  <2>3. CASE player'[u][s] = player[u][s]
    <3>1. Querying(u, s) => Querying(u, s)'
      BY <1>1, Zenon DEF Querying
    <3>2. player[u][s].told <= player[u][s].told
      BY <2>1
    <3> QED
      BY <2>1, <2>2, <2>3, <3>1, <3>2, Zenon
  <2>4. CASE /\ player'[u][s] \in Player /\ player'[u][s].isNew
             /\ player'[u][s].asked = player[u][s].asked
             /\ player[u][s].told <= player'[u][s].told
    <3>1. player'[u][s].told \in Nat
      BY <2>4 DEF Player
    <3>2. player[u][s].asked <= player'[u][s].told
      BY <2>1, <2>2, <2>4, <3>1
    <3> QED
      BY <2>4, <3>1, <3>2, Zenon
  <2> QED
    BY <2>3, <2>4, Zenon DEF Advised, SameDates
<1>3. ASSUME NEW c \in Call, call[c].pc \in {"check", "query", "getAgent", "calling"}
      PROVE  call[c].told <= P(c)'.told /\ P(c)'.asked = P(c).asked
  <2>1. /\ call[c].u \in Uid /\ call[c].s \in Server
        /\ call[c].told \in Nat /\ P(c).told \in Nat
    BY <1>3, CallNumbers
  <2>2. P(c)' = player'[call[c].u][call[c].s]
    BY <1>1, Zenon DEF P
  <2>3. /\ P(c)'.asked = P(c).asked /\ P(c).told <= P(c)'.told /\ P(c)'.told \in Nat
    <3> DEFINE u == call[c].u
               s == call[c].s
    <3>1. u \in Uid /\ s \in Server
      BY <2>1
    <3>2. P(c) = player[u][s] /\ P(c)' = player'[u][s]
      BY <2>2, Zenon DEF P
    <3> HIDE DEF u, s
    <3>3. /\ player'[u][s].asked = player[u][s].asked
          /\ player[u][s].told <= player'[u][s].told /\ player'[u][s].told \in Nat
      BY <1>2, <3>1
    <3> QED
      BY <3>2, <3>3
  <2>4. call[c].told <= P(c).told
    BY <1>3, Zenon DEF Fresh
  <2> QED
    BY <2>1, <2>3, <2>4
<1>4. /\ \A c \in Call : call'[c].pc \in {"check", "query", "getAgent", "calling"} =>
            call'[c].told <= P(c)'.told
      /\ \A c \in Call : call'[c].pc \in {"getAgent", "calling"} =>
            call'[c].told <= P(c)'.asked
  BY <1>1, <1>3, Zenon DEF Fresh
<1>5. \A c \in Call : call'[c].pc \in {"query", "getAgent"} => Holds(c)'
  BY <1>1, Zenon DEF Fresh, Holds
<1> QED
  BY <1>2, <1>4, <1>5, Zenon DEF Fresh

\* Nothing Fresh speaks of changes.
LEMMA SameFresh ==
    ASSUME Fresh, UNCHANGED <<player, newCS, call>>
    PROVE  Fresh'
<1>1. \A u \in Uid, s \in Server : Querying(u, s) => Querying(u, s)'
  BY Zenon DEF Querying
<1>2. \A c \in Call : P(c)' = P(c) /\ (Holds(c) => Holds(c)')
  BY Zenon DEF P, Holds
<1> QED
  BY <1>1, <1>2, Zenon DEF Fresh

\* checkAgent runs in newCS, so that who finds the agent in place finds no
\* question about to be put; the question is put after the last registration.
LEMMA CallStepFresh ==
    ASSUME GatewayTypeOK, Fresh,
           NEW c \in Call, NEW k \in CallState, NEW p \in Player, CallStep(c, k, p)
    PROVE  Fresh'
<1> DEFINE u == call[c].u
           s == call[c].s
           Same(d) == call[d].u = u /\ call[d].s = s
<1>1. /\ u \in Uid /\ s \in Server
      /\ \A d \in Call : call'[d] = IF d = c THEN k ELSE call[d]
      /\ \A v \in Uid, t \in Server : player'[v][t] =
            IF v = u /\ t = s THEN p ELSE player[v][t]
  BY CallStepEffect
<1>2. /\ k.pc # "done" => k.u = u /\ k.s = s /\ k.told = call[c].told
      /\ p.told = P(c).told
      /\ call[c].pc \in {"check", "query", "getAgent", "calling"}
  BY Zenon DEF CallStep
<1>3. /\ call[c].told \in Nat /\ P(c).told \in Nat /\ P(c).asked \in Nat
  BY <1>2, CallNumbers
<1>4. /\ P(c).asked <= P(c).told /\ call[c].told <= P(c).told
      /\ P(c).isNew \/ P(c).asked = P(c).told \/ Querying(u, s)
  BY <1>1, <1>2, Zenon DEF Fresh, P
<1>5. p.asked \in Nat /\ P(c).asked <= p.asked /\ p.asked <= p.told
  <2>1. p.asked = P(c).asked \/ p.asked = P(c).told
    BY Zenon DEF CallStep, SameDates
  <2> QED
    BY <1>2, <1>3, <1>4, <2>1
<1>7. ASSUME NEW d \in Call, Holds(c), Holds(d), Same(d) PROVE d = c
  BY <1>7, Zenon DEF Holds
<1>8. ASSUME NEW v \in Uid, NEW t \in Server
      PROVE  /\ player'[v][t].asked <= player'[v][t].told
             /\ player'[v][t].isNew \/ player'[v][t].asked = player'[v][t].told
                \/ Querying(v, t)'
  <2>1. CASE v = u /\ t = s
    <3>1. player'[v][t] = p
      BY <1>1, <2>1, Zenon
    <3>2. p.isNew \/ p.asked = p.told \/ Querying(v, t)'
      <4>1. CASE k.pc = "query"
        BY <1>1, <1>2, <2>1, <4>1, Zenon DEF Querying
      <4>2. CASE call[c].pc = "query"
        BY <1>2, <4>2, Zenon DEF CallStep
      <4>3. CASE k.pc # "query" /\ call[c].pc # "query"
        <5>1. p.asked = P(c).asked /\ p.isNew = P(c).isNew
          BY <4>3, Zenon DEF CallStep, SameDates
        <5>2. Querying(u, s) => Querying(v, t)'
          <6>1. SUFFICES ASSUME Querying(u, s) PROVE Querying(v, t)'
            OBVIOUS
          <6>2. PICK d \in Call : call[d].pc = "query" /\ call[d].u = u /\ call[d].s = s
            BY <6>1, Zenon DEF Querying
          <6>3. d # c
            BY <4>3, <6>2
          <6>4. call'[d] = call[d]
            BY <1>1, <6>3, Zenon
          <6> QED
            BY <2>1, <6>2, <6>4, Zenon DEF Querying
        <5> QED
          BY <1>2, <1>4, <5>1, <5>2, Zenon
      <4> QED
        BY <4>1, <4>2, <4>3
    <3> QED
      BY <1>5, <3>1, <3>2, Zenon
  <2>2. CASE ~(v = u /\ t = s)
    <3>1. player'[v][t] = player[v][t]
      BY <1>1, <2>2, Zenon
    <3>2. Querying(v, t) => Querying(v, t)'
      <4>1. SUFFICES ASSUME Querying(v, t) PROVE Querying(v, t)'
        OBVIOUS
      <4>2. PICK d \in Call : call[d].pc = "query" /\ call[d].u = v /\ call[d].s = t
        BY <4>1, Zenon DEF Querying
      <4>3. d # c
        BY <2>2, <4>2
      <4>4. call'[d] = call[d]
        BY <1>1, <4>3, Zenon
      <4> QED
        BY <4>2, <4>4, Zenon DEF Querying
    <3>3. /\ player[v][t].asked <= player[v][t].told
          /\ player[v][t].isNew \/ player[v][t].asked = player[v][t].told \/ Querying(v, t)
      BY Zenon DEF Fresh
    <3> QED
      BY <3>1, <3>2, <3>3, Zenon
  <2> QED
    BY <2>1, <2>2
<1>9. ASSUME NEW d \in Call, d # c
      PROVE  /\ call'[d] = call[d]
             /\ call[d].pc \in {"check", "query", "getAgent", "calling"} =>
                   call[d].told <= P(d)'.told
             /\ call[d].pc \in {"getAgent", "calling"} => call[d].told <= P(d)'.asked
  <2>1. call'[d] = call[d]
    BY <1>1, <1>9, Zenon
  <2>2. SUFFICES ASSUME call[d].pc \in {"check", "query", "getAgent", "calling"}
                 PROVE  /\ call[d].told <= P(d)'.told
                        /\ call[d].pc \in {"getAgent", "calling"} =>
                              call[d].told <= P(d)'.asked
    BY <2>1, Zenon
  <2>3. /\ call[d].u \in Uid /\ call[d].s \in Server
        /\ call[d].told \in Nat /\ P(d).told \in Nat /\ P(d).asked \in Nat
    BY <2>2, CallNumbers
  <2>4. /\ call[d].told <= P(d).told
        /\ call[d].pc \in {"getAgent", "calling"} => call[d].told <= P(d).asked
    BY <2>2, Zenon DEF Fresh
  <2>5. P(d)' = player'[call[d].u][call[d].s]
    BY <2>1, Zenon DEF P
  <2>6. CASE Same(d)
    <3>1. P(d)' = p /\ P(d) = P(c)
      BY <1>1, <2>5, <2>6, Zenon DEF P
    <3>2. call[d].told <= P(c).asked => call[d].told <= p.asked
      BY <1>3, <1>5, <2>3
    <3> QED
      BY <1>2, <2>4, <3>1, <3>2, Zenon
  <2>7. CASE ~Same(d)
    <3>1. P(d)' = P(d)
      BY <1>1, <2>3, <2>5, <2>7, Zenon DEF P
    <3> QED
      BY <2>4, <3>1, Zenon
  <2> QED
    BY <2>6, <2>7
<1>10. /\ call'[c] = k
       /\ k.pc # "done" => P(c)' = p /\ k.told <= p.told
       /\ k.pc \in {"getAgent", "calling"} => k.told <= p.asked
  <2>1. call'[c] = k
    BY <1>1, Zenon
  <2>2. k.pc # "done" => P(c)' = p
    BY <1>1, <1>2, <2>1, Zenon DEF P
  <2>3. k.pc # "done" => k.told <= p.told
    BY <1>2, <1>4, Zenon
  <2>4. ASSUME call[c].pc = "check", k.pc = "calling" PROVE k.told <= p.asked
    <3>1. Holds(c) /\ ~P(c).isNew /\ p.asked = P(c).asked
      BY <2>4, Zenon DEF CallStep, SameDates
    <3>2. ~Querying(u, s)
      <4>1. SUFFICES ASSUME NEW d \in Call, call[d].pc = "query", Same(d) PROVE FALSE
        BY Zenon DEF Querying
      <4>2. Holds(d)
        BY <4>1, Zenon DEF Fresh
      <4>3. d = c
        BY <1>7, <3>1, <4>1, <4>2, Zenon
      <4> QED
        BY <2>4, <4>1, <4>3, Zenon
    <3> QED
      BY <1>2, <1>4, <2>4, <3>1, <3>2, Zenon
  <2>5. ASSUME call[c].pc = "query" PROVE k.told <= p.asked
    BY <1>2, <1>4, <2>5, Zenon DEF CallStep
  <2>6. ASSUME call[c].pc = "getAgent", k.pc = "calling" PROVE k.told <= p.asked
    <3>1. call[c].told <= P(c).asked /\ p.asked = P(c).asked
      BY <2>6, Zenon DEF Fresh, CallStep
    <3> QED
      BY <1>2, <2>6, <3>1, Zenon
  <2>7. k.pc \in {"getAgent", "calling"} =>
           \/ call[c].pc = "check" /\ k.pc = "calling"
           \/ call[c].pc = "query" \/ (call[c].pc = "getAgent" /\ k.pc = "calling")
    BY Zenon DEF CallStep
  <2> QED
    BY <2>1, <2>2, <2>3, <2>4, <2>5, <2>6, <2>7, Zenon
<1>11. ASSUME NEW d \in Call, call'[d].pc \in {"query", "getAgent"} PROVE Holds(d)'
  <2>1. CASE d = c
    <3>1. newCS' = newCS /\ Holds(c)
      BY <1>10, <1>11, <2>1, Zenon DEF CallStep, Fresh
    <3>2. Holds(c)'
      BY <1>2, <1>10, <1>11, <2>1, <3>1, Zenon DEF Holds
    <3> QED
      BY <2>1, <3>2
  <2>2. CASE d # c
    <3>1. call'[d] = call[d] /\ Holds(d)
      BY <1>9, <1>11, <2>2, Zenon DEF Fresh
    <3>2. CASE newCS' = newCS
      BY <3>1, <3>2, Zenon DEF Holds
    <3>3. CASE newCS' # newCS
      <4>1. leave_newCS(c) /\ Holds(c)
        BY <3>3, Zenon DEF CallStep, Fresh
      <4>2. ~Same(d)
        BY <1>7, <2>2, <3>1, <4>1
      <4>3. call[d].u \in Uid /\ call[d].s \in Server
        <5>1. call[d].pc \in {"query", "getAgent"}
          BY <1>11, <3>1, Zenon
        <5> QED
          BY <5>1, CallNumbers
      <4>4. newCS'[call[d].u][call[d].s] = newCS[call[d].u][call[d].s]
        BY <1>1, <4>1, <4>2, <4>3, Zenon DEF leave_newCS, GatewayTypeOK
      <4> QED
        BY <3>1, <4>4, Zenon DEF Holds
    <3> QED
      BY <3>2, <3>3
  <2> QED
    BY <2>1, <2>2
<1>12. /\ \A d \in Call : call'[d].pc \in {"check", "query", "getAgent", "calling"} =>
             call'[d].told <= P(d)'.told
       /\ \A d \in Call : call'[d].pc \in {"getAgent", "calling"} =>
             call'[d].told <= P(d)'.asked
  BY <1>9, <1>10, Zenon
<1> QED
  BY <1>8, <1>11, <1>12, Zenon DEF Fresh

\* A new call waits behind those in newCS.
LEMMA NewCallFresh ==
    ASSUME GatewayTypeOK, Fresh,
           NEW c \in Call, NEW u \in Uid, NEW s \in Server, NEW k, NewCall(c, u, s, k)
    PROVE  Fresh'
<1>1. /\ call[c].pc = "none" /\ call' = [call EXCEPT ![c] = k] /\ player' = player
      /\ call \in [Call -> CallState]
      /\ newCS \in [Uid -> [Server -> Seq(Call)]]
  BY Zenon DEF NewCall, GatewayTypeOK
<1>2. \A d \in Call : call'[d] = IF d = c THEN k ELSE call[d]
  BY <1>1, Zenon
<1>3. \/ k.pc = "check" /\ k.u = u /\ k.s = s /\ k.told = player[u][s].told
      \/ k.pc = "done"
  BY Zenon DEF NewCall
<1>4. ASSUME NEW d \in Call, Holds(d), d # c, call[d].u \in Uid, call[d].s \in Server
      PROVE  Holds(d)'
  <2>0. call'[d] = call[d]
    BY <1>2, <1>4, Zenon
  <2>1. CASE newCS' = newCS
    BY <1>4, <2>0, <2>1, Zenon DEF Holds
  <2>2. CASE newCS' = [newCS EXCEPT ![u][s] = Append(@, c)]
    <3> DEFINE q == newCS[call[d].u][call[d].s]
    <3>1. newCS'[call[d].u][call[d].s] = q \/ newCS'[call[d].u][call[d].s] = Append(q, c)
      BY <1>1, <1>4, <2>2, Zenon
    <3>2. q \in Seq(Call) /\ q # << >> /\ Head(q) = d
      BY <1>1, <1>4, Zenon DEF Holds
    <3>3. Append(q, c) # << >> /\ Head(Append(q, c)) = d
      <4> HIDE DEF q
      <4> QED
        BY <3>2
    <3> HIDE DEF q
    <3>4. /\ newCS'[call[d].u][call[d].s] # << >>
          /\ Head(newCS'[call[d].u][call[d].s]) = d
      BY <3>1, <3>2, <3>3, Zenon
    <3> QED
      BY <2>0, <3>4, Zenon DEF Holds
  <2> QED
    BY <2>1, <2>2, Zenon DEF NewCall
<1>5. \A d \in Call : d # c => call'[d] = call[d] /\ P(d)' = P(d)
  BY <1>1, <1>2, Zenon DEF P
<1>6. call'[c] = k /\ P(c)' = player[k.u][k.s]
  BY <1>1, <1>2, Zenon DEF P
<1>7. k.pc = "check" => k.told <= P(c)'.told
  <2>1. player[u][s].told \in Nat
    BY PlayerNumbers
  <2>2. player[u][s].told <= player[u][s].told
    BY <2>1
  <2> QED
    BY <1>3, <1>6, <2>2, Zenon
<1>8. /\ \A d \in Call : call'[d].pc \in {"check", "query", "getAgent", "calling"} =>
            call'[d].told <= P(d)'.told
      /\ \A d \in Call : call'[d].pc \in {"getAgent", "calling"} =>
            call'[d].told <= P(d)'.asked
  BY <1>3, <1>5, <1>6, <1>7, Zenon DEF Fresh
<1>9. ASSUME NEW d \in Call, call'[d].pc \in {"query", "getAgent"} PROVE Holds(d)'
  <2>1. d # c /\ call[d].pc \in {"query", "getAgent"}
    BY <1>3, <1>5, <1>6, <1>9, Zenon
  <2>2. call[d].u \in Uid /\ call[d].s \in Server
    BY <2>1, CallNumbers
  <2>3. Holds(d)
    BY <2>1, Zenon DEF Fresh
  <2> QED
    BY <1>4, <2>1, <2>2, <2>3, Zenon
<1>10. \A v \in Uid, t \in Server : Querying(v, t) => Querying(v, t)'
  BY <1>1, <1>5, Zenon DEF Querying
<1>11. \A v \in Uid, t \in Server :
          /\ player'[v][t].asked <= player'[v][t].told
          /\ player'[v][t].isNew \/ player'[v][t].asked = player'[v][t].told
             \/ Querying(v, t)'
  BY <1>1, <1>10, Zenon DEF Fresh
<1> QED
  BY <1>8, <1>9, <1>11, Zenon DEF Fresh

\* Every step keeps which agents may be used.
LEMMA GatewayStepFresh ==
    ASSUME GatewayTypeOK, Informed, Fresh, Next
    PROVE  Fresh'
<1>1. CASE server_server
  <2>1. /\ ssq # << >> /\ ssq[1] \in Op
        /\ register_start(1) \/ register_tell(1) \/ getAgent_start(1) \/ registerMap(1)
           \/ getAgent_enter(1)
    BY <1>1, Operations
  <2>2. registerMap(1) => ssq[1].map = serverNameMap
    BY <2>1, Zenon DEF registerMap, Informed
  <2>3. Advised
    BY <2>1, <2>2, RegisterStartEffect, RegisterTellEffect, GetAgentStartEffect,
       RegisterMapEffect, EnterEffect, Zenon
  <2> QED
    BY <2>3, AdvisedFresh
<1>2. CASE (\E s \in Server : start_server(s)) \/ (\E u \in Uid : ask_agent(u))
  <2>1. UNCHANGED <<player, newCS, call>>
    BY <1>2, ArrivalEffect, Zenon DEF pvars
  <2> QED
    BY <2>1, SameFresh
<1>3. CASE \E s \in Server : name_arrives(s)
  <2>1. UNCHANGED <<player, newCS, call>>
    BY <1>3, Zenon DEF name_arrives, pvars
  <2> QED
    BY <2>1, SameFresh
<1>4. ASSUME NEW c \in Call, NEW k \in CallState, NEW p \in Player, CallStep(c, k, p)
      PROVE  Fresh'
  BY <1>4, CallStepFresh
<1>5. ASSUME NEW c \in Call, NEW u \in Uid, NEW s \in Server, doCall(c, u, s)
      PROVE  Fresh'
  <2>1. PICK k : NewCall(c, u, s, k)
    BY <1>5, DoCallEffect, Zenon
  <2> QED
    BY <2>1, NewCallFresh
<1> QED
  BY <1>1, <1>2, <1>3, <1>4, <1>5, GatewayCases, Zenon DEF GatewaySteps

\* An answer, or its failure, is dated by the question; who finds the agent in
\* place finds no question without an answer (newCS).
LEMMA CallStepDated ==
    ASSUME GatewayTypeOK, Dated,
           NEW c \in Call, NEW k \in CallState, NEW p \in Player, CallStep(c, k, p)
    PROVE  Dated'
<1> DEFINE u == call[c].u
           s == call[c].s
<1>1. /\ u \in Uid /\ s \in Server
      /\ \A d \in Call : call'[d] = IF d = c THEN k ELSE call[d]
      /\ \A v \in Uid, t \in Server : player'[v][t] =
            IF v = u /\ t = s THEN p ELSE player[v][t]
  BY CallStepEffect
<1>2. ASSUME NEW v \in Uid, NEW t \in Server, call[c].pc # "getAgent" \/ ~(v = u /\ t = s)
      PROVE  Asking(v, t) => Asking(v, t)'
  <2>1. SUFFICES ASSUME NEW d \in Call, call[d].pc = "getAgent", call[d].u = v, call[d].s = t
                 PROVE  Asking(v, t)'
    BY Zenon DEF Asking
  <2>2. call'[d] = call[d]
    BY <1>1, <1>2, <2>1, Zenon
  <2> QED
    BY <2>1, <2>2, Zenon DEF Asking
<1>3. ASSUME NEW v \in Uid, NEW t \in Server
      PROVE  \/ player'[v][t].asked = player'[v][t].dated
             \/ player'[v][t].asked = player'[v][t].failed \/ Asking(v, t)'
  <2>1. \/ player[v][t].asked = player[v][t].dated
        \/ player[v][t].asked = player[v][t].failed \/ Asking(v, t)
    BY Zenon DEF Dated
  <2>2. CASE ~(v = u /\ t = s)
    <3>1. player'[v][t] = player[v][t]
      BY <1>1, <2>2, Zenon
    <3> QED
      BY <1>2, <2>1, <2>2, <3>1, Zenon
  <2>3. CASE v = u /\ t = s
    <3>1. player'[v][t] = p /\ player[v][t] = P(c)
      BY <1>1, <2>3, Zenon DEF P
    <3>2. CASE call[c].pc = "query"
      <4>1. k.pc = "getAgent" /\ k.u = u /\ k.s = s
        BY <3>2, Zenon DEF CallStep
      <4>2. call'[c] = k
        BY <1>1, Zenon
      <4> QED
        BY <2>3, <4>1, <4>2, Zenon DEF Asking
    <3>3. CASE call[c].pc = "getAgent"
      <4>1. p.asked = p.dated \/ p.asked = p.failed
        BY <3>3, Zenon DEF CallStep
      <4> QED
        BY <3>1, <4>1, Zenon
    <3>4. CASE call[c].pc \notin {"query", "getAgent"}
      <4>1. SameDates(p, P(c))
        BY <3>4, Zenon DEF CallStep
      <4> QED
        BY <1>2, <2>1, <3>1, <3>4, <4>1, Zenon DEF SameDates
    <3> QED
      BY <3>2, <3>3, <3>4, Zenon
  <2> QED
    BY <2>2, <2>3, Zenon
<1> QED
  BY <1>3, Zenon DEF Dated

\* Every step keeps the dates.
LEMMA GatewayStepDated ==
    ASSUME GatewayTypeOK, Informed, Dated, Next
    PROVE  Dated'
<1>1. ASSUME call' = call,
             \A u \in Uid, s \in Server : SameDates(player'[u][s], player[u][s])
      PROVE  Dated'
  <2>1. \A u \in Uid, s \in Server : Asking(u, s) => Asking(u, s)'
    BY <1>1, Zenon DEF Asking
  <2> QED
    BY <1>1, <2>1, Zenon DEF Dated, SameDates
<1>2. CASE server_server
  <2>1. /\ ssq # << >> /\ ssq[1] \in Op
        /\ register_start(1) \/ register_tell(1) \/ getAgent_start(1) \/ registerMap(1)
           \/ getAgent_enter(1)
    BY <1>2, Operations
  <2>2. registerMap(1) => ssq[1].map = serverNameMap
    BY <2>1, Zenon DEF registerMap, Informed
  <2>3. Advised
    BY <2>1, <2>2, RegisterStartEffect, RegisterTellEffect, GetAgentStartEffect,
       RegisterMapEffect, EnterEffect, Zenon
  <2> QED
    BY <1>1, <2>3, Zenon DEF Advised, SameDates
<1>3. CASE (\E s \in Server : start_server(s)) \/ (\E u \in Uid : ask_agent(u))
  BY <1>1, <1>3, ArrivalEffect, Zenon DEF pvars, SameDates
<1>4. CASE \E s \in Server : name_arrives(s)
  BY <1>1, <1>4, Zenon DEF name_arrives, pvars, SameDates
<1>5. ASSUME NEW c \in Call, NEW k \in CallState, NEW p \in Player, CallStep(c, k, p)
      PROVE  Dated'
  BY <1>5, CallStepDated
<1>6. ASSUME NEW c \in Call, NEW u \in Uid, NEW s \in Server, doCall(c, u, s)
      PROVE  Dated'
  <2>1. PICK k : NewCall(c, u, s, k)
    BY <1>6, DoCallEffect, Zenon
  <2>2. player' = player /\ call[c].pc = "none" /\ call' = [call EXCEPT ![c] = k]
    BY <2>1, Zenon DEF NewCall
  <2>3. \A v \in Uid, t \in Server : Asking(v, t) => Asking(v, t)'
    <3>1. SUFFICES ASSUME NEW v \in Uid, NEW t \in Server, Asking(v, t)
                   PROVE  Asking(v, t)'
      BY Zenon
    <3>2. PICK d \in Call : call[d].pc = "getAgent" /\ call[d].u = v /\ call[d].s = t
      BY <3>1, Zenon DEF Asking
    <3>3. call'[d] = call[d]
      BY <2>2, <3>2, Zenon DEF GatewayTypeOK
    <3> QED
      BY <3>2, <3>3, Zenon DEF Asking
  <2> QED
    BY <2>2, <2>3, Zenon DEF Dated
<1> QED
  BY <1>2, <1>3, <1>4, <1>5, <1>6, GatewayCases, Zenon DEF GatewaySteps

\* Before the first package nothing is known and nothing is under way.
LEMMA GatewayInitially == Init => GatewayInv
<1> SUFFICES ASSUME Init PROVE GatewayInv
  OBVIOUS
<1>1. Unknown \in Player /\ Unknown.told = 0 /\ Unknown.asked = 0 /\ Unknown.dated = 0
  BY DEF Unknown, Player
<1>2. [pc |-> "none"] \in [pc : {"none", "done"}] /\ [pc |-> "none"].pc = "none"
  OBVIOUS
<1>3. << >> \in Seq(Op) /\ << >> \in Seq(Call) /\ DOMAIN << >> = {} /\ 0 \in Nat /\ 0 <= 0
  OBVIOUS
<1>4. /\ \A u \in Uid, s \in Server : player[u][s] = Unknown
      /\ \A s \in Server : serverNameMap[s] = 0
      /\ \A c \in Call : call[c].pc = "none"
  BY <1>2, Zenon DEF Init
<1>5. GatewayTypeOK
  <2> DEFINE z == 0
             n == [pc |-> "none"]
  <2>1. z \in Nat /\ n \in CallState
    BY <1>2, <1>3 DEF CallState
  <2>2. /\ serverNameMap = [s \in Server |-> z] /\ instance = [s \in Server |-> z]
        /\ resolved = [s \in Server |-> z] /\ call = [c \in Call |-> n]
        /\ player = [u \in Uid |-> [s \in Server |-> Unknown]]
        /\ newCS = [u \in Uid |-> [s \in Server |-> << >>]]
        /\ ssq = << >> /\ uidAgentMap = {}
    BY Zenon DEF Init
  <2> HIDE DEF z, n
  <2>3. call \in [Call -> CallState]
    BY <2>1, <2>2, Zenon
  <2>4. /\ serverNameMap \in [Server -> Nat] /\ instance \in [Server -> Nat]
        /\ resolved \in [Server -> Nat] /\ player \in [Uid -> [Server -> Player]]
        /\ newCS \in [Uid -> [Server -> Seq(Call)]]
    BY <1>1, <1>3, <2>1, <2>2, Zenon
  <2> QED
    BY <1>3, <2>2, <2>3, <2>4, Zenon DEF GatewayTypeOK
<1>6. Informed
  BY <1>1, <1>3, <1>4, Zenon DEF Init, Informed
<1>7. Fresh
  BY <1>1, <1>3, <1>4, Zenon DEF Fresh
<1>8. Dated
  BY <1>1, <1>4, Zenon DEF Dated
<1> QED
  BY <1>5, <1>6, <1>7, <1>8 DEF GatewayInv

\* GatewayInv is inductive.
LEMMA GatewayInductive == GatewayInv /\ [Next]_vars => GatewayInv'
<1>1. ASSUME GatewayInv, Next PROVE GatewayInv'
  BY <1>1, GatewayStepTypes, GatewayStepInformed, GatewayStepFresh,
     GatewayStepDated DEF GatewayInv
<1>2. ASSUME GatewayInv, UNCHANGED vars PROVE GatewayInv'
  <2>1. UNCHANGED <<ssq, serverNameMap, uidAgentMap, player, newCS, call, instance, resolved>>
    BY <1>2, Zenon DEF vars, svars, pvars
  <2>2. GatewayTypeOK'
    BY <1>2, <2>1, Zenon DEF GatewayInv, GatewayTypeOK
  <2>3. Informed'
    BY <1>2, <2>1, ZenonT(60) DEF GatewayInv, Informed, Telling
  <2>4. Fresh'
    BY <1>2, <2>1, SameFresh DEF GatewayInv
  <2>5. Dated'
    BY <1>2, <2>1, Zenon DEF GatewayInv, Dated, Asking
  <2> QED
    BY <2>2, <2>3, <2>4, <2>5 DEF GatewayInv
<1> QED
  BY <1>1, <1>2

\* The inductive invariant of the gateway holds in every reachable state.
THEOREM GatewayInvariance == Spec => []GatewayInv
BY GatewayInitially, GatewayInductive, PTL DEF Spec

(***************************************************************************)
(* Whenever server_server (server_server.lua, register and getAgent) has   *)
(* nothing left to do, every user it knows has been told of the last       *)
(* registration of every game server, for any number of users, servers,    *)
(* calls and instances.                                                    *)
(***************************************************************************)
THEOREM RegistrationsReachUsers == Spec => []NoRegistrationLost
<1>1. GatewayInv => NoRegistrationLost
  BY Zenon DEF GatewayInv, Informed, Telling, NoRegistrationLost
<1> QED
  BY <1>1, GatewayInvariance, PTL

\* A call that goes was not told of more than the last question for its agent was
\* put after (Fresh), and that question has been answered (Dated).
LEMMA GoesToFresh ==
    ASSUME GatewayInv, Next, NEW c \in Call, Goes(c)
    PROVE  call[c].told <= P(c)'.dated \/ call[c].told <= P(c)'.failed
<1>0. GatewayTypeOK /\ Informed /\ Fresh /\ Dated /\ GatewayTypeOK' /\ Fresh' /\ Dated'
  BY GatewayInductive DEF GatewayInv
<1>1. PICK k \in CallState, p \in Player : CallStep(c, k, p)
  <2>1. call'[c] # call[c] /\ call'[c].pc # "check" /\ call'[c].pc # "done"
    BY Zenon DEF Goes
  <2>2. \A s \in Server : name_arrives(s) => call' = call
    BY Zenon DEF name_arrives, pvars
  <2>3. server_server => call' = call
    <3>1. SUFFICES ASSUME server_server PROVE call' = call
      OBVIOUS
    <3>2. \E i \in DOMAIN ssq : \/ register_start(i) \/ register_tell(i) \/ getAgent_start(i)
                                \/ registerMap(i) \/ getAgent_enter(i)
      BY <3>1, Zenon DEF server_server
    <3> QED
      BY <3>2, Zenon DEF register_start, register_tell, getAgent_start, registerMap,
                         getAgent_enter, pvars
  <2>4. (\E s \in Server : start_server(s)) \/ (\E u \in Uid : ask_agent(u)) => call' = call
    BY <1>0, ArrivalEffect, Zenon DEF pvars
  <2>5. ASSUME NEW d \in Call, NEW u \in Uid, NEW s \in Server, doCall(d, u, s)
        PROVE  FALSE
    <3>1. PICK k : NewCall(d, u, s, k)
      BY <1>0, <2>5, DoCallEffect, Zenon
    <3>2. call' = [call EXCEPT ![d] = k] /\ (k.pc = "check" \/ k.pc = "done")
      BY <3>1, Zenon DEF NewCall
    <3>3. call'[c] = call[c] \/ call'[c] = k
      BY <1>0, <3>2, Zenon DEF GatewayTypeOK
    <3> QED
      BY <2>1, <3>2, <3>3, Zenon
  <2>6. ASSUME NEW d \in Call, NEW k \in CallState, NEW p \in Player, CallStep(d, k, p)
        PROVE  d = c
    BY <1>0, <2>1, <2>6, CallStepEffect, Zenon
  <2>7. \/ \E d \in Call, k \in CallState, p \in Player : CallStep(d, k, p)
        \/ \E d \in Call, u \in Uid, s \in Server : doCall(d, u, s)
    <3>1. GatewaySteps
      BY <1>0, GatewayCases, Zenon
    <3> QED
      BY <2>1, <2>2, <2>3, <2>4, <3>1, Zenon DEF GatewaySteps
  <2>8. \E d \in Call, k \in CallState, p \in Player : CallStep(d, k, p)
    BY <2>5, <2>7, Zenon
  <2> QED
    BY <2>6, <2>8, Zenon
<1> DEFINE u == call[c].u
           s == call[c].s
<1>2. /\ u \in Uid /\ s \in Server /\ call'[c] = k
      /\ player'[u][s] = p
  <2>1. /\ u \in Uid /\ s \in Server
        /\ \A d \in Call : call'[d] = IF d = c THEN k ELSE call[d]
        /\ \A v \in Uid, t \in Server : player'[v][t] =
              IF v = u /\ t = s THEN p ELSE player[v][t]
    BY <1>0, <1>1, CallStepEffect
  <2> HIDE DEF u, s
  <2> QED
    BY <2>1, Zenon
<1>3. /\ k.pc = "calling" /\ k.u = u /\ k.s = s /\ k.told = call[c].told
  BY <1>1, <1>2, Zenon DEF CallStep, Goes
<1>4. P(c)' = p
  BY <1>2, <1>3, Zenon DEF P
<1>5. call[c].told <= p.asked
  BY <1>0, <1>2, <1>3, <1>4, Zenon DEF Fresh
<1>6. p.asked = p.dated \/ p.asked = p.failed
  <2>1. CASE call[c].pc = "getAgent"
    BY <1>1, <1>3, <2>1, Zenon DEF CallStep
  <2>2. CASE call[c].pc # "getAgent"
    <3>1. /\ call[c].pc = "check" /\ Holds(c) /\ SameDates(p, P(c))
      BY <1>1, <1>3, <2>2, Zenon DEF CallStep
    <3>2. ~Asking(u, s)
      <4>1. SUFFICES ASSUME NEW d \in Call, call[d].pc = "getAgent", call[d].u = u, call[d].s = s
                     PROVE  FALSE
        BY Zenon DEF Asking
      <4>2. Holds(d)
        BY <1>0, <4>1, Zenon DEF Fresh
      <4>3. d = c
        BY <3>1, <4>1, <4>2, Zenon DEF Holds
      <4> QED
        BY <3>1, <4>1, <4>3, Zenon
    <3>3. P(c) = player[u][s]
      BY Zenon DEF P
    <3> QED
      BY <1>0, <1>2, <3>1, <3>2, <3>3, Zenon DEF Dated, SameDates
  <2> QED
    BY <2>1, <2>2
<1> QED
  BY <1>4, <1>5, <1>6, Zenon

(***************************************************************************)
(* checkAgent (server_player.lua) sends a call to an agent that was asked  *)
(* for after every registration its player knew of when the call arrived,  *)
(* unless the take-over tried after the last of them failed, however calls,*)
(* take-overs, registrations and failures interleave.                      *)
(***************************************************************************)
THEOREM CallsReachFreshAgents == Spec => FreshAgent
<1>1. ASSUME GatewayInv, [Next]_vars
      PROVE  [\A c \in Call : Goes(c) =>
                 call[c].told <= P(c)'.dated \/ call[c].told <= P(c)'.failed]_vars
  BY <1>1, GoesToFresh, Zenon
<1> QED
  BY <1>1, GatewayInvariance, PTL DEF Spec, FreshAgent
=============================================================================
