------------------------------ MODULE MCSockets ------------------------------
(***************************************************************************)
(* Sockets, for TLC: the socket thread with two services that use it, and  *)
(* the coroutines of one service that share a connection through a socket  *)
(* channel.  They share nothing; part says which one a behaviour is about. *)
(***************************************************************************)
EXTENDS SocketServer, TLC
CONSTANTS s1, s2

NoCalls == [c \in {"O", "L", "B", "U", "S", "K", "shutdown", "D", "P", "A", "C"} |-> 0]
Calls(f, g) == s1 :> (f @@ NoCalls) @@ s2 :> (g @@ NoCalls)

\* Two services share one connection; a slot is used by two connections in
\* turn; a listener accepts; datagrams; a bound descriptor.
MCWorkloads ==
    { Calls("O" :> 1 @@ "D" :> 2 @@ "K" :> 1, "D" :> 1),
      Calls("O" :> 1 @@ "P" :> 1, "D" :> 1 @@ "K" :> 1),
      Calls("O" :> 3, "D" :> 1),
      Calls("L" :> 1 @@ "S" :> 2 @@ "K" :> 1, "D" :> 1),
      Calls("U" :> 1 @@ "C" :> 1 @@ "D" :> 1, "A" :> 1 @@ "K" :> 1),
      Calls("B" :> 1 @@ "shutdown" :> 1, "O" :> 1 @@ "D" :> 1),
      Calls("B" :> 1 @@ "D" :> 1 @@ "K" :> 1, "P" :> 1) }

\* The coroutines that make requests, in the order in which they make them: they
\* differ in nothing else.
ReqOrder == <<"a", "b", "c">>
MCReq == Range(ReqOrder)

CONSTANTS Req, Parts, MaxConn, UserCalls
VARIABLES mode, sock, closed, connecting, queue, dispatch, conn, inbox, cpu, wq, forked, pc,
          result, user, dropped

C == INSTANCE SocketChannel

cvars == <<mode, sock, closed, connecting, queue, dispatch, conn, inbox, cpu, wq, forked, pc,
           result, user, dropped>>

-----------------------------------------------------------------------------
VARIABLE part
allvars == <<part, vars, cvars>>

ServerPart(A) == part = "server" /\ A /\ UNCHANGED <<part, cvars>>
ChannelPart(A) == part = "channel" /\ A /\ UNCHANGED <<part, vars>>

MCInit == /\ Init /\ C!Init
          /\ \/ part = "server" /\ mode = "order" /\ user = {}
             \/ part = "channel" /\ calls = CHOOSE w \in Workloads : TRUE
InTurn == \A i, j \in DOMAIN ReqOrder :
              i < j /\ pc'[ReqOrder[i]][1] = "idle" => pc'[ReqOrder[j]][1] = "idle"
MCNext == ServerPart(Next) \/ ChannelPart(C!Next /\ InTurn)

\* The fairness of SocketServer and of SocketChannel; part never changes, so one
\* condition may stand for an action of each.
MCSpec ==
    /\ MCInit /\ [][MCNext]_allvars
    /\ WF_allvars(ServerPart(SocketThread) \/ ChannelPart(C!ServiceStep))
    /\ WF_allvars(\/ ServerPart(\E ready \in SUBSET Slot : sp_wait(ready))
                  \/ ChannelPart(\E r \in Req : C!open_result(r)))
    /\ \A i \in Slot : SF_allvars(ServerPart(Writable(i)))
    /\ \A t \in Service : WF_allvars(ServerPart(Sending(t)))
    /\ \A k \in C!Conn : WF_allvars(ChannelPart(C!Busy(k) /\ C!Network(k)))

-----------------------------------------------------------------------------
\* A request gets its own answer or an error, never another's answer
\* (SocketChannel).
RightAnswer == C!RightAnswer

\* In order mode the coroutines that wait are those whose answers are still to
\* come, in the same order (SocketChannel).
InStep == C!InStep

\* Every request ends with its answer or an error (SocketChannel).
RequestsEnd == C!RequestsEnd
=============================================================================
