------------------------------ MODULE MCWaiting ------------------------------
(***************************************************************************)
(* Who waits for whom, for TLC: threads for the read-write lock,           *)
(* coroutines for the critical section, and calls of users for a take-over *)
(* of the game server they go to.  They share nothing; part says which one *)
(* a behaviour is about.                                                   *)
(***************************************************************************)
EXTENDS RWLock, CriticalSection, PlayerGateway

VARIABLE part
allvars == <<part, rwvars, csvars, vars>>

LockPart(A) == part = "rwlock" /\ A /\ UNCHANGED <<part, csvars, vars>>
SectionPart(A) == part = "section" /\ A /\ UNCHANGED <<part, rwvars, vars>>
GatewayPart(A) == part = "gateway" /\ A /\ UNCHANGED <<part, rwvars, csvars>>

MCInit == part \in {"rwlock", "section", "gateway"} /\ RWInit /\ CSInit /\ Init

\* The calls of users differ in nothing but their numbers, which they get in the
\* order in which they are made.
Numbered == \A c, d \in Call : d < c /\ call'[d].pc = "none" => call'[c].pc = "none"

MCNext == LockPart(RWNext) \/ SectionPart(CSNext) \/ GatewayPart(Next /\ Numbered)

\* The fairness of RWSpec, of CSFairSpec and of PlayerGateway.
MCSpec ==
    /\ MCInit /\ [][MCNext]_allvars
    /\ \A t \in Thread : WF_allvars(LockPart(Step(t)))
    /\ \A k \in Coroutine : WF_allvars(SectionPart(Resume(k))) /\ []<>(status[k] # "in")
    /\ WF_allvars(GatewayPart(server_server))
    /\ \A s \in Server : WF_allvars(GatewayPart(name_arrives(s)))
    /\ \A c \in Call : WF_allvars(GatewayPart(server_player(c)))

=============================================================================
