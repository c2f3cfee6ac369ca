--------------------------- MODULE LuaServiceProofs ---------------------------
(***************************************************************************)
(* The safety properties of LuaService, for every set of coroutines and    *)
(* peers and every bound: the tables of skynet.lua agree, no answer is     *)
(* lost or left over, a request is answered once, nothing woken is left    *)
(* when a message is done, and an exit reports to every caller.            *)
(***************************************************************************)
EXTENDS LuaService, FiniteSetTheorems, TLAPS

USE SMTT(100), ZenonT(100)

(* The inductive invariant *)
\* The ways between coroutines, sessions and tokens: a blocked coroutine has one
\* session, a sleeping one a token, a calling one a watched session.
Ways ==
    /\ \A c \in Co : status[c] \in Waiting => \E s \in Session : session_id_coroutine[s] = c
    /\ \A s \in Session :
          session_id_coroutine[s] \in Co => status[session_id_coroutine[s]] \in Waiting
    /\ \A s, u \in Session :
          session_id_coroutine[s] \in Co /\ session_id_coroutine[s] = session_id_coroutine[u]
             => s = u
    /\ \A c \in Co : status[c] \in {"sleep", "wait"} <=> sleep_session[c] # None
    /\ \A c \in Co : sleep_session[c] # None => session_id_coroutine[sleep_session[c]] = c
    /\ \A s \in Session : watching_session[s] # None <=>
          session_id_coroutine[s] \in Co /\ status[session_id_coroutine[s]] = "call"

\* A session that has not been allocated is named nowhere.
Unallocated ==
    \A s \in Session : s > next_session =>
        /\ session_id_coroutine[s] = None
        /\ owed[s] = "no"
        /\ s \notin Queued(error_queue)

\* What the interpreter is doing agrees with the coroutines and with the frames.
Machine ==
    /\ mode = "run" => status[running] = "run"
    /\ \A c \in fork_queue : status[c] = "fork"
    /\ mode \in {"wakeup", "error"} => depth > 0

\* Who owes the answer to session s, by what waits for it.
OwingOf(s) ==
    LET c == session_id_coroutine[s]
        settled == owed[s] \in {"no"} \cup dead \cup termed
    IN  /\ c \in Co => /\ status[c] = "wait" => owed[s] = "no"
                       /\ status[c] \in {"sleep", "timeout"} => owed[s] = "timer"
                       /\ status[c] = "call" =>
                             \/ owed[s] = watching_session[s]
                             \/ owed[s] = "no" /\ s \in Queued(error_queue)
        /\ c = BREAK => owed[s] = "timer"
        /\ c = None => settled
        /\ s \in Queued(error_queue) => settled
Owing == \A s \in Session : OwingOf(s)

\* Until the exit a request is answered once, held by one coroutine, or in
\* unresponse; a coroutine that does not run holds none.
Holds(r) == \E c \in Co : session_coroutine_id[c] = r
Settled(r) == answers[r] > 0 \/ r \in forgot \/ ~Live(from[r])
RequestOf(r) ==
    /\ Holds(r) => answers[r] = 0 /\ r \notin unresponse /\ r <= Len(from)
    /\ r \in unresponse => answers[r] = 0 /\ r <= Len(from)
    /\ answers[r] \in {0, 1} /\ (answers[r] = 1 => r <= Len(from))
    /\ r <= Len(from) => Settled(r) \/ Holds(r) \/ r \in unresponse
Requests ==
    ~exited =>
        /\ \A r \in Request : RequestOf(r)
        /\ \A c, d \in Co :
              session_coroutine_id[c] \in Request /\ session_coroutine_id[c] = session_coroutine_id[d]
                 => c = d
        /\ \A c \in Co : status[c] \in {"pool", "unused"} => session_coroutine_id[c] = None

\* Once the service has exited, and if no message follows, all is settled.
Exiting ==
    /\ gone => exited
    /\ ~Batch /\ exited => \A r \in Request : r <= Len(from) => Settled(r)

\* While anything is queued something will look at it: a frame of suspend(), or
\* the function forked after an error.  What is queued still sleeps or calls.
Distinct(q) == \A i, j \in DOMAIN q : q[i] = q[j] => i = j
Flow ==
    ~exited /\ ~twice /\ termed = {} =>
        /\ wakeup_queue # << >> =>
              mode \in {"run", "wakeup"} \/ (mode = "fork" /\ trigger > 0)
        /\ error_queue # << >> =>
              mode \in {"run", "wakeup", "error"} \/ (mode = "fork" /\ trigger > 0)
        /\ Distinct(wakeup_queue)
        /\ \A c \in Queued(wakeup_queue) : sleep_session[c] # None
        /\ Distinct(error_queue)
        /\ \A s \in Queued(error_queue) : watching_session[s] # None

IInv == /\ TypeOK /\ Ways /\ Unallocated /\ Machine
        /\ Owing /\ Requests /\ Exiting /\ Flow

-------------------------------------------------------------------------------
(* Queues *)

\* What Head and Tail do to a queue.
LEMMA TailQueued ==
    ASSUME NEW S, NEW q \in Seq(S), q # << >>
    PROVE  /\ Head(q) \in S /\ Tail(q) \in Seq(S)
           /\ Queued(q) = {Head(q)} \cup Queued(Tail(q))
           /\ Distinct(q) => Distinct(Tail(q)) /\ Head(q) \notin Queued(Tail(q))
<1>1. Len(q) \in Nat \ {0} /\ DOMAIN q = 1 .. Len(q) /\ Head(q) = q[1] /\ Head(q) \in S
  OBVIOUS
<1>2. /\ Tail(q) \in Seq(S) /\ DOMAIN Tail(q) = 1 .. Len(q) - 1
      /\ \A i \in 1 .. Len(q) - 1 : Tail(q)[i] = q[i + 1]
  OBVIOUS
<1>3. Queued(q) = {Head(q)} \cup Queued(Tail(q))
  <2>1. \A x \in Queued(q) : x = Head(q) \/ x \in Queued(Tail(q))
    <3> SUFFICES ASSUME NEW i \in DOMAIN q, i # 1 PROVE q[i] \in Queued(Tail(q))
      BY <1>1 DEF Queued
    <3>1. i - 1 \in 1 .. Len(q) - 1 /\ (i - 1) + 1 = i
      BY <1>1
    <3> QED
      BY <1>2, <3>1 DEF Queued
  <2>2. Queued(Tail(q)) \subseteq Queued(q)
    <3> SUFFICES ASSUME NEW i \in 1 .. Len(q) - 1 PROVE q[i + 1] \in Queued(q)
      BY <1>2 DEF Queued
    <3> QED
      BY <1>1 DEF Queued
  <2> QED
    BY <1>1, <2>1, <2>2 DEF Queued
<1>4. ASSUME Distinct(q) PROVE Distinct(Tail(q)) /\ Head(q) \notin Queued(Tail(q))
  BY <1>1, <1>2, <1>4 DEF Distinct, Queued
<1> QED
  BY <1>1, <1>2, <1>3, <1>4

\* What Append does to a queue.
LEMMA AppendQueued ==
    ASSUME NEW S, NEW q \in Seq(S), NEW x \in S
    PROVE  /\ Append(q, x) \in Seq(S)
           /\ Queued(Append(q, x)) = Queued(q) \cup {x}
           /\ Distinct(q) /\ x \notin Queued(q) => Distinct(Append(q, x))
<1>1. /\ Append(q, x) \in Seq(S) /\ Len(q) \in Nat /\ DOMAIN q = 1 .. Len(q)
      /\ DOMAIN Append(q, x) = 1 .. Len(q) + 1 /\ Append(q, x)[Len(q) + 1] = x
      /\ \A i \in 1 .. Len(q) : Append(q, x)[i] = q[i]
  OBVIOUS
<1>2. DOMAIN Append(q, x) = DOMAIN q \cup {Len(q) + 1}
  BY <1>1
<1>3. Queued(Append(q, x)) = Queued(q) \cup {x}
  BY <1>1, <1>2, ZenonT(100) DEF Queued
<1>4. ASSUME Distinct(q), x \notin Queued(q) PROVE Distinct(Append(q, x))
  BY <1>1, <1>2, <1>4, ZenonT(100) DEF Distinct, Queued
<1> QED
  BY <1>1, <1>3, <1>4

\* A session joins error_queue.
LEMMA AppendSession ==
    \A q \in Seq(Session), s \in Session :
        /\ Append(q, s) \in Seq(Session)
        /\ Queued(Append(q, s)) = Queued(q) \cup {s}
        /\ Distinct(q) /\ s \notin Queued(q) => Distinct(Append(q, s))
BY AppendQueued, ZenonT(100)

\* A token joins wakeup_queue.
LEMMA AppendCoroutine ==
    \A q \in Seq(Co), c \in Co :
        /\ Append(q, c) \in Seq(Co)
        /\ Queued(Append(q, c)) = Queued(q) \cup {c}
        /\ Distinct(q) /\ c \notin Queued(q) => Distinct(Append(q, c))
BY AppendQueued, ZenonT(100)

\* What is queued by one queue after another.
LEMMA ConcatQueued ==
    ASSUME NEW S, NEW q \in Seq(S), NEW r \in Seq(S)
    PROVE  q \o r \in Seq(S) /\ Queued(q \o r) = Queued(q) \cup Queued(r)
<1>1. /\ q \o r \in Seq(S) /\ Len(q) \in Nat /\ Len(r) \in Nat
      /\ DOMAIN q = 1 .. Len(q) /\ DOMAIN r = 1 .. Len(r) /\ DOMAIN (q \o r) = 1 .. Len(q) + Len(r)
      /\ \A i \in 1 .. Len(q) : (q \o r)[i] = q[i]
      /\ \A i \in 1 .. Len(r) : (q \o r)[Len(q) + i] = r[i]
  OBVIOUS
<1>2. \A x \in Queued(q \o r) : x \in Queued(q) \cup Queued(r)
  <2> SUFFICES ASSUME NEW i \in DOMAIN (q \o r) PROVE (q \o r)[i] \in Queued(q) \cup Queued(r)
    BY DEF Queued
  <2>1. i \in 1 .. Len(q) \/ (i - Len(q) \in 1 .. Len(r) /\ Len(q) + (i - Len(q)) = i)
    BY <1>1
  <2> QED
    BY <1>1, <2>1 DEF Queued
<1>3. \A i \in 1 .. Len(q) : q[i] \in Queued(q \o r)
  <2> TAKE i \in 1 .. Len(q)
  <2>1. i \in DOMAIN (q \o r)
    BY <1>1
  <2> QED
    BY <1>1, <2>1 DEF Queued
<1>4. \A i \in 1 .. Len(r) : r[i] \in Queued(q \o r)
  <2> TAKE i \in 1 .. Len(r)
  <2>1. Len(q) + i \in DOMAIN (q \o r)
    BY <1>1
  <2> QED
    BY <1>1, <2>1, ZenonT(100) DEF Queued
<1>5. Queued(q) \cup Queued(r) \subseteq Queued(q \o r)
  BY <1>1, <1>3, <1>4 DEF Queued
<1> QED
  BY <1>1, <1>2, <1>5

\* The sessions sent to p are queued once each, in whatever order.
LEMMA WatchedQueued ==
    ASSUME NEW p, NEW q \in Watched(p)
    PROVE  /\ q \in Seq(Session) /\ Distinct(q)
           /\ Queued(q) = {s \in Session : watching_session[s] = p}
<1> DEFINE S == {s \in Session : watching_session[s] = p}
<1>1. q \in [1 .. Cardinality(S) -> S] /\ Queued(q) = S
  BY DEF Watched
<1>2. IsFiniteSet(S) /\ Cardinality(S) \in Nat
  <2>1. IsFiniteSet(Session)
    BY FS_Interval, ConstantsOK DEF Session
  <2>2. S \in SUBSET Session
    OBVIOUS
  <2> HIDE DEF S
  <2>3. IsFiniteSet(S)
    BY <2>1, <2>2, FS_Subset
  <2> QED
    BY <2>3, FS_CardinalityType
<1>3. S \subseteq Session
  OBVIOUS
<1> DEFINE n == Cardinality(S)
<1> HIDE DEF S
<1>4. IsFiniteSet(1 .. n) /\ Cardinality(1 .. n) = n
  BY <1>2, FS_Interval
<1>5. DOMAIN q = 1 .. n
  BY <1>1
<1>6. q \in Surjection(1 .. n, S)
  BY <1>1, <1>5 DEF Queued, Surjection
<1>7. q \in Injection(1 .. n, S)
  BY <1>4, <1>6, FS_SurjSameCardinalityImpliesInj
<1>8. Distinct(q)
  BY <1>5, <1>7, ZenonT(100) DEF Distinct, Injection, IsInjective
<1>9. q \in Seq(Session)
  BY <1>1, <1>2, <1>3
<1> QED
  BY <1>1, <1>8, <1>9 DEF S

(* Numbers *)

\* depth, trigger and next_session.
LEMMA Counting ==
    \A n \in Nat : /\ n + 1 \in Nat /\ n + 1 > 0 /\ n + 1 # 0
                   /\ n > 0 => n - 1 \in Nat
                   /\ n # 0 => n > 0
                   /\ \A m \in Nat : m > n + 1 => m > n /\ m # n + 1
                   /\ ~(n + 1 <= n) /\ n + 1 > n
OBVIOUS

\* A session that can be allocated.
LEMMA Allocates ==
    ASSUME NEW n \in 0 .. MaxSession
    PROVE  /\ n \in Nat
           /\ n < MaxSession => n + 1 \in 0 .. MaxSession /\ n + 1 \in Session
BY ConstantsOK DEF Session

\* Sessions are numbers.
LEMMA SessionNat == Session \subseteq Nat /\ None \notin Session
BY ConstantsOK DEF Session

\* Requests are numbers; 0, a message without session, is none of them.
LEMMA RequestNat == Request \subseteq Nat /\ 0 \notin Request /\ None \notin Request
BY ConstantsOK DEF Request

\* A new request.
LEMMA Arrives ==
    ASSUME NEW f \in Seq(Peer), NEW p \in Peer
    PROVE  /\ Len(f) \in Nat /\ Append(f, p) \in Seq(Peer) /\ Len(Append(f, p)) = Len(f) + 1
           /\ Len(f) < MaxRequest => Len(f) + 1 \in Request /\ Len(f) + 1 <= MaxRequest
           /\ \A r \in Request : /\ r <= Len(f) + 1 <=> r <= Len(f) \/ r = Len(f) + 1
                                 /\ r <= Len(f) => Append(f, p)[r] = f[r]
           /\ ~(Len(f) + 1 <= Len(f))
BY ConstantsOK DEF Request

\* The request that a step adds to from is the next one, and the others stay.
LEMMA Arrival ==
    ASSUME from \in Seq(Peer), NEW p \in Peer, Len(from) < MaxRequest, from' = Append(from, p)
    PROVE  /\ Len(from) + 1 \in Request /\ ~(Len(from) + 1 <= Len(from))
           /\ \A r \in Request : /\ r <= Len(from') <=> r <= Len(from) \/ r = Len(from) + 1
                                 /\ r <= Len(from) => from'[r] = from[r]
<1>1. /\ Len(Append(from, p)) = Len(from) + 1
      /\ Len(from) + 1 \in Request /\ ~(Len(from) + 1 <= Len(from))
      /\ \A r \in Request : /\ r <= Len(from) + 1 <=> r <= Len(from) \/ r = Len(from) + 1
                            /\ r <= Len(from) => Append(from, p)[r] = from[r]
  BY Arrives, ZenonT(100)
<1>2. Len(from') = Len(from) + 1
  BY <1>1, ZenonT(100)
<1> QED
  BY <1>1, <1>2, ZenonT(100)

\* A flag that a step leaves alone.
LEMMA SameFlags ==
    /\ exited' = exited /\ ~exited' => ~exited
    /\ twice' = twice /\ ~twice' => ~twice
OBVIOUS

\* skynet.exit reports the requests whose closure has not been called.
LEMMA ReportsClosures == \A r \in unresponse : r \in Reported
BY DEF Reported

\* The first numbers.
LEMMA One == 0 \in Nat /\ 0 + 1 = 1 /\ 1 > 0 /\ 0 # 1 /\ ~(0 > 0)
OBVIOUS

\* Nothing is queued by the empty queue.
LEMMA NothingQueued ==
    /\ Queued(<< >>) = {} /\ Distinct(<< >>)
    /\ \A q \in Seq(Session) : << >> \o q = q
    /\ \A s \in Session : Append(<< >>, s) \in Seq(Session)
    /\ << >> \in Seq(Session)
BY DEF Queued, Distinct

-------------------------------------------------------------------------------
(* What the invariant implies *)

\* dispatch_wakeup takes the head of wakeup_queue.
LEMMA TailCoroutine ==
    \A q \in Seq(Co) : q # << >> =>
        /\ Head(q) \in Co /\ Queued(q) = {Head(q)} \cup Queued(Tail(q))
        /\ Distinct(q) => Distinct(Tail(q)) /\ Head(q) \notin Queued(Tail(q))
BY TailQueued, ZenonT(100)

\* dispatch_error_queue takes the head of error_queue.
LEMMA TailSession ==
    \A q \in Seq(Session) : q # << >> =>
        /\ Head(q) \in Session /\ Queued(q) = {Head(q)} \cup Queued(Tail(q))
        /\ Distinct(q) => Distinct(Tail(q)) /\ Head(q) \notin Queued(Tail(q))
BY TailQueued, ZenonT(100)

\* What the queues hold.
LEMMA QueuedIn ==
    /\ \A q \in Seq(Co) : Queued(q) \subseteq Co
    /\ \A q \in Seq(Session) : Queued(q) \subseteq Session
BY DEF Queued

\* The types of the first state.
LEMMA Start ==
    /\ << >> \in Seq(Peer) /\ << >> \in Seq(Co) /\ << >> \in Seq(Session)
    /\ Len(<< >>) <= MaxRequest /\ 0 \in 0 .. MaxSession /\ 0 \in Nat
    /\ \A r \in Request : ~(r <= Len(<< >>))
BY ConstantsOK DEF Request

\* The ways give each waiting coroutine its one session.
LEMMA InvOneWayBack == ASSUME TypeOK, Ways PROVE OneWayBack
<1>1. ASSUME NEW c \in Co
      PROVE  LET S == {s \in Session : session_id_coroutine[s] = c}
             IN  /\ Cardinality(S) = IF status[c] \in Waiting THEN 1 ELSE 0
                 /\ IF status[c] \in {"sleep", "wait"} THEN S = {sleep_session[c]}
                                                       ELSE sleep_session[c] = None
  <2> DEFINE S == {s \in Session : session_id_coroutine[s] = c}
  <2>1. CASE status[c] \in Waiting
    <3>1. PICK s \in Session : session_id_coroutine[s] = c
      BY <2>1 DEF Ways
    <3>2. S = {s}
      <4>1. \A u \in Session : session_id_coroutine[u] = c => u = s
        BY <3>1, ZenonT(100) DEF Ways
      <4> QED
        BY <3>1, <4>1, ZenonT(100)
    <3>3. Cardinality(S) = 1
      BY <3>2, FS_Singleton, ZenonT(100)
    <3>4. CASE status[c] \in {"sleep", "wait"}
      <4>1. sleep_session[c] # None /\ session_id_coroutine[sleep_session[c]] = c
        BY <3>4, ZenonT(100) DEF Ways
      <4>2. sleep_session[c] \in Session
        BY <4>1, ZenonT(100) DEF TypeOK
      <4> QED
        BY <2>1, <3>1, <3>2, <3>3, <3>4, <4>1, <4>2, ZenonT(100)
    <3>5. CASE status[c] \notin {"sleep", "wait"}
      BY <2>1, <3>3, <3>5, ZenonT(100) DEF Ways
    <3> QED
      BY <3>4, <3>5, ZenonT(100)
  <2>2. CASE status[c] \notin Waiting
    <3>1. S = {}
      <4>1. ASSUME NEW u \in Session, session_id_coroutine[u] = c PROVE FALSE
        <5>1. status[session_id_coroutine[u]] \in Waiting
          BY <4>1, ZenonT(100) DEF Ways
        <5> QED
          BY <2>2, <4>1, <5>1, ZenonT(100)
      <4> QED
        BY <4>1, ZenonT(100)
    <3>2. Cardinality(S) = 0
      BY <3>1, FS_EmptySet, ZenonT(100)
    <3>3. status[c] \notin {"sleep", "wait"} /\ sleep_session[c] = None
      BY <2>2, ZenonT(100) DEF Ways, Waiting
    <3> QED
      BY <2>2, <3>2, <3>3, ZenonT(100)
  <2> QED
    BY <2>1, <2>2, ZenonT(100)
<1>2. \A s \in Session : watching_session[s] # None <=>
         \E c \in Co : session_id_coroutine[s] = c /\ status[c] = "call"
  BY ZenonT(100) DEF Ways
<1> QED
  BY <1>1, <1>2, ZenonT(100) DEF OneWayBack

\* Who owes what decides whether an answer is still to come.
LEMMA InvAnswerToCome == ASSUME TypeOK, Ways, Owing PROVE AnswerToCome
<1> SUFFICES ASSUME NEW s \in Session
             PROVE  LET c == session_id_coroutine[s]
                    IN  /\ c \in Co /\ status[c] # "wait" =>
                              owed[s] # "no" \/ s \in Queued(error_queue)
                        /\ owed[s] \notin {"no"} \cup dead \cup termed => c # None
  BY ZenonT(100) DEF AnswerToCome
<1>1. OwingOf(s)
  BY DEF Owing
<1>2. watching_session[s] \in Peer \cup {None} /\ "no" \notin Peer
  BY ConstantsOK, ZenonT(100) DEF TypeOK
<1>3. CASE session_id_coroutine[s] \in Co
  <2>1. status[session_id_coroutine[s]] \in Waiting
    BY <1>3, ZenonT(100) DEF Ways
  <2>2. status[session_id_coroutine[s]] = "call" => watching_session[s] # None
    BY <1>3, ZenonT(100) DEF Ways
  <2>3. None \notin Co
    BY ConstantsOK, ZenonT(100)
  <2> QED
    BY <1>1, <1>2, <1>3, <2>1, <2>2, <2>3, ZenonT(100) DEF OwingOf, Waiting
<1>4. CASE session_id_coroutine[s] \notin Co
  BY <1>1, <1>4, ZenonT(100) DEF OwingOf
<1> QED
  BY <1>3, <1>4, ZenonT(100)

\* The requests that have come are among the bounded ones.
LEMMA FromRequest ==
    ASSUME TypeOK, NEW r \in 1 .. Len(from)
    PROVE  r \in Request /\ r <= Len(from)
<1>1. from \in Seq(Peer) /\ Len(from) <= MaxRequest
  BY DEF TypeOK
<1> QED
  BY <1>1, ConstantsOK DEF Request

\* A request has one holder, one closure or one answer.
LEMMA InvAnsweredOnce == ASSUME TypeOK, Requests PROVE AnsweredOnce
<1> SUFFICES ASSUME ~exited, NEW r \in 1 .. Len(from)
             PROVE  LET holders == {c \in Co : session_coroutine_id[c] = r}
                        ways == answers[r] + Cardinality(holders)
                                + (IF r \in unresponse THEN 1 ELSE 0)
                    IN  ways = 1 \/ (ways = 0 /\ (r \in forgot \/ ~Live(from[r])))
  BY ZenonT(100) DEF AnsweredOnce
<1> DEFINE holders == {c \in Co : session_coroutine_id[c] = r}
<1>1. r \in Request /\ r <= Len(from)
  BY FromRequest
<1>2. RequestOf(r)
  BY <1>1, ZenonT(100) DEF Requests
<1>3. CASE Holds(r)
  <2>1. PICK c \in Co : session_coroutine_id[c] = r
    BY <1>3, ZenonT(100) DEF Holds
  <2>2. \A d \in Co : session_coroutine_id[d] = r => d = c
    BY <1>1, <2>1, ZenonT(100) DEF Requests
  <2>3. holders = {c}
    BY <2>1, <2>2, ZenonT(100)
  <2>4. Cardinality(holders) = 1
    BY <2>3, FS_Singleton, ZenonT(100)
  <2>5. answers[r] = 0 /\ r \notin unresponse
    BY <1>2, <1>3, ZenonT(100) DEF RequestOf
  <2> HIDE DEF holders
  <2>6. answers[r] + Cardinality(holders) + (IF r \in unresponse THEN 1 ELSE 0) = 1
    BY <2>4, <2>5
  <2> QED
    BY <2>6, ZenonT(100) DEF holders
<1>4. CASE ~Holds(r)
  <2>1. holders = {}
    BY <1>4, ZenonT(100) DEF Holds
  <2>2. Cardinality(holders) = 0
    BY <2>1, FS_EmptySet, ZenonT(100)
  <2>3. /\ answers[r] \in {0, 1} /\ (r \in unresponse => answers[r] = 0)
        /\ answers[r] > 0 \/ r \in unresponse \/ r \in forgot \/ ~Live(from[r])
    BY <1>1, <1>2, <1>4, ZenonT(100) DEF RequestOf, Settled
  <2> HIDE DEF holders
  <2>4. \/ answers[r] + Cardinality(holders) + (IF r \in unresponse THEN 1 ELSE 0) = 1
        \/ /\ answers[r] + Cardinality(holders) + (IF r \in unresponse THEN 1 ELSE 0) = 0
           /\ r \in forgot \/ ~Live(from[r])
    BY <2>2, <2>3
  <2> QED
    BY <2>4, ZenonT(100) DEF holders
<1> QED
  BY <1>3, <1>4, ZenonT(100)

\* Between messages no frame is left that could empty a queue, so none is filled.
LEMMA InvDrained == ASSUME Flow PROVE Drained
BY ZenonT(100) DEF Flow, Drained

\* A service that is gone has exited, and its exit settled every request.
LEMMA InvCallersReported == ASSUME TypeOK, Exiting, ~Batch PROVE CallersReported
BY FromRequest, ZenonT(100) DEF Exiting, CallersReported, Settled

-------------------------------------------------------------------------------
(* Sessions and coroutines *)

\* Coroutine c, which waits for session s, is resumed; v is what is left of s.
Resumed(c, s, v) ==
    /\ session_id_coroutine[s] = c /\ status[c] \in Waiting
    /\ mode' = "run" /\ running' = c
    /\ \A d \in Co : status'[d] = IF d = c THEN "run" ELSE status[d]
    /\ \A d \in Co : sleep_session'[d] = IF d = c THEN None ELSE sleep_session[d]
    /\ \A u \in Session : watching_session'[u] = IF u = s THEN None ELSE watching_session[u]
    /\ \A u \in Session :
          session_id_coroutine'[u] = IF u = s THEN v ELSE session_id_coroutine[u]

\* Nobody waited for s.
Ignored(s) ==
    /\ session_id_coroutine[s] \notin Co
    /\ mode' = "fork" /\ running' = None
    /\ UNCHANGED <<status, sleep_session, watching_session>>
    /\ \A u \in Session :
          session_id_coroutine'[u] = IF u = s THEN None ELSE session_id_coroutine[u]

\* Coroutine c blocks under the new session s, whose answer w will send.
Blocked(c, s, kind, w) ==
    /\ status[c] \notin Waiting
    /\ s = next_session + 1 /\ next_session' = s
    /\ \A d \in Co : status'[d] = IF d = c THEN kind ELSE status[d]
    /\ \A d \in Co : sleep_session'[d] =
          IF d = c /\ kind \in {"sleep", "wait"} THEN s ELSE sleep_session[d]
    /\ \A u \in Session : watching_session'[u] =
          IF u = s /\ kind = "call" THEN w ELSE watching_session[u]
    /\ \A u \in Session :
          session_id_coroutine'[u] = IF u = s THEN c ELSE session_id_coroutine[u]
    /\ \A u \in Session : owed'[u] = IF u = s THEN w ELSE owed[u]

\* Nobody begins or ends to wait.
Still ==
    /\ \A c \in Co :
          status'[c] = status[c] \/ (status[c] \notin Waiting /\ status'[c] \notin Waiting)
    /\ \A s \in Session : \/ session_id_coroutine'[s] = session_id_coroutine[s]
                          \/ /\ session_id_coroutine[s] \notin Co
                             /\ session_id_coroutine'[s] \notin Co
    /\ UNCHANGED <<sleep_session, watching_session>>

\* Each of the three keeps the ways between coroutines and sessions.
LEMMA StillWays == ASSUME TypeOK, Ways, Still PROVE Ways'
<1>1. \A c \in Co : sleep_session[c] \in Session \cup {None}
  BY DEF TypeOK
<1>2. ASSUME NEW s \in Session, session_id_coroutine'[s] \in Co
      PROVE  /\ session_id_coroutine'[s] = session_id_coroutine[s]
             /\ status'[session_id_coroutine[s]] = status[session_id_coroutine[s]]
  BY <1>2 DEF Ways, Still
<1>3. ASSUME NEW s \in Session, session_id_coroutine[s] \in Co
      PROVE  session_id_coroutine'[s] = session_id_coroutine[s]
  BY <1>3 DEF Still
<1>4. ASSUME NEW c \in Co, status'[c] \in Waiting
      PROVE  \E s \in Session : session_id_coroutine'[s] = c
  <2>1. PICK s \in Session : session_id_coroutine[s] = c
    BY <1>4 DEF Ways, Still
  <2> QED
    BY <1>3, <2>1
<1>5. ASSUME NEW s \in Session, session_id_coroutine'[s] \in Co
      PROVE  status'[session_id_coroutine'[s]] \in Waiting
  BY <1>2, <1>5 DEF Ways
<1>6. ASSUME NEW s \in Session, NEW u \in Session, session_id_coroutine'[s] \in Co,
             session_id_coroutine'[s] = session_id_coroutine'[u]
      PROVE  s = u
  BY <1>2, <1>6 DEF Ways
<1>7. ASSUME NEW c \in Co
      PROVE  status'[c] \in {"sleep", "wait"} <=> sleep_session'[c] # None
  BY DEF Ways, Still, Waiting
<1>8. ASSUME NEW c \in Co, sleep_session'[c] # None
      PROVE  session_id_coroutine'[sleep_session'[c]] = c
  <2>1. sleep_session'[c] = sleep_session[c] /\ sleep_session[c] \in Session
    BY <1>1, <1>8 DEF Still
  <2>2. session_id_coroutine[sleep_session[c]] = c
    BY <1>8, <2>1 DEF Ways
  <2> QED
    BY <1>3, <2>1, <2>2
<1>9. ASSUME NEW s \in Session
      PROVE  watching_session'[s] # None <=>
                session_id_coroutine'[s] \in Co /\ status'[session_id_coroutine'[s]] = "call"
  <2>1. CASE session_id_coroutine[s] \in Co
    <3>1. session_id_coroutine'[s] = session_id_coroutine[s]
      BY <1>3, <2>1
    <3> QED
      BY <1>2, <2>1, <3>1 DEF Ways, Still
  <2>2. CASE session_id_coroutine[s] \notin Co
    BY <2>2 DEF Ways, Still
  <2> QED
    BY <2>1, <2>2
<1> QED
  BY <1>4, <1>5, <1>6, <1>7, <1>8, <1>9, ZenonT(100) DEF Ways

\* A coroutine that is resumed has no way back any more.
LEMMA ResumedWays ==
    ASSUME TypeOK, Ways, NEW c \in Co, NEW s \in Session, NEW v, v \notin Co, Resumed(c, s, v)
    PROVE  Ways'
<1>1. \A d \in Co : sleep_session[d] \in Session \cup {None}
  BY DEF TypeOK
<1>2. /\ session_id_coroutine[s] = c /\ session_id_coroutine'[s] = v
      /\ status'[c] = "run" /\ sleep_session'[c] = None /\ watching_session'[s] = None
  BY DEF Resumed
<1>3. ASSUME NEW u \in Session, u # s
      PROVE  /\ session_id_coroutine'[u] = session_id_coroutine[u]
             /\ session_id_coroutine[u] # c /\ watching_session'[u] = watching_session[u]
  BY <1>2, <1>3 DEF Ways, Resumed
<1>4. ASSUME NEW d \in Co, d # c
      PROVE  status'[d] = status[d] /\ sleep_session'[d] = sleep_session[d]
  BY <1>4 DEF Resumed
<1>5. ASSUME NEW d \in Co, status'[d] \in Waiting
      PROVE  \E u \in Session : session_id_coroutine'[u] = d
  <2>1. d # c
    BY <1>2, <1>5 DEF Waiting
  <2>2. PICK u \in Session : session_id_coroutine[u] = d
    BY <1>4, <1>5, <2>1 DEF Ways
  <2>3. u # s
    BY <1>2, <2>1, <2>2
  <2> QED
    BY <1>3, <2>2, <2>3
<1>6. ASSUME NEW u \in Session, session_id_coroutine'[u] \in Co
      PROVE  u # s /\ status'[session_id_coroutine'[u]] \in Waiting
  <2>1. u # s
    BY <1>2, <1>6
  <2> QED
    BY <1>3, <1>4, <1>6, <2>1 DEF Ways
<1>7. ASSUME NEW t \in Session, NEW u \in Session, session_id_coroutine'[t] \in Co,
             session_id_coroutine'[t] = session_id_coroutine'[u]
      PROVE  t = u
  <2>1. t # s /\ u # s
    BY <1>6, <1>7
  <2> QED
    BY <1>3, <1>7, <2>1 DEF Ways
<1>8. ASSUME NEW d \in Co
      PROVE  status'[d] \in {"sleep", "wait"} <=> sleep_session'[d] # None
  BY <1>2, <1>4 DEF Ways
<1>9. ASSUME NEW d \in Co, sleep_session'[d] # None
      PROVE  session_id_coroutine'[sleep_session'[d]] = d
  <2>1. d # c /\ sleep_session'[d] = sleep_session[d]
    BY <1>2, <1>4, <1>9
  <2>2. sleep_session[d] \in Session /\ session_id_coroutine[sleep_session[d]] = d
    BY <1>1, <1>9, <2>1 DEF Ways
  <2> QED
    BY <1>2, <1>3, <2>1, <2>2
<1>10. ASSUME NEW u \in Session
       PROVE  watching_session'[u] # None <=>
                 session_id_coroutine'[u] \in Co /\ status'[session_id_coroutine'[u]] = "call"
  <2>1. CASE u = s
    BY <1>2, <2>1
  <2>2. CASE u # s
    BY <1>3, <1>4, <2>2 DEF Ways
  <2> QED
    BY <2>1, <2>2
<1> QED
  BY <1>5, <1>6, <1>7, <1>8, <1>9, <1>10, ZenonT(100) DEF Ways

\* A coroutine that blocks has one.
LEMMA BlockedWays ==
    ASSUME TypeOK, Ways, Unallocated, NEW c \in Co, NEW s \in Session, NEW kind \in Waiting,
           NEW w, kind = "call" => w \in Peer, Blocked(c, s, kind, w)
    PROVE  Ways'
<1>1. \A d \in Co : sleep_session[d] \in Session \cup {None}
  BY DEF TypeOK
<1>2. session_id_coroutine[s] = None /\ watching_session[s] = None /\ None \notin Co \cup Peer
  <2>1. s > next_session
    BY Allocates, Counting DEF Blocked, TypeOK
  <2> QED
    BY <2>1, ConstantsOK DEF Unallocated, Ways
<1>3. \A u \in Session : session_id_coroutine[u] # c
  BY DEF Ways, Blocked
<1>4. /\ sleep_session[c] = None /\ status'[c] = kind /\ session_id_coroutine'[s] = c
      /\ sleep_session'[c] = IF kind \in {"sleep", "wait"} THEN s ELSE None
      /\ watching_session'[s] = IF kind = "call" THEN w ELSE None
  BY <1>2 DEF Ways, Blocked, Waiting
<1>5. ASSUME NEW u \in Session, u # s
      PROVE  /\ session_id_coroutine'[u] = session_id_coroutine[u]
             /\ watching_session'[u] = watching_session[u]
  BY <1>5 DEF Blocked
<1>6. ASSUME NEW d \in Co, d # c
      PROVE  status'[d] = status[d] /\ sleep_session'[d] = sleep_session[d]
  BY <1>6 DEF Blocked
<1>7. ASSUME NEW d \in Co, status'[d] \in Waiting
      PROVE  \E u \in Session : session_id_coroutine'[u] = d
  <2>1. CASE d = c
    BY <1>4, <2>1
  <2>2. CASE d # c
    <3>1. PICK u \in Session : session_id_coroutine[u] = d
      BY <1>6, <1>7, <2>2 DEF Ways
    <3>2. u # s
      BY <1>2, <3>1
    <3> QED
      BY <1>5, <3>1, <3>2
  <2> QED
    BY <2>1, <2>2
<1>8. ASSUME NEW u \in Session, session_id_coroutine'[u] \in Co
      PROVE  status'[session_id_coroutine'[u]] \in Waiting
  <2>1. CASE u = s
    BY <1>4, <2>1
  <2>2. CASE u # s
    BY <1>3, <1>5, <1>6, <1>8, <2>2 DEF Ways
  <2> QED
    BY <2>1, <2>2
<1>9. ASSUME NEW t \in Session, NEW u \in Session, session_id_coroutine'[t] \in Co,
             session_id_coroutine'[t] = session_id_coroutine'[u]
      PROVE  t = u
  <2>1. CASE t = s \/ u = s
    BY <1>3, <1>4, <1>5, <1>9, <2>1
  <2>2. CASE t # s /\ u # s
    BY <1>5, <1>9, <2>2 DEF Ways
  <2> QED
    BY <2>1, <2>2
<1>10. ASSUME NEW d \in Co
       PROVE  status'[d] \in {"sleep", "wait"} <=> sleep_session'[d] # None
  <2>1. CASE d = c
    BY <1>4, <2>1, SessionNat
  <2>2. CASE d # c
    BY <1>6, <2>2 DEF Ways
  <2> QED
    BY <2>1, <2>2
<1>11. ASSUME NEW d \in Co, sleep_session'[d] # None
       PROVE  session_id_coroutine'[sleep_session'[d]] = d
  <2>1. CASE d = c
    BY <1>4, <1>11, <2>1
  <2>2. CASE d # c
    <3>1. sleep_session'[d] = sleep_session[d]
      BY <1>6, <2>2
    <3>2. sleep_session[d] \in Session /\ session_id_coroutine[sleep_session[d]] = d
      BY <1>1, <1>11, <3>1 DEF Ways
    <3>3. sleep_session[d] # s
      BY <1>2, <3>2
    <3> QED
      BY <1>5, <3>1, <3>2, <3>3
  <2> QED
    BY <2>1, <2>2
<1>12. ASSUME NEW u \in Session
       PROVE  watching_session'[u] # None <=>
                 session_id_coroutine'[u] \in Co /\ status'[session_id_coroutine'[u]] = "call"
  <2>1. CASE u = s
    BY <1>2, <1>4, <2>1
  <2>2. CASE u # s
    BY <1>3, <1>5, <1>6, <2>2 DEF Ways
  <2> QED
    BY <2>1, <2>2
<1> QED
  BY <1>7, <1>8, <1>9, <1>10, <1>11, <1>12, ZenonT(100) DEF Ways

-------------------------------------------------------------------------------
(* Steps *)

USE ZenonT(100)

AnyRequest == \E p \in Peer : \E reply \in BOOLEAN : DispatchRequest(p, reply)
AnyRefusal == \E p \in Peer : RefuseRequest(p)
AnyDown == \E p \in Peer : DispatchDown(p)
AnyDeath == \E p \in Peer : PeerDies(p)
AnyCall == \E p \in Peer : call(p)
AnyTerm == \E p \in Peer : term(p)
AnyResponse == \E s \in Session : DispatchResponse(s)
AnyError == \E s \in Session : DispatchError(s)
AnyWakeup == \E c \in Co : wakeup(c)
AnyRespond == \E r \in Request : Respond(r)

\* The steps of the system.
LEMMA Steps ==
    Next => \/ dispatch_wakeup \/ dispatch_error_queue \/ RunFork \/ RunTrigger \/ MessageDone
            \/ AnyRequest \/ AnyRefusal \/ AnyDown \/ AnyDeath \/ AnyCall \/ AnyTerm
            \/ AnyResponse \/ AnyError \/ AnyWakeup \/ AnyRespond
            \/ sleep \/ wait \/ timeout \/ fork \/ ret \/ response \/ Finish \/ Fail \/ exit \/ Gone
BY DEF Next, AnyRequest, AnyRefusal, AnyDown, AnyDeath, AnyCall, AnyTerm, AnyResponse, AnyError,
    AnyWakeup, AnyRespond

Resumes == dispatch_wakeup \/ dispatch_error_queue \/ AnyResponse
Blocks == sleep \/ wait \/ AnyCall \/ timeout

\* Which step changes what.
Changed ==
    /\ status' = status \/ Resumes \/ Blocks \/ RunFork \/ AnyRequest \/ fork \/ Finish \/ Fail
       \/ exit
    /\ session_coroutine_id' = session_coroutine_id \/ AnyRequest \/ ret \/ response \/ AnyTerm
       \/ Finish \/ Fail
    /\ UNCHANGED <<sleep_session, session_id_coroutine, watching_session>> \/ Resumes \/ Blocks
    /\ unresponse' = unresponse \/ AnyDown \/ AnyTerm \/ response \/ AnyRespond \/ exit
    /\ forgot' = forgot \/ AnyTerm \/ Finish
    /\ answers' = answers \/ AnyRefusal \/ ret \/ AnyRespond \/ Fail \/ exit
    /\ wakeup_queue' = wakeup_queue \/ dispatch_wakeup \/ AnyWakeup
    /\ error_queue' = error_queue \/ dispatch_error_queue \/ AnyError \/ AnyDown \/ AnyTerm
    /\ fork_queue' = fork_queue \/ RunFork \/ fork \/ exit
    /\ trigger' = trigger \/ RunTrigger \/ Fail \/ exit
    /\ UNCHANGED <<next_session>> \/ Blocks
    /\ owed' = owed \/ Blocks \/ AnyResponse \/ AnyError
    /\ from' = from \/ AnyRequest \/ AnyRefusal
    /\ dead' = dead \/ AnyDeath
    /\ notified' = notified \/ AnyDown
    /\ exited' = exited \/ exit
    /\ gone' = gone \/ Gone
    /\ termed' = termed \/ AnyTerm
    /\ twice' = twice \/ AnyWakeup

\* Every action changes these variables only.
LEMMA Changes == Next => Changed
<1> USE DEF coroutines, sessions, queues, machine, replies, world
<1>1. dispatch_wakeup => Changed
  BY DEF dispatch_wakeup, Changed, Resumes
<1>2. dispatch_error_queue => Changed
  BY DEF dispatch_error_queue, Changed, Resumes
<1>3. RunFork => Changed
  BY DEF RunFork, Changed
<1>4. RunTrigger => Changed
  BY DEF RunTrigger, Changed
<1>5. MessageDone => Changed
  BY DEF MessageDone, Changed
<1>6. AnyRequest => Changed
  BY DEF AnyRequest, DispatchRequest, Changed
<1>7. AnyRefusal => Changed
  BY DEF AnyRefusal, RefuseRequest, Changed
<1>8. AnyDown => Changed
  BY DEF AnyDown, DispatchDown, Changed
<1>9. AnyDeath => Changed
  BY DEF AnyDeath, PeerDies, Changed
<1>10. AnyCall => Changed
  BY DEF AnyCall, call, Block, Changed, Blocks
<1>11. AnyTerm => Changed
  BY DEF AnyTerm, term, Changed
<1>12. AnyResponse => Changed
  BY DEF AnyResponse, DispatchResponse, Changed, Resumes
<1>13. AnyError => Changed
  BY DEF AnyError, DispatchError, Changed
<1>14. AnyWakeup => Changed
  BY DEF AnyWakeup, wakeup, Changed
<1>15. AnyRespond => Changed
  BY DEF AnyRespond, Respond, Changed
<1>16. sleep \/ wait => Changed
  BY DEF sleep, wait, suspend_sleep, Block, Changed, Blocks
<1>17. timeout => Changed
  BY DEF timeout, Changed, Blocks
<1>18. fork => Changed
  BY DEF fork, Changed
<1>19. ret \/ response => Changed
  BY DEF ret, response, Changed
<1>20. Finish => Changed
  BY DEF Finish, Changed
<1>21. Fail => Changed
  BY DEF Fail, Changed
<1>22. exit => Changed
  BY DEF exit, Changed
<1>23. Gone => Changed
  BY DEF Gone, Changed
<1> QED
  BY Steps, <1>1, <1>2, <1>3, <1>4, <1>5, <1>6, <1>7, <1>8, <1>9, <1>10, <1>11, <1>12, <1>13,
     <1>14, <1>15, <1>16, <1>17, <1>18, <1>19, <1>20, <1>21, <1>22, <1>23

\* What Resume does.
LEMMA ResumeEffect ==
    ASSUME TypeOK, Ways, NEW s \in Session, NEW v \in {None, BREAK},
           session_id_coroutine[s] \in Co,
           Resume(session_id_coroutine[s], s, [session_id_coroutine EXCEPT ![s] = v])
    PROVE  Resumed(session_id_coroutine[s], s,
                   IF status[session_id_coroutine[s]] = "wait" THEN None ELSE v)
<1> DEFINE c == session_id_coroutine[s]
<1>1. c \in Co /\ status[c] \in Waiting
  BY DEF Ways
<1>2. /\ status \in [Co -> {"unused", "pool", "fork", "run", "quit"} \cup Waiting]
      /\ session_id_coroutine \in [Session -> Co \cup {None, BREAK}]
      /\ sleep_session \in [Co -> Session \cup {None}]
      /\ watching_session \in [Session -> Peer \cup {None}]
  BY DEF TypeOK
<1> QED
  BY <1>1, <1>2 DEF Resume, Resumed, Run

\* A token that is woken leads to the coroutine that sleeps on it.
LEMMA WakeupEffect ==
    ASSUME TypeOK, Ways, dispatch_wakeup
    PROVE  \/ /\ wakeup_queue = << >> \/ sleep_session[Head(wakeup_queue)] = None
              /\ mode' = "error" /\ UNCHANGED <<running, status, sleep_session, sessions>>
           \/ \E c \in Co, s \in Session :
                 /\ wakeup_queue # << >> /\ c = Head(wakeup_queue) /\ sleep_session[c] = s
                 /\ status[c] \in {"sleep", "wait"}
                 /\ Resumed(c, s, IF status[c] = "wait" THEN None ELSE BREAK)
<1> DEFINE c == Head(wakeup_queue)
           s == sleep_session[c]
<1>1. CASE wakeup_queue = << >> \/ s = None
  BY <1>1 DEF dispatch_wakeup
<1>2. CASE ~(wakeup_queue = << >> \/ s = None)
  <2>0. wakeup_queue \in Seq(Co) /\ \A d \in Co : sleep_session[d] \in Session \cup {None}
    BY DEF TypeOK
  <2>1. c \in Co
    BY <1>2, <2>0, TailQueued
  <2>2. s \in Session /\ session_id_coroutine[s] = c /\ status[c] \in {"sleep", "wait"}
    BY <1>2, <2>0, <2>1 DEF Ways
  <2>3. Resume(session_id_coroutine[s], s, [session_id_coroutine EXCEPT ![s] = BREAK])
    BY <1>2 DEF dispatch_wakeup, Broken
  <2> HIDE DEF c, s
  <2>4. Resumed(c, s, IF status[c] = "wait" THEN None ELSE BREAK)
    BY <2>1, <2>2, <2>3, ResumeEffect
  <2> QED
    BY <1>2, <2>1, <2>2, <2>4 DEF c, s
<1> QED
  BY <1>1, <1>2

\* A session whose call failed.
LEMMA ErrorEffect ==
    ASSUME TypeOK, Ways, dispatch_error_queue
    PROVE  \/ /\ error_queue = << >> /\ Return(depth - 1)
              /\ UNCHANGED <<status, sleep_session, sessions, error_queue>>
           \/ \E s \in Session :
                 /\ error_queue # << >> /\ s = Head(error_queue) /\ error_queue' = Tail(error_queue)
                 /\ \/ Ignored(s) /\ depth' = 0
                    \/ /\ session_id_coroutine[s] \in Co /\ depth' = depth - 1
                       /\ Resumed(session_id_coroutine[s], s, None)
<1> DEFINE s == Head(error_queue)
           c == session_id_coroutine[s]
<1>1. CASE error_queue = << >>
  BY <1>1 DEF dispatch_error_queue
<1>2. CASE error_queue # << >>
  <2>1. s \in Session
    BY <1>2, TailQueued DEF TypeOK
  <2>3. CASE c \in Co
    <3>1. /\ Resume(c, s, [session_id_coroutine EXCEPT ![s] = None]) /\ depth' = depth - 1
          /\ error_queue' = Tail(error_queue)
      BY <1>2, <2>3 DEF dispatch_error_queue
    <3>2. Resumed(c, s, None)
      <4> HIDE DEF s
      <4>1. Resumed(c, s, IF status[c] = "wait" THEN None ELSE None)
        BY <2>1, <2>3, <3>1, ResumeEffect
      <4> QED
        BY <4>1
    <3> QED
      BY <1>2, <2>1, <2>3, <3>1, <3>2
  <2>4. CASE c \notin Co
    <3>1. /\ Unwind /\ session_id_coroutine' = [session_id_coroutine EXCEPT ![s] = None]
          /\ UNCHANGED <<status, sleep_session, watching_session>>
          /\ error_queue' = Tail(error_queue)
      BY <1>2, <2>4 DEF dispatch_error_queue
    <3>2. Ignored(s) /\ depth' = 0
      BY <2>1, <2>4, <3>1 DEF Ignored, Unwind, TypeOK
    <3> QED
      BY <1>2, <2>1, <3>1, <3>2
  <2> QED
    BY <2>3, <2>4
<1> QED
  BY <1>1, <1>2

\* An answer to session s.
LEMMA ResponseEffect ==
    ASSUME TypeOK, Ways, NEW s \in Session, DispatchResponse(s)
    PROVE  \/ Ignored(s)
           \/ session_id_coroutine[s] \in Co /\ Resumed(session_id_coroutine[s], s, None)
<1> DEFINE c == session_id_coroutine[s]
<1>1. CASE c \in Co
  <2>1. Resume(c, s, [session_id_coroutine EXCEPT ![s] = None])
    BY <1>1 DEF DispatchResponse
  <2>2. Resumed(c, s, IF status[c] = "wait" THEN None ELSE None)
    BY <1>1, <2>1, ResumeEffect
  <2> QED
    BY <1>1, <2>2
<1>2. CASE c \notin Co
  <2>1. /\ mode' = "fork" /\ session_id_coroutine' = [session_id_coroutine EXCEPT ![s] = None]
        /\ UNCHANGED <<running, status, sleep_session, watching_session>>
        /\ mode = "idle"
    BY <1>2 DEF DispatchResponse, MayDeliver
  <2> QED
    BY <1>2, <2>1 DEF Ignored, TypeOK
<1> QED
  BY <1>1, <1>2

\* The coroutines that block, each under a new session.
LEMMA BlockEffect ==
    ASSUME TypeOK, Machine, Blocks
    PROVE  \E c \in Co, s \in Session, kind \in Waiting, w \in Peer \cup {"no", "timer"} :
              /\ Blocked(c, s, kind, w)
              /\ kind = "wait" => w = "no"
              /\ kind \in {"sleep", "timeout"} => w = "timer"
              /\ kind = "call" => w \in Peer /\ Live(w)
              /\ IF kind = "timeout" THEN /\ status[c] \in {"pool", "unused"} /\ UNCHANGED machine
                                          /\ mode = "run"
                                     ELSE c = running /\ mode = "run" /\ Suspend
<1> DEFINE s == next_session + 1
<1>1. mode = "run" /\ next_session < MaxSession /\ running \in Co /\ status[running] = "run"
  BY DEF Blocks, sleep, wait, suspend_sleep, AnyCall, call, timeout, Block, TypeOK, Machine
<1>2. s \in Session
  BY <1>1, Allocates DEF TypeOK
<1>3. /\ status \in [Co -> {"unused", "pool", "fork", "run", "quit"} \cup Waiting]
      /\ session_id_coroutine \in [Session -> Co \cup {None, BREAK}]
      /\ sleep_session \in [Co -> Session \cup {None}]
      /\ watching_session \in [Session -> Peer \cup {None}]
      /\ owed \in [Session -> Peer \cup {"no", "timer"}]
  BY DEF TypeOK
<1>4. CASE sleep \/ wait
  <2>1. PICK kind \in {"sleep", "wait"}, w \in {"no", "timer"} :
           /\ suspend_sleep(kind, w)
           /\ (kind = "wait" => w = "no") /\ (kind = "sleep" => w = "timer")
    BY <1>4 DEF sleep, wait
  <2>2. Blocked(running, s, kind, w) /\ Suspend
    BY <1>1, <1>2, <1>3, <2>1 DEF suspend_sleep, Block, Blocked, NewSession, Waiting
  <2> QED
    BY <1>1, <1>2, <2>1, <2>2 DEF Waiting
<1>5. CASE AnyCall
  <2>1. PICK p \in Peer : call(p)
    BY <1>5 DEF AnyCall
  <2>2. Blocked(running, s, "call", p) /\ Suspend /\ Live(p)
    BY <1>1, <1>2, <1>3, <2>1 DEF call, Block, Blocked, NewSession, Waiting
  <2> QED
    BY <1>1, <1>2, <2>2 DEF Waiting
<1>6. CASE timeout
  <2>1. PICK c \in co_create :
           /\ session_id_coroutine' = [session_id_coroutine EXCEPT ![NewSession] = c]
           /\ status' = [status EXCEPT ![c] = "timeout"]
    BY <1>6 DEF timeout
  <2>2. c \in Co /\ status[c] \in {"pool", "unused"}
    BY DEF co_create
  <2>3. Blocked(c, s, "timeout", "timer")
    BY <1>1, <1>2, <1>3, <1>6, <2>1, <2>2 DEF timeout, Blocked, NewSession, Waiting
  <2>4. UNCHANGED machine
    BY <1>6 DEF timeout, machine
  <2> QED
    BY <1>1, <1>2, <2>2, <2>3, <2>4 DEF Waiting
<1> QED
  BY <1>4, <1>5, <1>6 DEF Blocks

-------------------------------------------------------------------------------
(* Sessions and coroutines *)

\* The steps that change statuses only.
LEMMA OtherStill ==
    ASSUME TypeOK, Machine, Next, ~Resumes, ~Blocks
    PROVE  Still
<1>1. status \in [Co -> {"unused", "pool", "fork", "run", "quit"} \cup Waiting]
  BY DEF TypeOK
<1>2. UNCHANGED <<sleep_session, session_id_coroutine, watching_session>>
  BY Changes DEF Changed
<1>3. \A c \in Co : status'[c] = status[c] \/ (status[c] \notin Waiting /\ status'[c] \notin Waiting)
  <2>0. mode = "run" => running \in Co /\ status[running] = "run"
    BY DEF TypeOK, Machine
  <2>1. CASE status' = status
    BY <2>1
  <2>2. CASE RunFork
    BY <1>1, <2>2 DEF RunFork, Machine, Waiting
  <2>3. CASE AnyRequest
    BY <1>1, <2>3 DEF AnyRequest, DispatchRequest, co_create, Waiting
  <2>4. CASE fork
    BY <1>1, <2>4 DEF fork, co_create, Waiting
  <2>5. CASE Finish
    BY <1>1, <2>0, <2>5 DEF Finish, Waiting
  <2>6. CASE Fail
    BY <1>1, <2>0, <2>6 DEF Fail, Waiting
  <2>7. CASE exit
    BY <1>1, <2>0, <2>7 DEF exit, DropForks, Machine, Waiting
  <2> QED
    BY <2>1, <2>2, <2>3, <2>4, <2>5, <2>6, <2>7, Changes DEF Changed
<1> QED
  BY <1>2, <1>3 DEF Still

\* A message for nobody leaves the coroutines as they are.
LEMMA IgnoredStill == ASSUME NEW s \in Session, Ignored(s) PROVE Still
BY ConstantsOK DEF Ignored, Still

\* Every step keeps the ways.
LEMMA StepWays == ASSUME TypeOK, Ways, Unallocated, Machine, Next PROVE Ways'
<1>0. None \notin Co /\ BREAK \notin Co
  BY ConstantsOK
<1>1. CASE dispatch_wakeup
  <2>1. CASE UNCHANGED <<status, sleep_session, sessions>>
    <3>1. Still
      BY <2>1 DEF Still, sessions
    <3> QED
      BY <3>1, StillWays
  <2>2. CASE \E c \in Co, s \in Session :
                Resumed(c, s, IF status[c] = "wait" THEN None ELSE BREAK)
    <3>1. PICK c \in Co, s \in Session : Resumed(c, s, IF status[c] = "wait" THEN None ELSE BREAK)
      BY <2>2
    <3>2. (IF status[c] = "wait" THEN None ELSE BREAK) \notin Co
      BY <1>0
    <3> QED
      BY <3>1, <3>2, ResumedWays
  <2> QED
    BY <1>1, <2>1, <2>2, WakeupEffect
<1>2. CASE dispatch_error_queue
  <2>1. CASE UNCHANGED <<status, sleep_session, sessions>>
    <3>1. Still
      BY <2>1 DEF Still, sessions
    <3> QED
      BY <3>1, StillWays
  <2>2. CASE \E s \in Session : Ignored(s)
    BY <2>2, IgnoredStill, StillWays
  <2>3. CASE \E s \in Session :
                session_id_coroutine[s] \in Co /\ Resumed(session_id_coroutine[s], s, None)
    BY <1>0, <2>3, ResumedWays
  <2> QED
    BY <1>2, <2>1, <2>2, <2>3, ErrorEffect
<1>3. CASE AnyResponse
  BY <1>0, <1>3, ResponseEffect, IgnoredStill, StillWays, ResumedWays DEF AnyResponse
<1>4. CASE Blocks
  <2>1. PICK c \in Co, s \in Session, kind \in Waiting, w \in Peer \cup {"no", "timer"} :
           Blocked(c, s, kind, w) /\ (kind = "call" => w \in Peer)
    BY <1>4, BlockEffect
  <2> QED
    BY <2>1, BlockedWays
<1>5. CASE ~Resumes /\ ~Blocks
  BY <1>5, OtherStill, StillWays
<1> QED
  BY <1>1, <1>2, <1>3, <1>4, <1>5 DEF Resumes

\* The machine: the steps that leave it alone.
LEMMA StepMachine == ASSUME TypeOK, Ways, Machine, Next PROVE Machine'
<1>1. /\ status \in [Co -> {"unused", "pool", "fork", "run", "quit"} \cup Waiting]
      /\ fork_queue \subseteq Co /\ depth \in Nat
      /\ mode = "run" => running \in Co /\ status[running] = "run"
      /\ \A c \in fork_queue : status[c] = "fork"
      /\ mode \in {"wakeup", "error"} => depth > 0
  BY DEF TypeOK, Machine
<1>2. ASSUME NEW c \in Co, NEW s \in Session, NEW v, Resumed(c, s, v), fork_queue' = fork_queue
      PROVE  Machine'
  BY <1>1, <1>2 DEF Resumed, Machine, Waiting
<1>3. ASSUME fork_queue' = fork_queue, status' = status, mode' = "fork" \/ mode' = "idle"
      PROVE  Machine'
  BY <1>1, <1>3 DEF Machine
<1>4. CASE dispatch_wakeup
  <2>1. fork_queue' = fork_queue /\ depth' = depth /\ mode = "wakeup"
    BY <1>4 DEF dispatch_wakeup
  <2>2. CASE mode' = "error" /\ status' = status
    BY <1>1, <2>1, <2>2 DEF Machine
  <2> QED
    BY <1>2, <1>4, <2>1, <2>2, WakeupEffect
<1>5. CASE dispatch_error_queue
  <2>1. fork_queue' = fork_queue /\ mode = "error"
    BY <1>5 DEF dispatch_error_queue
  <2>2. CASE Return(depth - 1) /\ status' = status
    <3>1. depth - 1 \in Nat
      BY <1>1, <2>1, Counting
    <3>2. depth - 1 # 0 => depth - 1 > 0
      BY <3>1, Counting
    <3> QED
      BY <1>1, <2>1, <2>2, <3>2 DEF Machine, Return
  <2>3. CASE \E s \in Session : Ignored(s)
    BY <1>3, <2>1, <2>3 DEF Ignored
  <2> QED
    BY <1>2, <1>5, <2>1, <2>2, <2>3, ErrorEffect
<1>6. CASE AnyResponse
  <2>1. PICK s \in Session : DispatchResponse(s)
    BY <1>6 DEF AnyResponse
  <2>2. fork_queue' = fork_queue
    BY <2>1 DEF DispatchResponse, queues
  <2>3. CASE Ignored(s)
    BY <1>3, <2>2, <2>3 DEF Ignored
  <2> QED
    BY <1>2, <2>1, <2>2, <2>3, ResponseEffect
<1>7. CASE Blocks
  <2>1. PICK c \in Co, s \in Session, kind \in Waiting, w \in Peer \cup {"no", "timer"} :
           /\ Blocked(c, s, kind, w)
           /\ IF kind = "timeout" THEN /\ status[c] \in {"pool", "unused"} /\ UNCHANGED machine
                                       /\ mode = "run"
                                  ELSE c = running /\ mode = "run" /\ Suspend
    BY <1>7, BlockEffect
  <2>2. fork_queue' = fork_queue
    BY <1>7 DEF Blocks, sleep, wait, suspend_sleep, Block, AnyCall, call, timeout, queues
  <2>3. \A d \in fork_queue : d \in Co /\ d # c /\ status'[d] = "fork"
    BY <1>1, <2>1 DEF Blocked
  <2>4. CASE kind = "timeout"
    <3>1. running # c /\ running \in Co
      BY <1>1, <2>1, <2>4
    <3>2. status'[running] = "run" /\ mode' = "run" /\ running' = running
      BY <1>1, <2>1, <2>4, <3>1 DEF Blocked, machine
    <3> QED
      BY <2>2, <2>3, <3>2 DEF Machine
  <2>5. CASE kind # "timeout"
    <3>1. mode' = "wakeup" /\ depth' > 0
      BY <1>1, <2>1, <2>5, Counting DEF Suspend
    <3> QED
      BY <2>2, <2>3, <3>1 DEF Machine
  <2> QED
    BY <2>4, <2>5
<1>8. CASE RunFork
  BY <1>1, <1>8 DEF RunFork, Run, Machine
<1>9. ASSUME Suspend, fork_queue' = fork_queue, \A c \in fork_queue : status'[c] = "fork"
      PROVE  Machine'
  BY <1>1, <1>9, Counting DEF Suspend, Machine
<1>10. CASE MessageDone \/ AnyRefusal
  BY <1>3, <1>10 DEF MessageDone, AnyRefusal, RefuseRequest, coroutines, queues
<1>11. CASE AnyRequest
  BY <1>1, <1>11 DEF AnyRequest, DispatchRequest, co_create, Run, queues, Machine
<1>12. CASE AnyDown \/ AnyError \/ RunTrigger
  BY <1>1, <1>9, <1>12
  DEF AnyDown, DispatchDown, AnyError, DispatchError, RunTrigger, coroutines
<1>13. CASE AnyDeath \/ AnyTerm \/ AnyWakeup \/ AnyRespond \/ ret \/ response \/ Gone
  BY <1>1, <1>13 DEF AnyDeath, PeerDies, AnyTerm, term, AnyWakeup, wakeup, AnyRespond, Respond,
                     ret, response, Gone, coroutines, queues, machine, Machine
<1>14. CASE fork
  BY <1>1, <1>14 DEF fork, co_create, machine, Machine
<1>15. CASE Finish
  <2>1. \A c \in fork_queue : status'[c] = "fork"
    BY <1>1, <1>15 DEF Finish
  <2> QED
    BY <1>9, <1>15, <2>1 DEF Finish, queues
<1>16. CASE Fail
  BY <1>1, <1>16 DEF Fail, Unwind, Machine
<1>17. CASE exit
  BY <1>1, <1>17, Counting DEF exit, DropForks, Return, Machine
<1> QED
  BY <1>4, <1>5, <1>6, <1>7, <1>8, <1>10, <1>11, <1>12, <1>13, <1>14, <1>15, <1>16, <1>17,
     Steps DEF Blocks

-------------------------------------------------------------------------------
(* Types *)

\* Every step keeps the types.
LEMMA StepTypes == ASSUME TypeOK, Ways, Machine, Next PROVE TypeOK'
<1> DEFINE Status == {"unused", "pool", "fork", "run", "quit"} \cup Waiting
<1>0. /\ status \in [Co -> Status] /\ session_coroutine_id \in [Co -> Request \cup {0, None}]
      /\ session_id_coroutine \in [Session -> Co \cup {None, BREAK}]
      /\ sleep_session \in [Co -> Session \cup {None}]
      /\ watching_session \in [Session -> Peer \cup {None}]
      /\ owed \in [Session -> Peer \cup {"no", "timer"}]
      /\ next_session \in 0 .. MaxSession
  BY DEF TypeOK
<1>1. mode = "run" => running \in Co
  BY DEF TypeOK
<1>2. Changed
  BY Changes
<1>3. Blocks => NewSession \in 0 .. MaxSession /\ NewSession \in Session /\ running \in Co
  <2>1. Blocks => next_session < MaxSession /\ mode = "run"
    BY DEF Blocks, sleep, wait, suspend_sleep, Block, AnyCall, call, timeout
  <2> QED
    BY <1>0, <1>1, <2>1, Allocates DEF NewSession
<1>4. status' \in [Co -> Status]
  <2>1. CASE dispatch_wakeup \/ dispatch_error_queue \/ AnyResponse
    BY <1>0, <2>1
    DEF dispatch_wakeup, dispatch_error_queue, AnyResponse, DispatchResponse, Resume, Status
  <2>2. CASE Blocks
    BY <1>0, <2>2
    DEF Blocks, sleep, wait, suspend_sleep, Block, AnyCall, call, timeout, Status, Waiting
  <2>3. CASE RunFork \/ AnyRequest \/ fork \/ Finish \/ Fail
    BY <1>0, <2>3 DEF RunFork, AnyRequest, DispatchRequest, fork, Finish, Fail, Status
  <2>4. CASE exit
    BY <1>0, <2>4 DEF exit, DropForks, Status
  <2> QED
    BY <1>0, <1>2, <2>1, <2>2, <2>3, <2>4 DEF Changed, Resumes
<1>5. session_coroutine_id' \in [Co -> Request \cup {0, None}]
  <2>1. CASE AnyRequest
    <3>1. PICK p \in Peer, reply \in BOOLEAN : DispatchRequest(p, reply)
      BY <2>1 DEF AnyRequest
    <3>2. (IF reply THEN Len(from) + 1 ELSE 0) \in Request \cup {0, None}
      BY <3>1, Arrives DEF DispatchRequest, TypeOK
    <3> QED
      BY <1>0, <3>1, <3>2 DEF DispatchRequest
  <2>2. CASE ret \/ response \/ AnyTerm \/ Finish \/ Fail
    BY <1>0, <2>2 DEF ret, response, AnyTerm, term, Finish, Fail, ignoreret
  <2> QED
    BY <1>0, <1>2, <2>1, <2>2 DEF Changed
<1>6. session_id_coroutine' \in [Session -> Co \cup {None, BREAK}]
  <2>0. ASSUME NEW s \in Session, NEW v \in {None, BREAK}, NEW c,
               Resume(c, s, [session_id_coroutine EXCEPT ![s] = v])
        PROVE  session_id_coroutine' \in [Session -> Co \cup {None, BREAK}]
    BY <1>0, <2>0 DEF Resume
  <2>1. CASE dispatch_wakeup
    <3>1. CASE wakeup_queue = << >> \/ sleep_session[Head(wakeup_queue)] = None
      BY <1>0, <2>1, <3>1 DEF dispatch_wakeup, sessions
    <3>2. CASE ~(wakeup_queue = << >> \/ sleep_session[Head(wakeup_queue)] = None)
      <4>1. wakeup_queue \in Seq(Co) /\ wakeup_queue # << >>
        BY <3>2 DEF TypeOK
      <4>2. Head(wakeup_queue) \in Co
        BY <4>1, TailQueued
      <4>3. sleep_session[Head(wakeup_queue)] \in Session
        BY <1>0, <3>2, <4>2
      <4> QED
        BY <2>0, <2>1, <3>2, <4>3 DEF dispatch_wakeup, Broken
    <3> QED
      BY <3>1, <3>2
  <2>3. CASE dispatch_error_queue
    <3>1. CASE error_queue = << >>
      BY <1>0, <2>3, <3>1 DEF dispatch_error_queue, sessions
    <3>2. CASE error_queue # << >>
      <4>1. Head(error_queue) \in Session
        BY <3>2, TailQueued DEF TypeOK
      <4> QED
        BY <1>0, <2>0, <2>3, <3>2, <4>1 DEF dispatch_error_queue
    <3> QED
      BY <3>1, <3>2
  <2>4. CASE AnyResponse
    BY <1>0, <2>0, <2>4 DEF AnyResponse, DispatchResponse
  <2>2. CASE Blocks
    BY <1>0, <1>3, <2>2
    DEF Blocks, sleep, wait, suspend_sleep, Block, AnyCall, call, timeout, co_create
  <2> QED
    BY <1>0, <1>2, <2>1, <2>2, <2>3, <2>4 DEF Changed, Resumes
<1>7. sleep_session' \in [Co -> Session \cup {None}]
  <2>1. CASE Resumes
    BY <1>0, <2>1
    DEF Resumes, dispatch_wakeup, dispatch_error_queue, AnyResponse, DispatchResponse, Resume
  <2>2. CASE Blocks
    BY <1>0, <1>3, <2>2
    DEF Blocks, sleep, wait, suspend_sleep, Block, AnyCall, call, timeout
  <2> QED
    BY <1>0, <1>2, <2>1, <2>2 DEF Changed
<1>8. watching_session' \in [Session -> Peer \cup {None}]
  <2>1. CASE Resumes
    BY <1>0, <2>1
    DEF Resumes, dispatch_wakeup, dispatch_error_queue, AnyResponse, DispatchResponse, Resume,
        sessions
  <2>2. CASE Blocks
    BY <1>0, <1>3, <2>2
    DEF Blocks, sleep, wait, suspend_sleep, Block, AnyCall, call, timeout
  <2> QED
    BY <1>0, <1>2, <2>1, <2>2 DEF Changed
<1>9. owed' \in [Session -> Peer \cup {"no", "timer"}] /\ next_session' \in 0 .. MaxSession
  <2>1. CASE Blocks
    <3>1. PICK w \in Peer \cup {"no", "timer"} : owed' = [owed EXCEPT ![NewSession] = w]
      BY <2>1 DEF Blocks, sleep, wait, suspend_sleep, Block, AnyCall, call, timeout
    <3>2. next_session' = NewSession
      BY <2>1 DEF Blocks, sleep, wait, suspend_sleep, Block, AnyCall, call, timeout
    <3> QED
      BY <1>0, <1>3, <2>1, <3>1, <3>2
  <2>2. CASE AnyResponse \/ AnyError
    BY <1>0, <2>2 DEF AnyResponse, DispatchResponse, AnyError, DispatchError
  <2> QED
    BY <1>0, <1>2, <2>1, <2>2 DEF Changed
<1>10. unresponse' \subseteq Request /\ forgot' \subseteq Request
  <2>1. unresponse \subseteq Request /\ forgot \subseteq Request
    BY DEF TypeOK
  <2>2. mode = "run" => Unanswered(running) \subseteq Request
    BY <1>0, <1>1 DEF Unanswered
  <2>3. unresponse' \subseteq Request
    <3>1. CASE AnyDown \/ AnyTerm
      BY <2>1, <3>1 DEF AnyDown, DispatchDown, AnyTerm, term, error_dispatch
    <3>2. CASE response \/ AnyRespond \/ exit
      BY <2>1, <2>2, <3>2 DEF response, AnyRespond, Respond, exit
    <3> QED
      BY <1>2, <2>1, <3>1, <3>2 DEF Changed
  <2>4. CASE AnyTerm \/ Finish
    BY <2>1, <2>2, <2>3, <2>4 DEF AnyTerm, term, Finish
  <2> QED
    BY <1>2, <2>1, <2>3, <2>4 DEF Changed
<1>11. answers' \in [Request -> Nat]
  <2>1. answers \in [Request -> Nat]
    BY DEF TypeOK
  <2>2. ASSUME NEW R, Answer(R) PROVE answers' \in [Request -> Nat]
    <3>1. \A r \in Request : answers[r] + 1 \in Nat
      BY <2>1, Counting
    <3>2. \A r \in Request : (IF r \in R THEN answers[r] + 1 ELSE answers[r]) \in Nat
      BY <2>1, <3>1
    <3> QED
      BY <2>2, <3>2 DEF Answer
  <2> QED
    BY <1>2, <2>1, <2>2
    DEF Changed, AnyRefusal, RefuseRequest, ret, AnyRespond, Respond, Fail, exit
<1>12. wakeup_queue' \in Seq(Co)
  <2>1. wakeup_queue \in Seq(Co)
    BY DEF TypeOK
  <2>2. CASE dispatch_wakeup
    BY <2>1, <2>2, TailQueued DEF dispatch_wakeup
  <2>3. CASE AnyWakeup
    BY <2>1, <2>3, AppendCoroutine DEF AnyWakeup, wakeup
  <2> QED
    BY <1>2, <2>1, <2>2, <2>3 DEF Changed
<1>13. error_queue' \in Seq(Session)
  <2>1. error_queue \in Seq(Session)
    BY DEF TypeOK
  <2>2. CASE dispatch_error_queue
    <3>1. CASE error_queue = << >>
      BY <2>1, <2>2, <3>1 DEF dispatch_error_queue
    <3>2. CASE error_queue # << >>
      <4>1. error_queue' = Tail(error_queue)
        BY <2>2, <3>2 DEF dispatch_error_queue
      <4> QED
        BY <2>1, <3>2, <4>1, TailQueued
    <3> QED
      BY <3>1, <3>2
  <2>3. CASE AnyError
    BY <2>1, <2>3, AppendSession DEF AnyError, DispatchError
  <2>4. CASE AnyDown \/ AnyTerm
    <3>1. PICK p \in Peer : error_dispatch(p)
      BY <2>4 DEF AnyDown, DispatchDown, AnyTerm, term
    <3>2. PICK q \in Watched(p) : error_queue' = error_queue \o q
      BY <3>1 DEF error_dispatch
    <3>3. q \in Seq(Session)
      BY WatchedQueued
    <3> QED
      BY <2>1, <3>2, <3>3, ConcatQueued
  <2> QED
    BY <1>2, <2>1, <2>2, <2>3, <2>4 DEF Changed
<1>14. fork_queue' \subseteq Co /\ trigger' \in Nat
  <2>1. fork_queue \subseteq Co /\ trigger \in Nat
    BY DEF TypeOK
  <2>2. fork_queue' \subseteq Co
    BY <1>2, <2>1 DEF Changed, RunFork, fork, co_create, exit, DropForks
  <2>3. trigger' \in Nat
    <3>1. CASE RunTrigger
      BY <2>1, <3>1, Counting DEF RunTrigger
    <3>2. CASE Fail
      BY <2>1, <3>2, Counting DEF Fail, Retrigger
    <3>3. CASE exit
      <4>1. 0 \in Nat
        BY SMTT(100)
      <4> QED
        BY <3>3, <4>1 DEF exit, DropForks
    <3> QED
      BY <1>2, <2>1, <3>1, <3>2, <3>3 DEF Changed
  <2> QED
    BY <2>2, <2>3
<1>15. /\ mode' \in {"idle", "run", "wakeup", "error", "fork"}
       /\ running' \in Co \cup {None} /\ (running' # None <=> mode' = "run")
       /\ depth' \in Nat /\ (mode' = "error" => depth' > 0)
  <2> DEFINE Goal == /\ mode' \in {"idle", "run", "wakeup", "error", "fork"}
                     /\ running' \in Co \cup {None} /\ (running' # None <=> mode' = "run")
                     /\ depth' \in Nat /\ (mode' = "error" => depth' > 0)
  <2>0. /\ mode \in {"idle", "run", "wakeup", "error", "fork"}
        /\ running \in Co \cup {None} /\ (running # None <=> mode = "run")
        /\ depth \in Nat /\ (mode \in {"wakeup", "error"} => depth > 0) /\ None \notin Co
    BY ConstantsOK DEF TypeOK, Machine
  <2>1. ASSUME NEW c \in Co, Run(c), depth' \in Nat PROVE Goal
    BY <2>0, <2>1 DEF Run
  <2>2. ASSUME Suspend PROVE Goal
    BY <2>0, <2>2, Counting DEF Suspend
  <2>3. ASSUME mode' \in {"idle", "fork"}, running' = None, depth' \in Nat PROVE Goal
    BY <2>0, <2>3
  <2>4. ASSUME NEW d \in Nat, Return(d) PROVE Goal
    BY <2>0, <2>4, Counting DEF Return
  <2>5. ASSUME UNCHANGED machine PROVE Goal
    BY <2>0, <2>5 DEF machine
  <2>6. ASSUME NEW c \in Co, NEW s, NEW v, Resumed(c, s, v), depth' \in Nat PROVE Goal
    BY <2>0, <2>6 DEF Resumed
  <2>7. ASSUME NEW s, Ignored(s), depth' \in Nat PROVE Goal
    BY <2>3, <2>7 DEF Ignored
  <2>8. CASE dispatch_wakeup
    <3>1. depth' = depth /\ mode = "wakeup"
      BY <2>8 DEF dispatch_wakeup
    <3>2. CASE mode' = "error" /\ running' = running
      BY <2>0, <3>1, <3>2
    <3> HIDE DEF Goal
    <3> QED
      BY <2>0, <2>6, <2>8, <3>1, <3>2, WakeupEffect DEF Goal
  <2>9. CASE dispatch_error_queue
    <3>1. depth - 1 \in Nat /\ 0 \in Nat
      <4>1. mode = "error"
        BY <2>9 DEF dispatch_error_queue
      <4> QED
        BY <2>0, <4>1, Counting
    <3>2. CASE Return(depth - 1)
      BY <2>4, <3>1, <3>2
    <3> HIDE DEF Goal
    <3> QED
      BY <2>6, <2>7, <2>9, <3>1, <3>2, ErrorEffect DEF Goal
  <2>10. CASE AnyResponse
    <3>1. PICK s \in Session : DispatchResponse(s)
      BY <2>10 DEF AnyResponse
    <3>2. depth' \in Nat
      BY <2>0, <3>1 DEF DispatchResponse
    <3> HIDE DEF Goal
    <3> QED
      BY <2>6, <2>7, <3>1, <3>2, ResponseEffect DEF Goal
  <2> HIDE DEF Goal
  <2>11. CASE sleep \/ wait \/ AnyCall \/ RunTrigger \/ AnyDown \/ AnyError \/ Finish
    BY <2>2, <2>11 DEF sleep, wait, suspend_sleep, Block, AnyCall, call, RunTrigger, AnyDown,
                       DispatchDown, AnyError, DispatchError, Finish, Goal
  <2>12. CASE RunFork \/ AnyRequest
    <3>1. fork_queue \subseteq Co /\ co_create \subseteq Co
      BY DEF TypeOK, co_create
    <3> QED
      BY <2>0, <2>1, <2>12, <3>1 DEF RunFork, AnyRequest, DispatchRequest, Goal
  <2>13. CASE MessageDone \/ AnyRefusal
    BY <2>0, <2>3, <2>13 DEF MessageDone, AnyRefusal, RefuseRequest, MayDeliver, Goal
  <2>14. CASE Fail
    <3>1. 0 \in Nat
      BY <2>0, Counting
    <3> QED
      BY <2>3, <2>14, <3>1 DEF Fail, Unwind, Goal
  <2>15. CASE exit
    BY <2>0, <2>4, <2>15 DEF exit, Goal
  <2>16. CASE \/ timeout \/ AnyDeath \/ AnyTerm \/ AnyWakeup \/ AnyRespond \/ fork \/ ret
              \/ response \/ Gone
    BY <2>5, <2>16 DEF timeout, AnyDeath, PeerDies, AnyTerm, term, AnyWakeup, wakeup, AnyRespond,
                       Respond, fork, ret, response, Gone, Goal
  <2> QED
    BY <2>8, <2>9, <2>10, <2>11, <2>12, <2>13, <2>14, <2>15, <2>16, Steps DEF Goal
<1>16. from' \in Seq(Peer) /\ Len(from') <= MaxRequest
  <2>1. from \in Seq(Peer) /\ Len(from) <= MaxRequest /\ MaxRequest \in Nat
    BY ConstantsOK DEF TypeOK
  <2> QED
    BY <1>2, <2>1, Arrives
    DEF Changed, AnyRequest, DispatchRequest, AnyRefusal, RefuseRequest
<1>17. dead' \subseteq Peer /\ notified' \subseteq dead' /\ termed' \subseteq Peer
  <2>1. dead \subseteq Peer /\ notified \subseteq dead /\ termed \subseteq Peer
    BY DEF TypeOK
  <2>2. dead' \subseteq Peer /\ termed' \subseteq Peer /\ dead \subseteq dead'
    BY <1>2, <2>1 DEF Changed, AnyDeath, PeerDies, AnyTerm, term
  <2> QED
    BY <1>2, <2>1, <2>2 DEF Changed, AnyDown, DispatchDown
<1>18. exited' \in BOOLEAN /\ gone' \in BOOLEAN /\ twice' \in BOOLEAN
  <2>1. exited \in BOOLEAN /\ gone \in BOOLEAN /\ twice \in BOOLEAN
    BY DEF TypeOK
  <2> QED
    BY <1>2, <2>1 DEF Changed, exit, Gone, AnyWakeup, wakeup
<1> QED
  BY <1>4, <1>5, <1>6, <1>7, <1>8, <1>9, <1>10, <1>11, <1>12, <1>13, <1>14, <1>15, <1>16, <1>17,
     <1>18 DEF TypeOK

-------------------------------------------------------------------------------
(* Answers that are owed *)

\* What a step does to the errors that wait to be delivered.
LEMMA ErrorQueue ==
    ASSUME TypeOK, Next
    PROVE  /\ \A u \in Queued(error_queue') :
                 \/ u \in Queued(error_queue)
                 \/ /\ u \in Session /\ watching_session[u] # None
                    /\ owed'[u] = "no" \/ watching_session[u] \in dead \cup termed'
           /\ \A u \in Queued(error_queue) :
                 \/ u \in Queued(error_queue')
                 \/ dispatch_error_queue /\ error_queue # << >> /\ u = Head(error_queue)
<1>1. error_queue \in Seq(Session) /\ None \notin Peer
  BY ConstantsOK DEF TypeOK
<1>2. CASE error_queue' = error_queue
  BY <1>2
<1>3. CASE dispatch_error_queue
  <2>1. CASE error_queue = << >>
    BY <1>3, <2>1 DEF dispatch_error_queue
  <2>2. CASE error_queue # << >>
    <3>1. error_queue' = Tail(error_queue)
      BY <1>3, <2>2 DEF dispatch_error_queue
    <3>2. Queued(error_queue) = {Head(error_queue)} \cup Queued(error_queue')
      BY <1>1, <2>2, <3>1, TailQueued
    <3> QED
      BY <1>3, <2>2, <3>2
  <2> QED
    BY <2>1, <2>2
<1>4. CASE AnyError
  <2>1. PICK s \in Session : DispatchError(s)
    BY <1>4 DEF AnyError
  <2>2. /\ owed' = [owed EXCEPT ![s] = "no"] /\ owed \in [Session -> Peer \cup {"no", "timer"}]
        /\ error_queue' = IF Captured(s) THEN Append(error_queue, s) ELSE error_queue
    BY <2>1 DEF DispatchError, TypeOK
  <2>3. CASE Captured(s)
    <3>1. Queued(error_queue') = Queued(error_queue) \cup {s}
      BY <1>1, <2>2, <2>3, AppendSession
    <3> QED
      BY <2>2, <2>3, <3>1 DEF Captured
  <2>4. CASE ~Captured(s)
    BY <1>2, <2>2, <2>4
  <2> QED
    BY <2>3, <2>4
<1>5. CASE AnyDown \/ AnyTerm
  <2>1. PICK p \in Peer : error_dispatch(p) /\ p \in dead \cup termed'
    BY <1>5 DEF AnyDown, DispatchDown, AnyTerm, term
  <2>2. PICK q \in Watched(p) : error_queue' = error_queue \o q
    BY <2>1 DEF error_dispatch
  <2>3. q \in Seq(Session) /\ Queued(q) = {s \in Session : watching_session[s] = p}
    BY WatchedQueued
  <2>4. Queued(error_queue') = Queued(error_queue) \cup Queued(q)
    BY <1>1, <2>2, <2>3, ConcatQueued
  <2> QED
    BY <1>1, <2>1, <2>3, <2>4
<1> QED
  BY <1>2, <1>3, <1>4, <1>5, Changes DEF Changed

\* A session is named only after it was allocated.
LEMMA StepUnallocated ==
    ASSUME TypeOK, Ways, Unallocated, Machine, Next
    PROVE  Unallocated'
<1> SUFFICES ASSUME NEW u \in Session, u > next_session'
             PROVE  /\ session_id_coroutine'[u] = None
                    /\ owed'[u] = "no"
                    /\ u \notin Queued(error_queue')
  BY DEF Unallocated
<1>0. next_session \in Nat /\ u \in Nat /\ None \notin Co
  BY ConstantsOK, Allocates, SessionNat DEF TypeOK
<1>1. Blocks => next_session' = next_session + 1
  BY DEF Blocks, sleep, wait, suspend_sleep, Block, AnyCall, call, timeout, NewSession
<1>2. Blocks \/ next_session' = next_session
  BY Changes DEF Changed
<1>3. u > next_session
  BY <1>0, <1>1, <1>2, Counting
<1>4. session_id_coroutine[u] = None /\ owed[u] = "no" /\ u \notin Queued(error_queue)
  BY <1>3 DEF Unallocated
<1>5. watching_session[u] = None
  BY <1>0, <1>4 DEF Ways
<1>6. u \notin Queued(error_queue')
  BY <1>4, <1>5, ErrorQueue
<1>7. CASE Blocks
  <2>1. PICK c \in Co, s \in Session, kind \in Waiting, w \in Peer \cup {"no", "timer"} :
           Blocked(c, s, kind, w)
    BY <1>7, BlockEffect
  <2>2. u # s
    BY <1>0, <1>1, <1>7, <2>1, Counting DEF Blocked
  <2> QED
    BY <1>4, <1>6, <2>1, <2>2 DEF Blocked
<1>8. ASSUME NEW c \in Co, NEW s \in Session, NEW v, Resumed(c, s, v)
      PROVE  session_id_coroutine'[u] = None
  BY <1>0, <1>4, <1>8 DEF Resumed
<1>9. ASSUME NEW s \in Session, Ignored(s)
      PROVE  session_id_coroutine'[u] = None
  BY <1>4, <1>9 DEF Ignored
<1>10. CASE dispatch_wakeup
  <2>1. owed' = owed
    BY <1>10 DEF dispatch_wakeup, world
  <2>2. session_id_coroutine'[u] = None
    BY <1>4, <1>8, <1>10, WakeupEffect DEF sessions
  <2> QED
    BY <1>4, <1>6, <2>1, <2>2
<1>11. CASE dispatch_error_queue
  <2>1. owed' = owed
    BY <1>11 DEF dispatch_error_queue, world
  <2>2. session_id_coroutine'[u] = None
    BY <1>4, <1>8, <1>9, <1>11, ErrorEffect DEF sessions
  <2> QED
    BY <1>4, <1>6, <2>1, <2>2
<1>12. CASE AnyResponse
  <2>1. PICK s \in Session : DispatchResponse(s)
    BY <1>12 DEF AnyResponse
  <2>2. owed'[u] = "no"
    BY <1>4, <2>1 DEF DispatchResponse, TypeOK
  <2>3. session_id_coroutine'[u] = None
    BY <1>8, <1>9, <2>1, ResponseEffect
  <2> QED
    BY <1>6, <2>2, <2>3
<1>13. CASE AnyError
  <2>1. PICK s \in Session : DispatchError(s)
    BY <1>13 DEF AnyError
  <2>2. owed'[u] = "no" /\ session_id_coroutine' = session_id_coroutine
    BY <1>4, <2>1 DEF DispatchError, sessions, TypeOK
  <2> QED
    BY <1>4, <1>6, <2>2
<1>14. CASE ~Resumes /\ ~Blocks /\ ~AnyError
  <2>1. session_id_coroutine' = session_id_coroutine /\ owed' = owed
    BY <1>14, Changes DEF Changed, Resumes
  <2> QED
    BY <1>4, <1>6, <2>1
<1> QED
  BY <1>7, <1>10, <1>11, <1>12, <1>13, <1>14 DEF Resumes

\* The dead stay dead.
LEMMA StepDead == ASSUME Next PROVE dead \subseteq dead' /\ termed \subseteq termed'
BY Changes DEF Changed, AnyDeath, PeerDies, AnyTerm, term

\* A session that a step does not touch keeps what it is owed.
Kept(u) ==
    /\ session_id_coroutine'[u] = session_id_coroutine[u]
    /\ session_id_coroutine[u] \in Co =>
          status'[session_id_coroutine[u]] = status[session_id_coroutine[u]]
    /\ watching_session'[u] = watching_session[u]
    /\ owed'[u] = owed[u]
    /\ u \in Queued(error_queue) => u \in Queued(error_queue')

\* A session that is kept is owed what it was.
LEMMA KeptOwing ==
    ASSUME TypeOK, Ways, Owing, Next, NEW u \in Session, Kept(u)
    PROVE  OwingOf(u)'
<1>1. OwingOf(u)
  BY DEF Owing
<1>2. dead \subseteq dead' /\ termed \subseteq termed'
  BY StepDead
<1>3. u \in Queued(error_queue') => owed'[u] \in {"no"} \cup dead' \cup termed'
  <2>1. CASE u \in Queued(error_queue)
    BY <1>1, <1>2, <2>1 DEF OwingOf, Kept
  <2>2. CASE /\ watching_session[u] # None
             /\ owed'[u] = "no" \/ watching_session[u] \in dead \cup termed'
    <3>1. session_id_coroutine[u] \in Co /\ status[session_id_coroutine[u]] = "call"
      BY <2>2 DEF Ways
    <3> QED
      BY <1>1, <1>2, <2>2, <3>1 DEF OwingOf, Kept
  <2> QED
    BY <2>1, <2>2, ErrorQueue
<1>4. session_id_coroutine'[u] \in Co =>
         /\ status'[session_id_coroutine'[u]] = "wait" => owed'[u] = "no"
         /\ status'[session_id_coroutine'[u]] \in {"sleep", "timeout"} => owed'[u] = "timer"
         /\ status'[session_id_coroutine'[u]] = "call" =>
               \/ owed'[u] = watching_session'[u]
               \/ owed'[u] = "no" /\ u \in Queued(error_queue')
  BY <1>1 DEF OwingOf, Kept
<1>5. session_id_coroutine'[u] = BREAK => owed'[u] = "timer"
  BY <1>1 DEF OwingOf, Kept
<1>6. session_id_coroutine'[u] = None => owed'[u] \in {"no"} \cup dead' \cup termed'
  BY <1>1, <1>2 DEF OwingOf, Kept
<1> QED
  BY <1>3, <1>4, <1>5, <1>6 DEF OwingOf

\* The other sessions, when a coroutine is resumed or a message is ignored.
LEMMA ResumedKept ==
    ASSUME Ways, NEW c \in Co, NEW s \in Session, NEW v, Resumed(c, s, v),
           NEW u \in Session, u # s, owed'[u] = owed[u],
           u \in Queued(error_queue) => u \in Queued(error_queue')
    PROVE  Kept(u)
BY DEF Ways, Resumed, Kept

\* A message for nobody keeps every session but its own.
LEMMA IgnoredKept ==
    ASSUME NEW s \in Session, Ignored(s), NEW u \in Session, u # s, owed'[u] = owed[u],
           u \in Queued(error_queue) => u \in Queued(error_queue')
    PROVE  Kept(u)
BY DEF Ignored, Kept

\* A session that nobody waits for any more, and whose answer has come or will not.
LEMMA ClearedOwing ==
    ASSUME NEW u \in Session, session_id_coroutine'[u] = None,
           owed'[u] \in {"no"} \cup dead' \cup termed'
    PROVE  OwingOf(u)'
BY ConstantsOK DEF OwingOf

\* Every step keeps the account of who owes what.
LEMMA StepOwing ==
    ASSUME TypeOK, Ways, Unallocated, Machine, Owing, Next
    PROVE  Owing'
<1> SUFFICES ASSUME NEW u \in Session PROVE OwingOf(u)'
  BY DEF Owing
<1>0. /\ OwingOf(u) /\ None \notin Co /\ BREAK \notin Co /\ BREAK # None
      /\ dead \subseteq Peer /\ termed \subseteq Peer /\ "timer" \notin Peer /\ "no" \notin Peer
      /\ owed \in [Session -> Peer \cup {"no", "timer"}]
  BY ConstantsOK DEF Owing, TypeOK
<1>1. dead \subseteq dead' /\ termed \subseteq termed'
  BY StepDead
<1>2. CASE dispatch_wakeup
  <2>1. owed' = owed /\ error_queue' = error_queue /\ dead' = dead /\ termed' = termed
    BY <1>2 DEF dispatch_wakeup, world
  <2>2. CASE UNCHANGED <<status, sleep_session, sessions>>
    <3>1. Kept(u)
      BY <2>1, <2>2 DEF Kept, sessions
    <3> QED
      BY <3>1, KeptOwing
  <2>3. CASE \E c \in Co, s \in Session :
                /\ status[c] \in {"sleep", "wait"}
                /\ Resumed(c, s, IF status[c] = "wait" THEN None ELSE BREAK)
    <3>1. PICK c \in Co, s \in Session :
             /\ status[c] \in {"sleep", "wait"}
             /\ Resumed(c, s, IF status[c] = "wait" THEN None ELSE BREAK)
      BY <2>3
    <3>2. CASE u # s
      BY <2>1, <3>1, <3>2, ResumedKept, KeptOwing
    <3>3. CASE u = s /\ status[c] = "wait"
      <4>1. session_id_coroutine'[u] = None /\ owed[u] = "no"
        BY <1>0, <3>1, <3>3 DEF Resumed, OwingOf
      <4> QED
        BY <2>1, <4>1, ClearedOwing
    <3>4. CASE u = s /\ status[c] = "sleep"
      <4>1. session_id_coroutine'[u] = BREAK /\ owed[u] = "timer"
        BY <1>0, <3>1, <3>4 DEF Resumed, OwingOf
      <4>2. u \notin Queued(error_queue)
        BY <1>0, <4>1 DEF OwingOf
      <4> QED
        BY <1>0, <2>1, <4>1, <4>2 DEF OwingOf
    <3> QED
      BY <3>1, <3>2, <3>3, <3>4
  <2> QED
    BY <1>2, <2>2, <2>3, WakeupEffect
<1>3. CASE dispatch_error_queue
  <2>1. owed' = owed
    BY <1>3 DEF dispatch_error_queue, world
  <2>2. CASE UNCHANGED <<status, sleep_session, sessions, error_queue>>
    <3>1. Kept(u)
      BY <2>1, <2>2 DEF Kept, sessions
    <3> QED
      BY <3>1, KeptOwing
  <2>3. CASE \E s \in Session :
                /\ error_queue # << >> /\ s = Head(error_queue)
                /\ \/ Ignored(s)
                   \/ session_id_coroutine[s] \in Co /\ Resumed(session_id_coroutine[s], s, None)
    <3>1. PICK s \in Session :
                /\ error_queue # << >> /\ s = Head(error_queue)
                /\ \/ Ignored(s)
                   \/ session_id_coroutine[s] \in Co /\ Resumed(session_id_coroutine[s], s, None)
      BY <2>3
    <3>2. CASE u # s
      <4>1. u \in Queued(error_queue) => u \in Queued(error_queue')
        BY <3>1, <3>2, ErrorQueue
      <4>2. Kept(u)
        BY <2>1, <3>1, <3>2, <4>1, ResumedKept, IgnoredKept
      <4> QED
        BY <4>2, KeptOwing
    <3>3. CASE u = s
      <4>1. u \in Queued(error_queue)
        <5>1. error_queue \in Seq(Session)
          BY DEF TypeOK
        <5>2. Queued(error_queue) = {Head(error_queue)} \cup Queued(Tail(error_queue))
          BY <3>1, <5>1, TailQueued
        <5> QED
          BY <3>1, <3>3, <5>2
      <4>2. owed[u] \in {"no"} \cup dead \cup termed
        BY <1>0, <4>1 DEF OwingOf
      <4>3. session_id_coroutine'[u] = None
        BY <3>1, <3>3 DEF Ignored, Resumed
      <4> QED
        BY <1>1, <2>1, <4>2, <4>3, ClearedOwing
    <3> QED
      BY <3>2, <3>3
  <2> QED
    BY <1>3, <2>2, <2>3, ErrorEffect
<1>4. CASE AnyResponse
  <2>1. PICK s \in Session : DispatchResponse(s)
    BY <1>4 DEF AnyResponse
  <2>2. owed' = [owed EXCEPT ![s] = "no"] /\ error_queue' = error_queue
    BY <2>1 DEF DispatchResponse, queues
  <2>3. \/ Ignored(s)
        \/ session_id_coroutine[s] \in Co /\ Resumed(session_id_coroutine[s], s, None)
    BY <2>1, ResponseEffect
  <2>4. CASE u # s
    <3>1. owed'[u] = owed[u]
      BY <1>0, <2>2, <2>4
    <3>2. Kept(u)
      BY <2>2, <2>3, <2>4, <3>1, ResumedKept, IgnoredKept
    <3> QED
      BY <3>2, KeptOwing
  <2>5. CASE u = s
    <3>1. session_id_coroutine'[u] = None /\ owed'[u] = "no"
      BY <1>0, <2>2, <2>3, <2>5 DEF Ignored, Resumed
    <3> QED
      BY <3>1, ClearedOwing
  <2> QED
    BY <2>4, <2>5
<1>5. CASE Blocks
  <2>1. PICK c \in Co, s \in Session, kind \in Waiting, w \in Peer \cup {"no", "timer"} :
           /\ Blocked(c, s, kind, w)
           /\ kind = "wait" => w = "no"
           /\ kind \in {"sleep", "timeout"} => w = "timer"
    BY <1>5, BlockEffect
  <2>2. error_queue' = error_queue
    BY <1>5 DEF Blocks, sleep, wait, suspend_sleep, Block, AnyCall, call, timeout, queues
  <2>3. CASE u # s
    <3>1. session_id_coroutine[u] # c
      BY <2>1 DEF Blocked, Ways
    <3>2. Kept(u)
      BY <2>1, <2>2, <2>3, <3>1 DEF Blocked, Kept
    <3> QED
      BY <3>2, KeptOwing
  <2>4. CASE u = s
    <3>1. u \notin Queued(error_queue)
      <4>1. u > next_session
        BY <2>1, <2>4, Allocates, Counting DEF Blocked, TypeOK
      <4> QED
        BY <4>1 DEF Unallocated
    <3>2. /\ session_id_coroutine'[u] = c /\ status'[c] = kind /\ owed'[u] = w
          /\ kind = "call" => watching_session'[u] = w
      BY <2>1, <2>4 DEF Blocked
    <3> QED
      BY <1>0, <2>1, <2>2, <3>1, <3>2 DEF OwingOf
  <2> QED
    BY <2>3, <2>4
<1>6. CASE ~Resumes /\ ~Blocks
  <2>1. UNCHANGED <<session_id_coroutine, watching_session>> /\ Still
    BY <1>6, Changes, OtherStill DEF Changed
  <2>2. session_id_coroutine[u] \in Co =>
           status'[session_id_coroutine[u]] = status[session_id_coroutine[u]]
    BY <2>1 DEF Still, Ways
  <2>3. u \in Queued(error_queue) => u \in Queued(error_queue')
    BY <1>6, ErrorQueue DEF Resumes
  <2>4. CASE owed'[u] = owed[u]
    <3>1. Kept(u)
      BY <2>1, <2>2, <2>3, <2>4 DEF Kept
    <3> QED
      BY <3>1, KeptOwing
  <2>5. CASE owed'[u] # owed[u]
    <3>1. owed' = owed \/ AnyError
      BY <1>6, Changes DEF Changed, Resumes
    <3>2. PICK s \in Session : DispatchError(s)
      BY <2>5, <3>1 DEF AnyError
    <3>3. u = s /\ owed[u] \in Peer /\ owed'[u] = "no"
      BY <1>0, <2>5, <3>2 DEF DispatchError
    <3>4. CASE session_id_coroutine[u] \notin Co
      <4>1. session_id_coroutine'[u] = None
        BY <1>0, <2>1, <3>3, <3>4 DEF OwingOf, TypeOK
      <4> QED
        BY <3>3, <4>1, ClearedOwing
    <3>5. CASE session_id_coroutine[u] \in Co
      <4>1. status[session_id_coroutine[u]] = "call"
        BY <1>0, <3>3, <3>5 DEF OwingOf, Ways, Waiting
      <4>2. Captured(s)
        BY <3>3, <3>5, <4>1 DEF Ways, Captured
      <4>3. u \in Queued(error_queue')
        <5>1. error_queue' = Append(error_queue, s) /\ error_queue \in Seq(Session)
          BY <3>2, <4>2 DEF DispatchError, TypeOK
        <5>2. Queued(Append(error_queue, s)) = Queued(error_queue) \cup {s}
          BY <5>1, AppendSession
        <5> QED
          BY <3>3, <5>1, <5>2
      <4> QED
        BY <1>0, <2>1, <2>2, <3>3, <3>5, <4>1, <4>3 DEF OwingOf
    <3> QED
      BY <3>4, <3>5
  <2> QED
    BY <2>4, <2>5
<1> QED
  BY <1>2, <1>3, <1>4, <1>5, <1>6 DEF Resumes

-------------------------------------------------------------------------------
(* Requests *)

\* The answers that were sent, and what was dropped, stay so.
LEMMA StepAnswers ==
    ASSUME TypeOK, Next, NEW r \in Request
    PROVE  /\ forgot \subseteq forgot' /\ dead \subseteq dead'
           /\ answers'[r] = answers[r] \/ answers'[r] = answers[r] + 1
           /\ answers[r] > 0 => answers'[r] > 0
<1>1. forgot \subseteq forgot' /\ dead \subseteq dead'
  BY Changes DEF Changed, AnyTerm, term, Finish, AnyDeath, PeerDies
<1>2. answers[r] \in Nat
  BY DEF TypeOK
<1>3. answers'[r] = answers[r] \/ answers'[r] = answers[r] + 1
  <2>1. ASSUME NEW R, Answer(R) PROVE answers'[r] = answers[r] \/ answers'[r] = answers[r] + 1
    BY <2>1 DEF Answer
  <2> QED
    BY <2>1, Changes
    DEF Changed, AnyRefusal, RefuseRequest, ret, AnyRespond, Respond, Fail, exit
<1>4. answers[r] > 0 => answers'[r] > 0
  BY <1>2, <1>3, Counting
<1> QED
  BY <1>1, <1>3, <1>4

\* A request that a step does not touch.
LEMMA KeptRequest ==
    ASSUME TypeOK, Next, NEW r \in Request, RequestOf(r),
           Holds(r)' <=> Holds(r), answers'[r] = answers[r],
           r \in unresponse' <=> r \in unresponse,
           r <= Len(from') <=> r <= Len(from), r <= Len(from) => from'[r] = from[r]
    PROVE  RequestOf(r)'
<1>1. forgot \subseteq forgot' /\ dead \subseteq dead'
  BY StepAnswers
<1>2. r <= Len(from) /\ Settled(r) => Settled(r)'
  BY <1>1 DEF Settled, Live
<1> QED
  BY <1>2 DEF RequestOf

\* The running coroutine gives its request up.
LEMMA Releases ==
    ASSUME TypeOK, Requests, ~exited, mode = "run", ignoreret
    PROVE  /\ \A r \in Request : Holds(r)' <=> Holds(r) /\ r # session_coroutine_id[running]
           /\ \A c, d \in Co : session_coroutine_id'[c] \in Request
                 /\ session_coroutine_id'[c] = session_coroutine_id'[d] => c = d
           /\ session_coroutine_id'[running] = None
           /\ \A c \in Co : session_coroutine_id[c] = None => session_coroutine_id'[c] = None
           /\ Unanswered(running) \subseteq Request
           /\ \A r \in Request : r \in Unanswered(running) <=> r = session_coroutine_id[running]
           /\ \A r \in Request : r = session_coroutine_id[running] => Holds(r)
<1>1. /\ session_coroutine_id \in [Co -> Request \cup {0, None}]
      /\ running \in Co /\ None \notin Request /\ 0 \notin Request
  BY RequestNat DEF TypeOK
<1>2. \A c \in Co :
         session_coroutine_id'[c] = IF c = running THEN None ELSE session_coroutine_id[c]
  BY <1>1 DEF ignoreret
<1>3. \A c, d \in Co :
         session_coroutine_id[c] \in Request /\ session_coroutine_id[c] = session_coroutine_id[d]
            => c = d
  BY DEF Requests
<1>4. ASSUME NEW r \in Request
      PROVE  Holds(r)' <=> Holds(r) /\ r # session_coroutine_id[running]
  BY <1>1, <1>2, <1>3 DEF Holds
<1>5. ASSUME NEW c \in Co, NEW d \in Co, session_coroutine_id'[c] \in Request,
             session_coroutine_id'[c] = session_coroutine_id'[d]
      PROVE  c = d
  BY <1>1, <1>2, <1>3, <1>5
<1>6. /\ Unanswered(running) \subseteq Request
      /\ \A r \in Request : r \in Unanswered(running) <=> r = session_coroutine_id[running]
      /\ \A r \in Request : r = session_coroutine_id[running] => Holds(r)
  BY <1>1 DEF Unanswered, Holds
<1> QED
  BY <1>1, <1>2, <1>4, <1>5, <1>6

\* Every step before the exit keeps the account of the requests.
LEMMA StepRequests ==
    ASSUME TypeOK, Ways, Machine, Requests, Next
    PROVE  Requests'
<1> SUFFICES ASSUME ~exited'
             PROVE  /\ \A r \in Request : RequestOf(r)'
                    /\ \A c, d \in Co : session_coroutine_id'[c] \in Request
                          /\ session_coroutine_id'[c] = session_coroutine_id'[d] => c = d
                    /\ \A c \in Co : status'[c] \in {"pool", "unused"} =>
                          session_coroutine_id'[c] = None
  BY DEF Requests
<1>1. ~exited /\ ~exit
  <2>1. ~exit
    BY DEF exit
  <2> QED
    BY <2>1, SameFlags, Changes DEF Changed
<1>2. /\ \A r \in Request : RequestOf(r)
      /\ \A c, d \in Co : session_coroutine_id[c] \in Request
            /\ session_coroutine_id[c] = session_coroutine_id[d] => c = d
      /\ \A c \in Co : status[c] \in {"pool", "unused"} => session_coroutine_id[c] = None
  BY <1>1 DEF Requests
<1>3. /\ status \in [Co -> {"unused", "pool", "fork", "run", "quit"} \cup Waiting]
      /\ session_coroutine_id \in [Co -> Request \cup {0, None}]
      /\ answers \in [Request -> Nat] /\ unresponse \subseteq Request
      /\ from \in Seq(Peer) /\ None \notin Request /\ 0 \notin Request
  BY RequestNat DEF TypeOK
<1>4. \A c \in Co : \/ status'[c] = status[c] \/ status'[c] \notin {"pool", "unused"}
                    \/ (Finish \/ Fail) /\ c = running
  <2>1. ASSUME NEW c \in Co, NEW s, NEW v, Resumed(c, s, v)
        PROVE  \A d \in Co : status'[d] = status[d] \/ status'[d] \notin {"pool", "unused"}
    BY <2>1 DEF Resumed
  <2>2. CASE dispatch_wakeup
    BY <2>1, <2>2, WakeupEffect
  <2>3. CASE dispatch_error_queue
    BY <2>1, <2>3, ErrorEffect DEF Ignored
  <2>4. CASE AnyResponse
    BY <2>1, <2>4, ResponseEffect DEF Ignored, AnyResponse
  <2>5. CASE Blocks
    <3>1. PICK c \in Co, s \in Session, kind \in Waiting, w \in Peer \cup {"no", "timer"} :
             Blocked(c, s, kind, w)
      BY <2>5, BlockEffect
    <3> QED
      BY <3>1 DEF Blocked, Waiting
  <2>6. CASE RunFork \/ AnyRequest \/ fork
    BY <1>3, <2>6 DEF RunFork, AnyRequest, DispatchRequest, fork
  <2>7. CASE Finish \/ Fail
    BY <1>3, <2>7 DEF Finish, Fail
  <2> QED
    BY <1>1, <2>2, <2>3, <2>4, <2>5, <2>6, <2>7, Changes DEF Changed, Resumes
<1>5. CASE UNCHANGED <<session_coroutine_id, answers, unresponse, from>> /\ ~Finish /\ ~Fail
  <2>1. \A r \in Request : RequestOf(r)'
    BY <1>2, <1>5, KeptRequest DEF Holds
  <2> QED
    BY <1>2, <1>4, <1>5, <2>1
<1>6. CASE AnyRequest
  <2>1. PICK p \in Peer, reply \in BOOLEAN : DispatchRequest(p, reply)
    BY <1>6 DEF AnyRequest
  <2>2. PICK c \in co_create :
           /\ session_coroutine_id' =
                 [session_coroutine_id EXCEPT ![c] = IF reply THEN Len(from) + 1 ELSE 0]
           /\ status' = [status EXCEPT ![c] = "run"]
    BY <2>1 DEF DispatchRequest
  <2>3. c \in Co /\ session_coroutine_id[c] = None
    BY <1>2 DEF co_create
  <2>4. /\ UNCHANGED <<answers, unresponse>>
        /\ from' = IF reply THEN Append(from, p) ELSE from
        /\ reply => Len(from) < MaxRequest
    BY <2>1 DEF DispatchRequest, replies
  <2>5. /\ \A d \in Co : d # c => session_coroutine_id'[d] = session_coroutine_id[d]
        /\ session_coroutine_id'[c] = IF reply THEN Len(from) + 1 ELSE 0
    BY <1>3, <2>2, <2>3
  <2>6. CASE ~reply
    <3>1. \A r \in Request : Holds(r)' <=> Holds(r)
      BY <1>3, <2>3, <2>5, <2>6 DEF Holds
    <3>2. \A r \in Request : RequestOf(r)'
      BY <1>2, <2>4, <2>6, <3>1, KeptRequest
    <3>3. \A d, e \in Co : session_coroutine_id'[d] \in Request
             /\ session_coroutine_id'[d] = session_coroutine_id'[e] => d = e
      BY <1>2, <1>3, <2>5, <2>6
    <3>4. \A d \in Co : status'[d] \in {"pool", "unused"} => session_coroutine_id'[d] = None
      BY <1>2, <1>3, <2>2, <2>3, <2>5
    <3> QED
      BY <3>2, <3>3, <3>4
  <2>7. CASE reply
    <3> DEFINE n == Len(from) + 1
    <3>1. /\ n \in Request /\ ~(n <= Len(from))
          /\ \A r \in Request : /\ r <= Len(from') <=> r <= Len(from) \/ r = n
                                /\ r <= Len(from) => from'[r] = from[r]
      <4>1. from' = Append(from, p) /\ Len(from) < MaxRequest
        BY <2>4, <2>7
      <4> QED
        BY <1>3, <4>1, Arrival
    <3> HIDE DEF n
    <3>2. session_coroutine_id'[c] = n
      BY <2>5, <2>7 DEF n
    <3>3. ~Holds(n) /\ answers[n] = 0 /\ n \notin unresponse
      BY <1>2, <3>1, One DEF RequestOf
    <3>4. \A r \in Request : Holds(r)' <=> Holds(r) \/ r = n
      BY <1>3, <2>3, <2>5, <3>2 DEF Holds
    <3>5. ASSUME NEW r \in Request PROVE RequestOf(r)'
      <4>1. CASE r = n
        <5>1. Holds(r)' /\ answers'[r] = 0 /\ r \notin unresponse' /\ r <= Len(from')
          BY <2>4, <3>1, <3>3, <3>4, <4>1
        <5> QED
          BY <5>1, One DEF RequestOf
      <4>2. CASE r # n
        BY <1>2, <2>4, <3>1, <3>4, <4>2, KeptRequest
      <4> QED
        BY <4>1, <4>2
    <3>6. \A d, e \in Co : session_coroutine_id'[d] \in Request
             /\ session_coroutine_id'[d] = session_coroutine_id'[e] => d = e
      BY <1>2, <2>5, <3>2, <3>3 DEF Holds
    <3>7. \A d \in Co : status'[d] \in {"pool", "unused"} => session_coroutine_id'[d] = None
      BY <1>2, <1>3, <2>2, <2>3, <2>5
    <3> QED
      BY <3>5, <3>6, <3>7
  <2> QED
    BY <2>6, <2>7
<1>7. CASE AnyRefusal
  <2>1. PICK p \in Peer : RefuseRequest(p)
    BY <1>7 DEF AnyRefusal
  <2> DEFINE n == Len(from) + 1
  <2>2. /\ from' = Append(from, p) /\ Len(from) < MaxRequest /\ Answer({n})
        /\ UNCHANGED <<session_coroutine_id, unresponse, status>>
    BY <2>1 DEF RefuseRequest, coroutines
  <2>3. /\ n \in Request /\ ~(n <= Len(from))
        /\ \A r \in Request : /\ r <= Len(from') <=> r <= Len(from) \/ r = n
                              /\ r <= Len(from) => from'[r] = from[r]
    BY <1>3, <2>2, Arrival
  <2> HIDE DEF n
  <2>4. \A r \in Request : Holds(r)' <=> Holds(r)
    BY <2>2 DEF Holds
  <2>5. ~Holds(n) /\ answers[n] = 0 /\ n \notin unresponse
    BY <1>2, <2>3, One DEF RequestOf
  <2>6. ASSUME NEW r \in Request PROVE RequestOf(r)'
    <3>1. CASE r = n
      <4>1. ~Holds(r)' /\ answers'[r] = 1 /\ r \notin unresponse' /\ r <= Len(from')
        BY <2>2, <2>3, <2>4, <2>5, <3>1, One DEF Answer
      <4> QED
        BY <4>1, One DEF RequestOf, Settled
    <3>2. CASE r # n
      <4>1. answers'[r] = answers[r]
        BY <2>2, <3>2 DEF Answer
      <4> QED
        BY <1>2, <2>2, <2>3, <2>4, <3>2, <4>1, KeptRequest
    <3> QED
      BY <3>1, <3>2
  <2> QED
    BY <1>2, <2>2, <2>6
<1>8. CASE ret \/ response \/ AnyTerm \/ Finish \/ Fail
  <2>1. mode = "run" /\ ignoreret /\ UNCHANGED from
    BY <1>8 DEF ret, response, AnyTerm, term, Finish, Fail, world
  <2> DEFINE n == session_coroutine_id[running]
  <2>2. /\ \A r \in Request : Holds(r)' <=> Holds(r) /\ r # n
        /\ \A c, d \in Co : session_coroutine_id'[c] \in Request
              /\ session_coroutine_id'[c] = session_coroutine_id'[d] => c = d
        /\ session_coroutine_id'[running] = None
        /\ \A c \in Co : session_coroutine_id[c] = None => session_coroutine_id'[c] = None
        /\ \A r \in Request : r \in Unanswered(running) <=> r = n
        /\ \A r \in Request : r = n => Holds(r)
    BY <1>1, <2>1, Releases
  <2> HIDE DEF n
  <2>3. ASSUME NEW r \in Request, r = n
        PROVE  answers[r] = 0 /\ r \notin unresponse /\ r <= Len(from') /\ ~Holds(r)'
    BY <1>2, <2>1, <2>2, <2>3 DEF RequestOf
  <2>4. ASSUME NEW r \in Request, r = n PROVE RequestOf(r)'
    <3>1. CASE ret \/ Fail
      <4>1. answers'[r] = 1 /\ r \notin unresponse'
        BY <2>2, <2>3, <2>4, <3>1, One DEF ret, Fail, Answer
      <4> QED
        BY <2>3, <2>4, <4>1, One DEF RequestOf, Settled
    <3>2. CASE response
      <4>1. answers'[r] = 0 /\ r \in unresponse'
        BY <2>2, <2>3, <2>4, <3>2 DEF response
      <4> QED
        BY <2>3, <2>4, <4>1, One DEF RequestOf
    <3>3. CASE AnyTerm \/ Finish
      <4>1. answers'[r] = 0 /\ r \notin unresponse' /\ r \in forgot'
        BY <2>2, <2>3, <2>4, <3>3 DEF AnyTerm, term, error_dispatch, Finish
      <4> QED
        BY <2>3, <2>4, <4>1, One DEF RequestOf, Settled
    <3> QED
      BY <1>8, <3>1, <3>2, <3>3
  <2>5. ASSUME NEW r \in Request, r # n PROVE RequestOf(r)'
    <3>1. answers'[r] = answers[r]
      BY <1>8, <2>2, <2>5 DEF ret, Fail, response, AnyTerm, term, Finish, Answer
    <3>2. CASE r \in unresponse' <=> r \in unresponse
      BY <1>2, <2>1, <2>2, <2>5, <3>1, <3>2, KeptRequest
    <3>3. CASE ~(r \in unresponse' <=> r \in unresponse)
      <4>1. AnyTerm
        BY <1>8, <2>2, <2>5, <3>3 DEF ret, Fail, response, Finish
      <4>2. r \in unresponse /\ r \notin unresponse' /\ r \in forgot'
        BY <3>3, <4>1 DEF AnyTerm, term, error_dispatch
      <4>3. answers'[r] = 0 /\ r <= Len(from') /\ ~Holds(r)'
        BY <1>2, <2>1, <2>2, <2>5, <3>1, <4>2 DEF RequestOf
      <4> QED
        BY <4>2, <4>3, One DEF RequestOf, Settled
    <3> QED
      BY <3>2, <3>3
  <2>6. \A c \in Co : status'[c] \in {"pool", "unused"} => session_coroutine_id'[c] = None
    BY <1>2, <1>4, <2>2
  <2> QED
    BY <2>2, <2>4, <2>5, <2>6
<1>9. CASE AnyDown
  <2>1. PICK p \in Peer : DispatchDown(p)
    BY <1>9 DEF AnyDown
  <2>2. /\ UNCHANGED <<session_coroutine_id, answers, from, status>> /\ p \in dead'
        /\ unresponse' = {r \in unresponse : from[r] # p}
    BY <2>1 DEF DispatchDown, error_dispatch, coroutines
  <2>3. ASSUME NEW r \in Request PROVE RequestOf(r)'
    <3>1. Holds(r)' <=> Holds(r)
      BY <2>2 DEF Holds
    <3>2. CASE r \in unresponse' <=> r \in unresponse
      BY <1>2, <2>2, <3>1, <3>2, KeptRequest
    <3>3. CASE ~(r \in unresponse' <=> r \in unresponse)
      <4>1. r \in unresponse /\ r \notin unresponse' /\ from'[r] = p
        BY <2>2, <3>3
      <4>2. answers'[r] = 0 /\ r <= Len(from') /\ ~Holds(r)'
        BY <1>2, <2>2, <3>1, <4>1 DEF RequestOf
      <4> QED
        BY <2>2, <4>1, <4>2, One DEF RequestOf, Settled, Live
    <3> QED
      BY <3>2, <3>3
  <2> QED
    BY <1>2, <2>2, <2>3
<1>10. CASE AnyRespond
  <2>1. PICK n \in Request : Respond(n)
    BY <1>10 DEF AnyRespond
  <2>2. /\ UNCHANGED <<session_coroutine_id, from, status>> /\ n \in unresponse
        /\ unresponse' = unresponse \ {n} /\ Answer({n})
    BY <2>1 DEF Respond, coroutines, world
  <2>3. ASSUME NEW r \in Request PROVE RequestOf(r)'
    <3>1. Holds(r)' <=> Holds(r)
      BY <2>2 DEF Holds
    <3>2. CASE r # n
      <4>1. answers'[r] = answers[r] /\ (r \in unresponse' <=> r \in unresponse)
        BY <2>2, <3>2 DEF Answer
      <4> QED
        BY <1>2, <2>2, <3>1, <4>1, KeptRequest
    <3>3. CASE r = n
      <4>1. answers[r] = 0 /\ r <= Len(from') /\ ~Holds(r)'
        BY <1>2, <2>2, <3>1, <3>3 DEF RequestOf
      <4>2. answers'[r] = 1 /\ r \notin unresponse'
        BY <2>2, <3>3, <4>1, One DEF Answer
      <4> QED
        BY <4>1, <4>2, One DEF RequestOf, Settled
    <3> QED
      BY <3>2, <3>3
  <2> QED
    BY <1>2, <2>2, <2>3
<1>11. \/ UNCHANGED <<session_coroutine_id, answers, unresponse, from>> /\ ~Finish /\ ~Fail
       \/ AnyRequest \/ AnyRefusal \/ ret \/ response \/ AnyTerm \/ Finish \/ Fail \/ AnyDown
       \/ AnyRespond
  BY <1>1, Changes DEF Changed
<1> QED
  BY <1>5, <1>6, <1>7, <1>8, <1>9, <1>10, <1>11

\* skynet.exit settles every request, and no later step unsettles one.
LEMMA StepExiting ==
    ASSUME TypeOK, Requests, Exiting, Next
    PROVE  Exiting'
<1>1. gone' => exited'
  BY Changes DEF Changed, exit, Gone, Exiting
<1>2. ASSUME ~Batch, exited', NEW r \in Request, r <= Len(from')
      PROVE  Settled(r)'
  <2>1. from' = from
    BY <1>2, Changes
    DEF Changed, AnyRequest, DispatchRequest, AnyRefusal, RefuseRequest, MayDeliver, exit
  <2>2. CASE Settled(r)
    <3>1. forgot \subseteq forgot' /\ dead \subseteq dead' /\ (answers[r] > 0 => answers'[r] > 0)
      BY StepAnswers
    <3> QED
      BY <2>1, <2>2, <3>1 DEF Settled, Live
  <2>3. CASE ~Settled(r)
    <3>1. ~exited
      BY <1>2, <2>1, <2>3 DEF Exiting
    <3>2. exit
      BY <1>2, <3>1, Changes DEF Changed
    <3>3. Holds(r) \/ r \in unresponse
      BY <1>2, <2>1, <2>3, <3>1 DEF Requests, RequestOf
    <3>4. r \in Reported
      <4>1. r # 0 /\ r # None
        BY RequestNat
      <4>2. CASE r \in unresponse
        BY <4>2, ReportsClosures
      <4>3. CASE Holds(r)
        <5>1. PICK c \in Co : session_coroutine_id[c] = r
          BY <4>3 DEF Holds
        <5>2. r \in Unanswered(c)
          BY <4>1, <5>1 DEF Unanswered
        <5> QED
          BY <5>2 DEF Reported
      <4> QED
        BY <3>3, <4>2, <4>3
    <3>5. answers'[r] = answers[r] + 1 /\ answers[r] \in Nat
      BY <3>2, <3>4 DEF exit, Answer, TypeOK
    <3>6. answers'[r] > 0
      BY <3>5, Counting
    <3> QED
      BY <3>6 DEF Settled
  <2> QED
    BY <2>2, <2>3
<1> QED
  BY <1>1, <1>2 DEF Exiting

-------------------------------------------------------------------------------
(* Queues that are emptied *)

\* Every step keeps somebody who will look at the queues, and them clean.
LEMMA StepFlow ==
    ASSUME TypeOK, Ways, Machine, Flow, Next
    PROVE  Flow'
<1> DEFINE Looks(m, t) == m \in {"run", "wakeup"} \/ (m = "fork" /\ t > 0)
           Goal == /\ wakeup_queue' # << >> => Looks(mode', trigger')
                   /\ error_queue' # << >> => mode' = "error" \/ Looks(mode', trigger')
                   /\ Distinct(wakeup_queue')
                   /\ \A c \in Queued(wakeup_queue') : sleep_session'[c] # None
                   /\ Distinct(error_queue')
                   /\ \A s \in Queued(error_queue') : watching_session'[s] # None
<1> SUFFICES ASSUME ~exited', ~twice', termed' = {} PROVE Goal
  BY DEF Flow, Distinct, Queued
<1>1. ~exited /\ ~exit
  <2>1. ~exit
    BY DEF exit
  <2> QED
    BY <2>1, SameFlags, Changes DEF Changed
<1>2. ~twice /\ \A c \in Co : wakeup(c) => c \notin Queued(wakeup_queue)
  <2>1. \A c \in Co : wakeup(c) => ~twice /\ c \notin Queued(wakeup_queue)
    BY DEF wakeup
  <2> QED
    BY <2>1, SameFlags, Changes DEF Changed, AnyWakeup
<1>3. termed = {} /\ ~AnyTerm
  <2>1. ~AnyTerm
    BY DEF AnyTerm, term
  <2> QED
    BY <2>1, Changes DEF Changed
<1>4. /\ wakeup_queue # << >> => Looks(mode, trigger)
      /\ error_queue # << >> => mode = "error" \/ Looks(mode, trigger)
      /\ Distinct(wakeup_queue) /\ \A c \in Queued(wakeup_queue) : sleep_session[c] # None
      /\ Distinct(error_queue) /\ \A s \in Queued(error_queue) : watching_session[s] # None
  BY <1>1, <1>2, <1>3 DEF Flow
<1>5. /\ wakeup_queue \in Seq(Co) /\ error_queue \in Seq(Session) /\ trigger \in Nat
      /\ Queued(wakeup_queue) \subseteq Co /\ Queued(error_queue) \subseteq Session
  <2>1. wakeup_queue \in Seq(Co) /\ error_queue \in Seq(Session) /\ trigger \in Nat
    BY DEF TypeOK
  <2> QED
    BY <2>1, QueuedIn
<1>6. Queued(<< >>) = {} /\ Distinct(<< >>)
  BY NothingQueued
<1>7. mode = "idle" => wakeup_queue = << >> /\ error_queue = << >>
  BY <1>4
<1>8. CASE wakeup_queue' = << >> /\ error_queue' = << >>
  BY <1>6, <1>8
<1>9. CASE /\ UNCHANGED <<wakeup_queue, error_queue>>
           /\ \A c \in Co : sleep_session[c] # None => sleep_session'[c] # None
           /\ \A s \in Session : watching_session[s] # None => watching_session'[s] # None
           /\ Looks(mode', trigger') \/ UNCHANGED <<mode, trigger>>
  <2>1. /\ wakeup_queue # << >> => Looks(mode', trigger')
        /\ error_queue # << >> => mode' = "error" \/ Looks(mode', trigger')
    BY <1>4, <1>9
  <2> HIDE DEF Looks
  <2> QED
    BY <1>4, <1>5, <1>9, <2>1
<1>10. CASE dispatch_wakeup
  <2>1. CASE wakeup_queue = << >>
    <3>1. /\ wakeup_queue' = << >> /\ error_queue' = error_queue /\ mode' = "error"
          /\ watching_session' = watching_session
      BY <1>10, <2>1 DEF dispatch_wakeup, sessions
    <3> QED
      BY <1>4, <1>6, <3>1
  <2>2. CASE wakeup_queue # << >>
    <3> DEFINE c == Head(wakeup_queue)
               s == sleep_session[c]
    <3>1. /\ c \in Co /\ Queued(wakeup_queue) = {c} \cup Queued(Tail(wakeup_queue))
          /\ Distinct(Tail(wakeup_queue)) /\ c \notin Queued(Tail(wakeup_queue))
      BY <1>4, <1>5, <2>2, TailCoroutine
    <3>2. s # None
      BY <1>4, <3>1
    <3>3. /\ s \in Session /\ status[c] \in {"sleep", "wait"}
          /\ Resumed(c, s, IF status[c] = "wait" THEN None ELSE BREAK)
      BY <1>10, <2>2, <3>2, WakeupEffect
    <3>4. wakeup_queue' = Tail(wakeup_queue) /\ error_queue' = error_queue
      BY <1>10, <2>2 DEF dispatch_wakeup
    <3> HIDE DEF c, s
    <3>5. /\ mode' = "run"
          /\ \A d \in Co : d # c => sleep_session'[d] = sleep_session[d]
          /\ \A u \in Session : u # s => watching_session'[u] = watching_session[u]
          /\ session_id_coroutine[s] = c
      BY <3>3 DEF Resumed
    <3>6. watching_session[s] = None
      BY <3>1, <3>3, <3>5 DEF Ways
    <3>7. \A d \in Queued(wakeup_queue') : sleep_session'[d] # None
      BY <1>4, <1>5, <3>1, <3>4, <3>5
    <3>8. \A u \in Queued(error_queue') : watching_session'[u] # None
      BY <1>4, <1>5, <3>4, <3>5, <3>6
    <3> QED
      BY <1>4, <3>1, <3>4, <3>5, <3>7, <3>8
  <2> QED
    BY <2>1, <2>2
<1>11. CASE dispatch_error_queue
  <2>1. mode = "error" /\ wakeup_queue' = wakeup_queue
    BY <1>11 DEF dispatch_error_queue
  <2>2. wakeup_queue = << >>
    BY <1>4, <2>1
  <2>3. CASE error_queue = << >>
    <3>1. error_queue' = << >>
      BY <1>11, <2>3 DEF dispatch_error_queue
    <3> QED
      BY <1>8, <2>1, <2>2, <3>1
  <2>4. CASE error_queue # << >>
    <3> DEFINE s == Head(error_queue)
    <3>1. /\ s \in Session /\ Queued(error_queue) = {s} \cup Queued(Tail(error_queue))
          /\ Distinct(Tail(error_queue)) /\ s \notin Queued(Tail(error_queue))
      BY <1>4, <1>5, <2>4, TailSession
    <3>2. session_id_coroutine[s] \in Co
      BY <1>4, <3>1 DEF Ways
    <3>3. error_queue' = Tail(error_queue) /\ Resumed(session_id_coroutine[s], s, None)
      BY <1>11, <2>4, <3>2, ErrorEffect DEF Ignored
    <3> HIDE DEF s
    <3>4. /\ mode' = "run"
          /\ \A u \in Session : u # s => watching_session'[u] = watching_session[u]
      BY <3>3 DEF Resumed
    <3>5. \A u \in Queued(error_queue') : watching_session'[u] # None
      BY <1>4, <1>5, <3>1, <3>3, <3>4
    <3> QED
      BY <1>6, <2>1, <2>2, <3>1, <3>3, <3>4, <3>5
  <2> QED
    BY <2>3, <2>4
<1>12. CASE AnyRequest \/ AnyRefusal \/ AnyResponse
  <2>1. mode = "idle" /\ UNCHANGED <<wakeup_queue, error_queue>>
    BY <1>12 DEF AnyRequest, DispatchRequest, AnyRefusal, RefuseRequest, AnyResponse,
                 DispatchResponse, MayDeliver, queues
  <2> QED
    BY <1>7, <1>8, <2>1
<1>13. CASE AnyError \/ AnyDown
  <2>1. /\ mode = "idle" /\ mode' = "wakeup" /\ wakeup_queue' = wakeup_queue
        /\ watching_session' = watching_session
    BY <1>13 DEF AnyError, DispatchError, AnyDown, DispatchDown, MayDeliver, Suspend, sessions
  <2>2. wakeup_queue = << >> /\ error_queue = << >>
    BY <1>7, <2>1
  <2>3. /\ Distinct(error_queue')
        /\ \A u \in Queued(error_queue') : watching_session[u] # None
    <3>1. CASE AnyError
      <4>1. PICK s \in Session : error_queue' = IF Captured(s) THEN Append(<< >>, s) ELSE << >>
        BY <2>2, <3>1 DEF AnyError, DispatchError
      <4>2. CASE Captured(s)
        <5>1. error_queue' = Append(<< >>, s) /\ watching_session[s] # None
          BY <4>1, <4>2 DEF Captured
        <5>2. Queued(Append(<< >>, s)) = Queued(<< >>) \cup {s} /\ Distinct(Append(<< >>, s))
          BY <1>6, NothingQueued, AppendSession
        <5> QED
          BY <1>6, <5>1, <5>2
      <4>3. CASE ~Captured(s)
        BY <1>6, <4>1, <4>3
      <4> QED
        BY <4>2, <4>3
    <3>2. CASE AnyDown
      <4>1. PICK p \in Peer : \E q \in Watched(p) : error_queue' = << >> \o q
        BY <2>2, <3>2 DEF AnyDown, DispatchDown, error_dispatch
      <4>2. PICK q \in Watched(p) : error_queue' = << >> \o q
        BY <4>1
      <4>3. /\ q \in Seq(Session) /\ Distinct(q)
            /\ Queued(q) = {s \in Session : watching_session[s] = p}
        BY WatchedQueued
      <4>4. error_queue' = q /\ p # None
        BY <4>2, <4>3, NothingQueued, ConstantsOK
      <4> QED
        BY <4>3, <4>4
    <3> QED
      BY <1>13, <3>1, <3>2
  <2> QED
    BY <1>6, <2>1, <2>2, <2>3
<1>14. CASE MessageDone
  <2>1. UNCHANGED <<wakeup_queue, error_queue>> /\ mode = "fork" /\ trigger = 0
    BY <1>14 DEF MessageDone, queues
  <2>2. wakeup_queue = << >> /\ error_queue = << >>
    BY <1>4, <2>1, One
  <2> QED
    BY <1>8, <2>1, <2>2
<1>15. CASE RunFork \/ RunTrigger \/ Finish
  <2>1. /\ UNCHANGED <<wakeup_queue, error_queue, sleep_session, watching_session>>
        /\ mode' \in {"run", "wakeup"}
    BY <1>15 DEF RunFork, RunTrigger, Finish, Run, Suspend, queues, sessions, coroutines
  <2> QED
    BY <1>9, <2>1
<1>16. CASE Fail
  <2>1. /\ UNCHANGED <<wakeup_queue, error_queue, sleep_session, watching_session>>
        /\ mode' = "fork" /\ trigger' = trigger + 1
    BY <1>16 DEF Fail, Retrigger, Unwind, sessions
  <2>2. trigger' > 0
    BY <1>5, <2>1, Counting
  <2> QED
    BY <1>9, <2>1, <2>2
<1>17. CASE Blocks
  <2>1. PICK c \in Co, s \in Session, kind \in Waiting, w \in Peer \cup {"no", "timer"} :
           /\ Blocked(c, s, kind, w) /\ (kind = "call" => w \in Peer)
           /\ mode = "run" /\ (UNCHANGED machine \/ Suspend)
    BY <1>17, BlockEffect
  <2>2. mode' \in {"run", "wakeup"}
    BY <2>1 DEF Suspend, machine
  <2>3. UNCHANGED <<wakeup_queue, error_queue>>
    BY <1>17 DEF Blocks, sleep, wait, suspend_sleep, AnyCall, call, timeout, Block, queues
  <2>4. None \notin Session /\ None \notin Peer
    BY SessionNat, ConstantsOK
  <2>5. /\ \A d \in Co : sleep_session[d] # None => sleep_session'[d] # None
        /\ \A u \in Session : watching_session[u] # None => watching_session'[u] # None
    BY <2>1, <2>4 DEF Blocked
  <2> QED
    BY <1>9, <2>2, <2>3, <2>5
<1>18. CASE AnyWakeup
  <2>1. PICK c \in Co : wakeup(c)
    BY <1>18 DEF AnyWakeup
  <2>2. /\ mode = "run" /\ sleep_session[c] # None /\ wakeup_queue' = Append(wakeup_queue, c)
        /\ UNCHANGED <<error_queue, mode, sleep_session, watching_session>>
    BY <2>1 DEF wakeup, coroutines, sessions, machine
  <2>3. c \notin Queued(wakeup_queue)
    BY <1>2, <2>1
  <2>4. /\ Queued(wakeup_queue') = Queued(wakeup_queue) \cup {c} /\ Distinct(wakeup_queue')
    BY <1>4, <1>5, <2>2, <2>3, AppendCoroutine
  <2> QED
    BY <1>4, <2>2, <2>4
<1>19. CASE fork \/ ret \/ response \/ AnyRespond \/ AnyDeath \/ Gone
  <2>1. UNCHANGED <<wakeup_queue, error_queue, sleep_session, watching_session, mode, trigger>>
    BY <1>19 DEF fork, ret, response, AnyRespond, Respond, AnyDeath, PeerDies, Gone, queues,
                 sessions, coroutines, machine
  <2> QED
    BY <1>9, <2>1
<1> HIDE DEF Goal, Looks
<1> QED
  BY <1>1, <1>3, <1>10, <1>11, <1>12, <1>13, <1>14, <1>15, <1>16, <1>17, <1>18, <1>19, Steps
  DEF Blocks

-------------------------------------------------------------------------------
(* The theorems *)

\* A service that was just started.
LEMMA Initially == Init => IInv
<1> SUFFICES ASSUME Init PROVE IInv
  OBVIOUS
<1>1. TypeOK
  BY Start DEF Init, TypeOK
<1>2. Ways
  BY ConstantsOK DEF Init, Ways, Waiting
<1>3. /\ Queued(wakeup_queue) = {} /\ Distinct(wakeup_queue)
      /\ Queued(error_queue) = {} /\ Distinct(error_queue)
  BY NothingQueued DEF Init
<1>4. Unallocated
  BY <1>3 DEF Init, Unallocated
<1>5. Machine
  BY DEF Init, Machine
<1>6. Owing
  BY ConstantsOK DEF Init, Owing, OwingOf
<1>7. Requests
  <2>1. /\ \A c \in Co : session_coroutine_id[c] = None
        /\ \A r \in Request : answers[r] = 0 /\ r \notin unresponse /\ ~(r <= Len(from))
    BY Start DEF Init
  <2>2. \A r \in Request : ~Holds(r)
    BY <2>1, RequestNat DEF Holds
  <2>3. \A r \in Request : RequestOf(r)
    BY <2>1, <2>2, One DEF RequestOf
  <2> QED
    BY <2>1, <2>2, <2>3, RequestNat DEF Requests, Holds
<1>8. Exiting
  BY DEF Init, Exiting
<1>9. Flow
  BY <1>3 DEF Init, Flow
<1> QED
  BY <1>1, <1>2, <1>4, <1>5, <1>6, <1>7, <1>8, <1>9 DEF IInv

\* Every step keeps the invariant.
LEMMA Inductive == IInv /\ [Next]_vars => IInv'
<1>1. IInv /\ Next => IInv'
  BY StepTypes, StepWays, StepMachine, StepUnallocated, StepOwing, StepRequests, StepExiting,
     StepFlow
  DEF IInv
<1>2. ASSUME IInv, UNCHANGED vars PROVE IInv'
  <2> USE <1>2 DEF IInv, vars, coroutines, sessions, queues, machine, replies, world
  <2>1. TypeOK'
    BY DEF TypeOK
  <2>2. Ways' /\ Machine'
    BY DEF Ways, Machine
  <2>3. Unallocated'
    BY DEF Unallocated, Queued
  <2>4. Owing'
    <3> SUFFICES ASSUME NEW s \in Session PROVE OwingOf(s)'
      BY DEF Owing
    <3>1. OwingOf(s)
      BY DEF Owing
    <3>2. Queued(error_queue') = Queued(error_queue)
      BY DEF Queued
    <3> QED
      BY <3>1, <3>2 DEF OwingOf
  <2>5. Requests' /\ Exiting'
    BY DEF Requests, RequestOf, Holds, Settled, Live, Exiting
  <2>6. Flow'
    BY DEF Flow, Queued, Distinct
  <2> QED
    BY <2>1, <2>2, <2>3, <2>4, <2>5, <2>6
<1> QED
  BY <1>1, <1>2

\* The invariant holds in every reachable state of a service: dispatch_message,
\* suspend and the calls of skynet.lua keep it.
THEOREM Invariance == Spec => []IInv
<1>1. Init => IInv
  BY Initially
<1>2. IInv /\ [Next]_vars => IInv'
  BY Inductive
<1> QED
  BY <1>1, <1>2, PTL DEF Spec

\* A coroutine that waits is found under one session, and one that does not wait
\* under none: whichever of a response, an error or skynet.wakeup comes first
\* clears the way for the others.
THEOREM OneWayToResume == Spec => []OneWayBack
<1>1. IInv => OneWayBack
  BY InvOneWayBack DEF IInv
<1> QED
  BY <1>1, Invariance, PTL

\* No coroutine sleeps or calls in vain: the answer to its session is still to come,
\* or it is in error_queue.  And what is still to come finds the coroutine it is for,
\* or BREAK, unless skynet.term gave the call up.
THEOREM EveryWaitIsAnswered == Spec => []AnswerToCome
<1>1. IInv => AnswerToCome
  BY InvAnswerToCome DEF IInv
<1> QED
  BY <1>1, Invariance, PTL

\* Until skynet.exit a request has been answered once, by skynet.ret, the closure
\* of skynet.response, the error that suspend() sends or the refusal of its type,
\* or exactly one coroutine or closure has still to answer it.  It has neither only
\* if its coroutine returned without an answer, skynet.term dropped it, or its
\* sender is dead.
THEOREM NoSecondAnswer == Spec => []AnsweredOnce
<1>1. IInv => AnsweredOnce
  BY InvAnsweredOnce DEF IInv
<1> QED
  BY <1>1, Invariance, PTL

\* When a message has been handled nothing is left in wakeup_queue or error_queue,
\* also when an error has unwound the frames that would have emptied them: until
\* the exit, for programs that wake no token twice and do not use skynet.term.
THEOREM QueuesAreDrained == Spec => []Drained
<1>1. IInv => Drained
  BY InvDrained DEF IInv
<1> QED
  BY <1>1, Invariance, PTL

\* Where the worker delivers no message after skynet.exit, every caller that lives
\* has had an answer by the time the service is gone, unless its handler dropped it.
THEOREM ExitReportsToCallers == ASSUME ~Batch PROVE Spec => []CallersReported
<1>1. IInv => CallersReported
  BY InvCallersReported DEF IInv
<1> QED
  BY <1>1, Invariance, PTL
=============================================================================
