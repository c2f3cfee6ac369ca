-------------------------------- MODULE Timer --------------------------------
(***************************************************************************)
(* skynet-src/skynet_timer.c: the timing wheel.  near holds the timers of  *)
(* the current block of TIME_NEAR ticks, t[0] .. t[3] those further away,  *)
(* each level in units of the whole level below; a level's list moves down *)
(* when its block begins.  Together the fields of an expiry time fill the  *)
(* word (8 + 4 * 6 = 32 bits), so time wraps where the last level does.    *)
(*                                                                         *)
(* Services add timers at any time the spinlock is free; the timer thread  *)
(* releases it while it sends the messages of the timers it has collected. *)
(***************************************************************************)
EXTENDS Naturals, Sequences, SequencesExt

CONSTANTS Id,                   \* timers (handle and session)
          TIME_NEAR,            \* 2^8 in the code
          TIME_LEVEL,           \* 2^6 in the code
          MaxTimeout,           \* an int: up to half the word
          MaxDiff               \* ticks that one skynet_updatetime may catch up

ASSUME WheelAssumption == TIME_NEAR \in Nat \ {0} /\ TIME_LEVEL \in Nat \ {0, 1}
ASSUME TimeoutAssumption == MaxTimeout \in Nat /\ MaxDiff \in Nat

Level == 0 .. 3
Word == TIME_NEAR * TIME_LEVEL^4

VARIABLES time,                 \* T->time
          near, t,              \* the wheel: lists of [id, expire]
          current,              \* TI->current (its low word)
          behind,               \* ticks that skynet_updatetime still has to do
          phase,                \* where timer_update is
          batch,                \* timers taken from the wheel, to be sent
          pending               \* history: timers in the order they were
                                \* added, with the ticks left to each (0
                                \* also for one that is overdue)
tmvars == <<time, near, t, current, behind, phase, batch, pending>>

TMInit ==
    /\ time = 0 /\ current = 0 /\ behind = 0
    /\ near = [i \in 0 .. TIME_NEAR - 1 |-> << >>]
    /\ t = [i \in Level |-> [j \in 0 .. TIME_LEVEL - 1 |-> << >>]]
    /\ phase = "idle"
    /\ batch = << >>
    /\ pending = << >>
-----------------------------------------------------------------------------
\* The ticks in one slot of level i; Unit(i + 1) is also the block that the
\* mask of the i-th comparison in add_node covers.
Unit(i) == TIME_NEAR * TIME_LEVEL^i

\* x and y differ only in the bits of a block: (x|(b-1)) == (y|(b-1)).
SameBlock(x, y, b) == x \div b = y \div b

\* The level that add_node chooses for a timer outside the current near block.
LevelOf(expire, now) ==
    LET fits == {i \in 0 .. 2 : SameBlock(expire, now, Unit(i + 1))}
    IN  IF fits = {} THEN 3 ELSE CHOOSE i \in fits : \A j \in fits : i <= j

Slot(x, i) == (x \div Unit(i)) % TIME_LEVEL

\* add_node on a wheel w = [near, t] at time now.
add_node(w, node, now) ==
    IF SameBlock(node.expire, now, TIME_NEAR)
    THEN [w EXCEPT !.near[node.expire % TIME_NEAR] = Append(@, node)]
    ELSE LET i == LevelOf(node.expire, now)
         IN  [w EXCEPT !.t[i][Slot(node.expire, i)] = Append(@, node)]

\* Mutant of move_list: the list is turned round.
move_list_Reversed(w, level, idx, now) ==
    FoldLeft(LAMBDA v, node : add_node(v, node, now),
             [w EXCEPT !.t[level][idx] = << >>],
             Reverse(w.t[level][idx]))

\* move_list: empty a slot and add its timers again, in order.
move_list(w, level, idx, now) ==
    FoldLeft(LAMBDA v, node : add_node(v, node, now),
             [w EXCEPT !.t[level][idx] = << >>],
             w.t[level][idx])

\* Mutant of Shifted: the wrap of time is not handled.
Shifted_NoWrap(w, ct) ==
    LET begins == {i \in Level : ct % Unit(i) = 0 /\ Slot(ct, i) # 0}
    IN  IF begins = {} THEN w
        ELSE LET i == CHOOSE i \in begins : TRUE
             IN  move_list(w, i, Slot(ct, i), ct)

\* timer_shift, when time becomes ct: move down the list of the one level at
\* which a new slot, other than the first, begins; none inside a near block.
Shifted(w, ct) ==
    LET begins == {i \in Level : ct % Unit(i) = 0 /\ Slot(ct, i) # 0}
    IN  IF ct = 0 THEN move_list(w, 3, 0, ct)
        ELSE IF begins = {} THEN w
        ELSE LET i == CHOOSE i \in begins : TRUE
             IN  move_list(w, i, Slot(ct, i), ct)

Wheel == [near |-> near, t |-> t]
-----------------------------------------------------------------------------
\* skynet_timeout with time > 0, and timer_add.  (With time <= 0 the message
\* is pushed at once and the wheel is not involved.)
skynet_timeout(id, ticks) ==
    /\ \A k \in 1 .. Len(pending) : pending[k].id # id
    /\ LET node == [id |-> id, expire |-> (time + ticks) % Word]
           w == add_node(Wheel, node, time)
       IN  near' = w.near /\ t' = w.t
    /\ pending' = Append(pending, [id |-> id, left |-> ticks])
    /\ UNCHANGED <<time, current, behind, phase, batch>>

\* skynet_updatetime finds the clock diff ticks further.
skynet_updatetime(diff) ==
    /\ phase = "idle"
    /\ current' = (current + diff) % Word
    /\ behind' = diff
    /\ phase' = "before shift"
    /\ UNCHANGED <<time, near, t, batch, pending>>

\* One turn of timer_execute's loop: take the list of the current tick and
\* unlock to send it.
Collect ==
    /\ phase # "idle" /\ batch = << >>
    /\ near[time % TIME_NEAR] # << >>
    /\ batch' = near[time % TIME_NEAR]
    /\ near' = [near EXCEPT ![time % TIME_NEAR] = << >>]
    /\ UNCHANGED <<time, t, current, behind, phase, pending>>

\* dispatch_list sends the message of one timer.
Dispatch ==
    /\ batch # << >>
    /\ batch' = Tail(batch)
    /\ pending' = SelectSeq(pending, LAMBDA p : p.id # Head(batch).id)
    /\ UNCHANGED <<time, near, t, current, behind, phase>>

\* timer_execute finds nothing more for the current tick.
Executed == phase # "idle" /\ batch = << >> /\ near[time % TIME_NEAR] = << >>

\* timer_update between its two calls of timer_execute.
timer_shift ==
    LET ct == (time + 1) % Word
        w == Shifted(Wheel, ct)
    IN  /\ Executed /\ phase = "before shift"
        /\ time' = ct
        /\ near' = w.near /\ t' = w.t
        /\ phase' = "after shift"
        /\ pending' = [k \in DOMAIN pending |->
                          [pending[k] EXCEPT !.left = IF @ > 0 THEN @ - 1 ELSE 0]]
        /\ UNCHANGED <<current, behind, batch>>

\* The end of timer_update, and of skynet_updatetime after the last tick.
Updated ==
    /\ Executed /\ phase = "after shift"
    /\ behind' = behind - 1
    /\ phase' = IF behind' = 0 THEN "idle" ELSE "before shift"
    /\ UNCHANGED <<time, near, t, current, batch, pending>>

TMThread == \/ \E diff \in 1 .. MaxDiff : skynet_updatetime(diff)
               \/ Collect \/ Dispatch \/ timer_shift \/ Updated

TMNext == \/ \E id \in Id, ticks \in 1 .. MaxTimeout : skynet_timeout(id, ticks)
        \/ TMThread

TMSpec == TMInit /\ [][TMNext]_tmvars /\ WF_tmvars(TMThread)
-----------------------------------------------------------------------------
Node == [id : Id, expire : 0 .. Word - 1]

\* Type correctness of the wheel and of the timer thread.
TMTypeOK ==
    /\ time \in 0 .. Word - 1 /\ current \in 0 .. Word - 1
    /\ near \in [0 .. TIME_NEAR - 1 -> Seq(Node)]
    /\ t \in [Level -> [0 .. TIME_LEVEL - 1 -> Seq(Node)]]
    /\ behind \in 0 .. MaxDiff
    /\ phase \in {"idle", "before shift", "after shift"}
    /\ batch \in Seq(Node)
    /\ pending \in Seq([id : Id, left : Nat])

Due == SelectSeq(pending, LAMBDA p : p.left = 0)
Ids(s) == [k \in DOMAIN s |-> s[k].id]

\* A timer is sent on the tick at which its time is up and on no other: none
\* is overdue when a tick is over, and what the timer thread has collected is
\* due now, through every move between levels and the wrap of time.
FiresOnTime ==
    /\ phase \in {"idle", "before shift"} => Due = << >>
    /\ \A k \in DOMAIN batch : \E j \in DOMAIN Due : Due[j].id = batch[k].id

\* Timers of one tick are sent in the order in which they were added, however
\* far ahead each was added and whichever level it started on.
FiresInOrder == batch # << >> => Ids(batch) = Ids(Due)

\* skynet_now, which jumps ahead before the ticks are done, and the wheel agree
\* again, to the tick, when skynet_updatetime returns.
ClockAgrees ==
    current = (time + behind - (IF phase = "after shift" THEN 1 ELSE 0)) % Word

\* A timer is sent at its tick, and the clock that services read then is the
\* wheel's.
OnTime == FiresOnTime /\ ClockAgrees

\* Every timer is sent.
EventuallyFires ==
    \A id \in Id : []<>~(\E k \in DOMAIN pending : pending[k].id = id)
=============================================================================
