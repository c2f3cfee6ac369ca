---------------------------- MODULE HandleStorage ----------------------------
(***************************************************************************)
(* skynet-src/skynet_handle.c: the table from handles to contexts (a       *)
(* direct-mapped array that doubles when it is full), and the sorted array *)
(* of service names.  Every function is one critical section of the        *)
(* table's read-write lock and so one step, except that a context's own    *)
(* handle field is set by skynet_context_new after skynet_handle_register  *)
(* has unlocked, and that skynet_handle_retireall locks once per slot.     *)
(***************************************************************************)
EXTENDS Naturals, Sequences, FiniteSets, SequencesExt

CONSTANTS Ctx,                  \* context objects; memory is reused
          NULL,
          HANDLE_MASK,          \* 2^24 - 1 in the code
          DEFAULT_SLOT_SIZE,    \* 4 in the code, a power of two
          Name,                 \* service names, ordered as strcmp orders them
          MaxLaunching          \* launches that may overlap

ASSUME MaskAssumption == HANDLE_MASK \in Nat \ {0}
ASSUME SlotAssumption == DEFAULT_SLOT_SIZE \in 1 .. HANDLE_MASK + 1
ASSUME NullAssumption == NULL \notin Ctx
ASSUME NameAssumption == Name \subseteq Nat

VARIABLES slot_size, slot,      \* the table
          handle_index,         \* where the search for a free handle starts
          handle,               \* ctx->handle, 0 until it has been assigned
          given,                \* what skynet_handle_register returned, or 0
          name,                 \* the sorted array of [name, handle]
          sweep,                \* progress of skynet_handle_retireall
          pass,                 \* what was registered when its pass began
          failure               \* the first assertion that failed, or "none"
vars == <<slot_size, slot, handle_index, handle, given, name, sweep, pass, failure>>

Idle == [on |-> FALSE, i |-> 0, n |-> 0, handle |-> 0]

Init ==
    /\ slot_size = DEFAULT_SLOT_SIZE
    /\ slot = [i \in 0 .. DEFAULT_SLOT_SIZE - 1 |-> NULL]
    /\ handle_index = 1
    /\ handle = [c \in Ctx |-> 0]
    /\ given = [c \in Ctx |-> 0]
    /\ name = << >>
    /\ sweep = Idle
    /\ pass = {}
    /\ failure = "none"

Slots == 0 .. slot_size - 1

\* handle & (size - 1), for a size that is a power of two.
Hash(h, size) == h % size

\* The k-th handle that skynet_handle_register tries: from handle_index
\* upwards, from HANDLE_MASK on to 1 (0 is reserved).
Candidate(k) == ((handle_index + k - 1) % HANDLE_MASK) + 1

\* Mutant of FreeHandle: the search ends at HANDLE_MASK.
FreeHandle_NoWrap(table, size) ==
    LET free == {k \in 0 .. size - 1 : /\ handle_index + k <= HANDLE_MASK
                                       /\ table[Hash(Candidate(k), size)] = NULL}
    IN  IF free = {} THEN 0
        ELSE Candidate(CHOOSE k \in free : \A j \in free : k <= j)

\* The first candidate whose slot is free in a table, or 0.
FreeHandle(table, size) ==
    LET free == {k \in 0 .. size - 1 : table[Hash(Candidate(k), size)] = NULL}
    IN  IF free = {} THEN 0
        ELSE Candidate(CHOOSE k \in free : \A j \in free : k <= j)

\* Mutant of NewHash: contexts keep their slots when the table doubles.
NewHash_Old(i) == Hash(handle[slot[i]], slot_size)

\* The slot of the doubled table to which the expansion moves slot i: where
\* the context's own handle field says.
NewHash(i) == Hash(handle[slot[i]], 2 * slot_size)

Expanded == [j \in 0 .. 2 * slot_size - 1 |->
                IF \E i \in Slots : NewHash(i) = j
                THEN slot[CHOOSE i \in Slots : NewHash(i) = j]
                ELSE NULL]

\* A context that is neither in the table nor being launched.
Unused(c) == given[c] = 0 /\ \A i \in Slots : slot[i] # c

Launching == {c \in Ctx : given[c] # 0}

\* c goes to the slot of h in a table; skynet_handle_register unlocks and
\* returns h, which is not yet in ctx->handle (set to 0 before the call).
Occupy(table, size, h, c) ==
    /\ slot_size' = size
    /\ slot' = [table EXCEPT ![Hash(h, size)] = c]
    /\ handle_index' = h + 1
    /\ given' = [given EXCEPT ![c] = h]
    /\ handle' = [handle EXCEPT ![c] = 0]

\* The first assertion of the expansion that fails, in the code's order.  The
\* expansion does not look whether a slot is empty: skynet_context_handle(NULL).
ExpansionFailure ==
    IF 2 * slot_size - 1 > HANDLE_MASK THEN "out of handles"
    ELSE IF \E i \in Slots : slot[i] = NULL THEN "null slot"
    ELSE IF \E i, j \in Slots : i # j /\ NewHash(i) = NewHash(j) THEN "new_slot taken"
    ELSE "none"

\* skynet_handle_register: take the first free slot; when no candidate's slot
\* is free, double the table and try again.
Register(c) ==
    /\ Unused(c)
    /\ Cardinality(Launching) < MaxLaunching
    /\ LET h == FreeHandle(slot, slot_size)
           wider == 2 * slot_size
       IN  IF h # 0
           THEN Occupy(slot, slot_size, h, c) /\ UNCHANGED failure
           ELSE /\ failure' = ExpansionFailure
                /\ IF failure' = "none"
                   THEN Occupy(Expanded, wider, FreeHandle(Expanded, wider), c)
                   ELSE UNCHANGED <<slot_size, slot, handle_index, handle, given>>
    /\ UNCHANGED <<name, sweep, pass>>

\* skynet_context_new: ctx->handle = skynet_handle_register(ctx).
SetHandle(c) ==
    /\ given[c] # 0
    /\ handle' = [handle EXCEPT ![c] = given[c]]
    /\ given' = [given EXCEPT ![c] = 0]
    /\ UNCHANGED <<slot_size, slot, handle_index, name, sweep, pass, failure>>

\* skynet_handle_grab: the context that handle h leads to.
skynet_handle_grab(h) ==
    LET c == slot[Hash(h, slot_size)]
    IN  IF c = NULL THEN NULL ELSE IF handle[c] = h THEN c ELSE NULL

\* skynet_handle_retire(h): out of the table, and its names out of the array;
\* nothing if h leads to no context.
skynet_handle_retire(h) ==
    IF skynet_handle_grab(h) = NULL
    THEN UNCHANGED <<slot, name>>
    ELSE /\ slot' = [slot EXCEPT ![Hash(h, slot_size)] = NULL]
         /\ name' = SelectSeq(name, LAMBDA e : e.handle # h)

\* A service exits or is killed.
Retire(h) ==
    /\ skynet_handle_retire(h)
    /\ pass' = pass \ {h}
    /\ UNCHANGED <<slot_size, handle_index, handle, given, sweep, failure>>
-----------------------------------------------------------------------------
(* skynet_handle_retireall, one locked region per step *)

Table == <<slot_size, slot, handle_index, handle, given, name, failure>>

\* The handles that lead to a context.
Live == {h \in 1 .. HANDLE_MASK : skynet_handle_grab(h) # NULL}

StartSweep ==
    /\ ~sweep.on
    /\ sweep' = [Idle EXCEPT !.on = TRUE]
    /\ pass' = Live
    /\ UNCHANGED Table

\* The handle that the sweep reads in slot i, 0 for an empty slot.
HandleAt(i) == IF slot[i] = NULL THEN 0 ELSE handle[slot[i]]

SweepRead ==
    /\ sweep.on /\ sweep.handle = 0 /\ sweep.i < slot_size
    /\ sweep' = IF HandleAt(sweep.i) = 0
                THEN [sweep EXCEPT !.i = @ + 1]
                ELSE [sweep EXCEPT !.handle = HandleAt(sweep.i)]
    /\ UNCHANGED <<pass, Table>>

\* Retire what was read; it may have gone meanwhile and is then not counted.
SweepRetire ==
    /\ sweep.handle # 0
    /\ skynet_handle_retire(sweep.handle)
    /\ sweep' = [on |-> TRUE, i |-> sweep.i + 1, handle |-> 0,
                 n |-> IF slot' = slot THEN sweep.n ELSE sweep.n + 1]
    /\ pass' = pass \ {sweep.handle}
    /\ UNCHANGED <<slot_size, handle_index, handle, given, failure>>

\* Mutant of SweepEnd: a pass ends at the size the table had at first.
SweepEnd_OldSize ==
    /\ sweep.on /\ sweep.handle = 0 /\ sweep.i >= DEFAULT_SLOT_SIZE
    /\ IF sweep.n = 0
       THEN sweep' = Idle /\ pass' = {}
       ELSE sweep' = [Idle EXCEPT !.on = TRUE] /\ pass' = Live
    /\ UNCHANGED Table

\* The end of a pass: return if it retired nothing, else start over.
SweepEnd ==
    /\ sweep.on /\ sweep.handle = 0 /\ sweep.i >= slot_size
    /\ IF sweep.n = 0
       THEN sweep' = Idle /\ pass' = {}
       ELSE sweep' = [Idle EXCEPT !.on = TRUE] /\ pass' = Live
    /\ UNCHANGED Table
-----------------------------------------------------------------------------
(* Names *)

\* The binary search of skynet_handle_findname and _insert_name: the position
\* of the name (from 1), or the number of entries before its place.
BinarySearch(s) ==
    LET f[begin \in 0 .. Len(name), end \in 0 .. Len(name)] ==
            \* positions begin + 1 .. end are left to search
            IF begin >= end THEN [found |-> FALSE, at |-> begin]
            ELSE LET mid == (begin + end - 1) \div 2 + 1 IN
                 IF name[mid].name = s THEN [found |-> TRUE, at |-> mid]
                 ELSE IF name[mid].name < s THEN f[mid, end]
                 ELSE f[begin, mid - 1]
    IN  f[0, Len(name)]

skynet_handle_findname(s) ==
    LET r == BinarySearch(s) IN IF r.found THEN name[r.at].handle ELSE 0

\* skynet_handle_namehandle: a name that exists is refused.  Nothing checks
\* that the handle is registered: REG takes the caller's own, which another
\* thread may have retired during the call.
skynet_handle_namehandle(h, s) ==
    /\ ~BinarySearch(s).found
    /\ name' = InsertAt(name, BinarySearch(s).at + 1, [name |-> s, handle |-> h])
    /\ UNCHANGED <<slot_size, slot, handle_index, handle, given, sweep, pass, failure>>

\* Handles that some service was given.
Issued == {handle[c] : c \in Ctx} \ {0}

\* A failed assertion ends the process.
Next == /\ failure = "none"
        /\ \/ \E c \in Ctx : Register(c) \/ SetHandle(c)
           \/ \E h \in Issued : Retire(h)
           \/ StartSweep \/ SweepRead \/ SweepRetire \/ SweepEnd
           \/ \E h \in Issued, s \in Name : skynet_handle_namehandle(h, s)

Spec == Init /\ [][Next]_vars
-----------------------------------------------------------------------------
\* Type correctness of the table, the name array and the sweep.
TypeOK ==
    /\ slot_size \in Nat \ {0} /\ slot_size <= HANDLE_MASK + 1
    /\ slot \in [Slots -> Ctx \union {NULL}]
    /\ handle_index \in 1 .. HANDLE_MASK + 1
    /\ handle \in [Ctx -> 0 .. HANDLE_MASK]
    /\ given \in [Ctx -> 0 .. HANDLE_MASK]
    /\ name \in Seq([name : Name, handle : 1 .. HANDLE_MASK])
    /\ sweep \in [on : BOOLEAN, i : Nat, n : Nat, handle : 0 .. HANDLE_MASK]
    /\ pass \subseteq 1 .. HANDLE_MASK
    /\ failure \in {"none", "out of handles", "null slot", "new_slot taken"}

Lookup == [h \in Live |-> skynet_handle_grab(h)]
Names == LET found == {s \in Name : skynet_handle_findname(s) # 0}
         IN  [s \in found |-> skynet_handle_findname(s)]

Registry == INSTANCE ServiceRegistry WITH
                Handle <- 1 .. HANDLE_MASK, live <- Lookup, names <- Names

\* What skynet_handle_grab and skynet_handle_findname answer, through growth of
\* the table, reuse of handles after the wrap and shifts of the name array, is
\* what a plain map answers: no lookup is lost, none leads elsewhere, a handle
\* or a name in use is not given twice.
ImplementsRegistry == Registry!Spec

\* When skynet_handle_retireall returns, no context that was registered when
\* its last pass began is left, though the table may have grown, and contexts
\* come and gone, between the slots of the pass.
SweepComplete == [][sweep.on /\ ~sweep'.on => pass \intersect Live' = {}]_vars

\* skynet_handle_register fails (the assertion that the table may be doubled)
\* only when every handle but the reserved 0 is taken.
FailsOnlyWhenExhausted ==
    failure # "none" =>
        /\ failure = "out of handles"
        /\ Cardinality({i \in Slots : slot[i] # NULL}) = HANDLE_MASK

\* assert(new_slot[hash] == NULL): the expansion moves no two contexts to one
\* slot.
NewSlotFree == failure # "new_slot taken"

\* The expansion runs only when every slot holds a context.
ExpandsFullTable == failure # "null slot"
=============================================================================
