--------------------------- MODULE ServiceRegistry ---------------------------
(***************************************************************************)
(* What skynet_handle.c promises its callers: a partial function from      *)
(* handles to contexts in which a handle that is in use is never given to  *)
(* a second context, and a partial function from names to handles in which *)
(* a name that is bound is never bound again until its service is retired. *)
(***************************************************************************)
EXTENDS Functions

CONSTANTS Ctx, Handle, Name
VARIABLES live, names

Init == live = << >> /\ names = << >>

Register(h, c) ==
    /\ h \notin DOMAIN live /\ c \notin Range(live)
    /\ live' = [g \in DOMAIN live \union {h} |-> IF g = h THEN c ELSE live[g]]
    /\ UNCHANGED names

Retire(h) ==
    /\ h \in DOMAIN live
    /\ live' = Restrict(live, DOMAIN live \ {h})
    /\ names' = Restrict(names, {s \in DOMAIN names : names[s] # h})

Bind(s, h) ==
    /\ s \notin DOMAIN names
    /\ names' = [r \in DOMAIN names \union {s} |-> IF r = s THEN h ELSE names[r]]
    /\ UNCHANGED live

Next == \/ \E h \in Handle, c \in Ctx : Register(h, c)
        \/ \E h \in Handle : Retire(h)
        \/ \E s \in Name, h \in Handle : Bind(s, h)

Spec == Init /\ [][Next]_<<live, names>>
=============================================================================
