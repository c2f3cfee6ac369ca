--------------------------- MODULE MCHandleStorage ---------------------------
(* HandleStorage for TLC. *)
EXTENDS HandleStorage, TLC

CONSTANTS FullOnly,             \* leave out the expansion of a table that is not full
          MaxNames              \* names bound at once; none while retireall runs

Bound == /\ FullOnly => failure' # "null slot"
         /\ Len(name') <= IF sweep'.on THEN 0 ELSE MaxNames

MCSpec == Init /\ [][Next /\ Bound]_vars

Symmetry == Permutations(Ctx)
=============================================================================
