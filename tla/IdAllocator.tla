----------------------------- MODULE IdAllocator -----------------------------
(***************************************************************************)
(* What a user of SequenceProvider is promised: each completed call of     *)
(* next() hands out an id that no earlier call has handed out, whatever    *)
(* crashes and restarts happen in between, as long as the number in the    *)
(* file is not lost to an error of read() or write().                      *)
(***************************************************************************)
EXTENDS Integers

VARIABLES
    issued,   \* the ids handed out so far
    served,   \* how many calls of next() have returned an id
    damaged   \* the number in the file is lost

Init ==
    /\ issued = {}
    /\ served = 0
    /\ damaged = FALSE

\* One call of next() returns an id: one of the caller's own, unless the
\* number in the file is lost.
Issue ==
    \E id \in issued' :
        /\ id \in Int
        /\ id \in issued => damaged
        /\ issued' = issued \cup {id}
        /\ served' = served + 1
        /\ UNCHANGED damaged

\* The number in the file is lost, for good.
Lose ==
    /\ damaged' = TRUE
    /\ UNCHANGED <<issued, served>>

Next == Issue \/ Lose

Spec == Init /\ [][Next]_<<issued, served, damaged>>

==============================================================================
