------------------------------ MODULE HandOver ------------------------------
(***************************************************************************)
(* What the sequencer promises the processor: the heights of the chain are *)
(* decided in order and once.  Each is given to the processor or passed    *)
(* over, in the step that moves the cursor past it, and what was decided   *)
(* never changes.  Reordering, losses, panics and restarts are invisible.  *)
(***************************************************************************)
EXTENDS Integers

CONSTANTS First, Last    \* the first height, and the last (bound)

VARIABLES
    cursor,     \* the next height to decide
    given,      \* the heights given to the processor
    passed      \* the heights passed over

vars == <<cursor, given, passed>>

Init == cursor = First /\ given = {} /\ passed = {}

\* Decide the heights up to c - 1, each in one of the two ways.
Advance(c) ==
    /\ c > cursor
    /\ cursor' = c
    /\ \E G \in SUBSET (cursor..(c - 1)) :
         /\ given' = given \cup G
         /\ passed' = passed \cup ((cursor..(c - 1)) \ G)

Next == \E c \in First..(Last + 1) : Advance(c)

Spec == Init /\ [][Next]_vars

=============================================================================
