----------------------------- MODULE ResumeLog -----------------------------
(***************************************************************************)
(* What the persistence pipeline promises: a log that indexing can resume  *)
(* from.  The cursor names the last stored height; the fate of every       *)
(* height up to the cursor, stored or given up, is decided in the step     *)
(* that moves the cursor past it and never changes again.  Crashes are     *)
(* invisible.                                                              *)
(***************************************************************************)
EXTENDS Integers

CONSTANT MaxHeight   \* bound: the last height

VARIABLES
    cursor,     \* resume behind this height; 0 when nothing is stored
    stored      \* the stored heights

vars == <<cursor, stored>>

Init == cursor = 0 /\ stored = {}

\* Decide the heights up to c: c itself is stored, each one before it is stored or
\* given up.
Advance(c) ==
    /\ c > cursor
    /\ cursor' = c
    /\ \E S \in SUBSET ((cursor + 1)..(c - 1)) : stored' = stored \cup S \cup {c}

Next == \E c \in 1..MaxHeight : Advance(c)

Spec == Init /\ [][Next]_vars

=============================================================================
