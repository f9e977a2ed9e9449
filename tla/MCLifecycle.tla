----------------------------- MODULE MCLifecycle ----------------------------
(* Model-checking instances of Lifecycle: two ranges, and a block whose three
   logs exceed a throughput limit of two. *)
EXTENDS Lifecycle

MCRanges == <<<<1, 2>>, <<3, 4>>>>
MCLogCount == [h \in 1..4 |-> CASE h = 2 -> 1 [] h = 3 -> 3 [] OTHER -> 0]
=============================================================================
