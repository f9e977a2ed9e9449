---------------------------- MODULE MCTailFollow ----------------------------
(* Model-checking instances of TailFollow: the .cfg files give the constants. *)
EXTENDS TailFollow
=============================================================================
