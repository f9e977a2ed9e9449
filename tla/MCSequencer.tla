---------------------------- MODULE MCSequencer ----------------------------
(* Model-checking instances of Sequencer: the .cfg files give the constants. *)
EXTENDS Sequencer
=============================================================================
