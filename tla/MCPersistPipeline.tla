------------------------- MODULE MCPersistPipeline -------------------------
(* Model-checking instances of PersistPipeline: the .cfg files give the constants. *)
EXTENDS PersistPipeline
=============================================================================
