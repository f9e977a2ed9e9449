----------------------------- MODULE MCServices -----------------------------
(* The supporting services on small instances. *)
EXTENDS Services
=============================================================================
