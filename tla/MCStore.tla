------------------------------ MODULE MCStore ------------------------------
(* The durable store has no parameters: one row, every table, every        *)
(* revision.                                                               *)
EXTENDS DurableStore
=============================================================================
