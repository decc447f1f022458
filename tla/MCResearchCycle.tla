-------------------------- MODULE MCResearchCycle --------------------------
(* ResearchCycle on small instances for TLC. *)
EXTENDS ResearchCycle
=============================================================================
