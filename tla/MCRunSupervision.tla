------------------------- MODULE MCRunSupervision -------------------------
(* RunSupervision on small instances for TLC. *)
EXTENDS RunSupervision, TLC

Symmetry == Permutations(Runtime) \cup Permutations(Experiment)
            \cup Permutations(Attempt)
=============================================================================
