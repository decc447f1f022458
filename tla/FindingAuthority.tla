--------------------------- MODULE FindingAuthority ---------------------------
(***************************************************************************)
(* What the promotion of one assessed claim promises, whoever carries it   *)
(* out and however often it is repeated: the claim goes one way through    *)
(* its phases; it is validated only by a reproduction other than the       *)
(* original; and it becomes a finding only after a human approved it.      *)
(***************************************************************************)
CONSTANT Reproduction  \* ids of reproduction experiments

VARIABLES phase,    \* how far the claim has come
          proof,    \* the reproductions that support the verdict
          verdict   \* what the human decided

vars == <<phase, proof, verdict>>

Phase == {"CLAIMED", "EVIDENCE", "CANDIDATE", "VERIFYING", "VALIDATED", "CLOSED",
          "PROPOSED", "REVIEW", "FINDING", "REFUSED"}

Init == phase = "CLAIMED" /\ proof = {} /\ verdict = "NONE"

(* A step that only moves the claim on. *)
Move(from, to) == phase = from /\ phase' = to /\ UNCHANGED <<proof, verdict>>

Advance == \/ Move("CLAIMED", "EVIDENCE")  \/ Move("EVIDENCE", "CANDIDATE")
           \/ Move("CANDIDATE", "VERIFYING") \/ Move("VERIFYING", "CLOSED")
           \/ Move("VALIDATED", "PROPOSED")  \/ Move("PROPOSED", "REVIEW")

(* The claim is validated by a reproduction. *)
Validate ==
    /\ phase = "VERIFYING" /\ phase' = "VALIDATED"
    /\ \E r \in Reproduction : proof' = {r}
    /\ UNCHANGED verdict

(* The human decides, once. *)
Decide ==
    /\ phase = "REVIEW" /\ verdict = "NONE"
    /\ verdict' \in {"APPROVE", "REJECT"}
    /\ UNCHANGED <<phase, proof>>

(* The decision is carried out. *)
Conclude ==
    /\ phase = "REVIEW"
    /\ \/ verdict = "APPROVE" /\ phase' = "FINDING"
       \/ verdict = "REJECT" /\ phase' = "REFUSED"
    /\ UNCHANGED <<proof, verdict>>

Next == Advance \/ Validate \/ Decide \/ Conclude

Spec == Init /\ [][Next]_vars
=============================================================================
