------------------------- MODULE HypothesisAdmission -------------------------
(***************************************************************************)
(* What becomes a hypothesis: how the model's answers are parsed, what     *)
(* admit_hypothesis asks of a proposal and of the challenge to it, and how *)
(* an identity anomaly that no HunterFamily claims is classified, becomes  *)
(* a candidate and is admitted without the model.                          *)
(***************************************************************************)

(***************************************************************************)
(* What ResearchContextBuilder.build makes of a source reference: an item  *)
(* of the context, an UNTRUSTED_EXTERNAL item of it, or nothing: invented, *)
(* or omitted by the context's budget.                                     *)
(***************************************************************************)
Ref == {"seen", "external", "omitted"}

(* The parts of an answer that are not empty. *)
ProposalPart  == {"claim", "rationale", "test", "capability"}
ChallengePart == {"observation", "alternative"}

(* What the model may answer.  authority: it has a key that claims evidence, a
   finding or permission; malformed: it has an unknown key or a value of
   another type; policy: its claim or rationale has one of the markers. *)
GeneratorAnswer ==
    [authority : BOOLEAN, malformed : BOOLEAN, parts : SUBSET ProposalPart,
     policy : BOOLEAN, refs : SUBSET Ref]

FalsifierAnswer ==
    [authority : BOOLEAN, malformed : BOOLEAN, parts : SUBSET ChallengePart]

parse_hypothesis_proposal(a) ==
    IF a.authority THEN "REJECTED_POLICY_CONFLICT"
    ELSE IF a.malformed \/ a.parts # ProposalPart THEN "REJECTED_UNTESTABLE" ELSE "PARSED"

(* A challenge may lack its alternatives; admission looks at them. *)
parse_hypothesis_challenge(a) ==
    IF a.authority THEN "REJECTED_POLICY_CONFLICT"
    ELSE IF a.malformed \/ "observation" \notin a.parts THEN "REJECTED_UNTESTABLE"
    ELSE "PARSED"

(* Both callers have a proposal p and a challenge c. *)
admit_hypothesis(p, c) ==
    IF "claim" \notin p.parts THEN "REJECTED_UNTESTABLE"
    ELSE IF p.policy THEN "REJECTED_POLICY_CONFLICT"
    ELSE IF p.refs = {} THEN "REJECTED_UNSUPPORTED"
    ELSE IF "omitted" \in p.refs THEN "NEEDS_MORE_CONTEXT"
    ELSE IF "seen" \notin p.refs THEN "REJECTED_UNSUPPORTED"
    ELSE IF ~({"test", "capability"} \subseteq p.parts) \/ c.parts # ChallengePart
         THEN "REJECTED_UNTESTABLE"
    ELSE "ADMITTED"

(* What comes of the two answers: the first refusal on the way, or admission. *)
OutcomeOf(p, c) ==
    IF parse_hypothesis_proposal(p) # "PARSED" THEN parse_hypothesis_proposal(p)
    ELSE IF parse_hypothesis_challenge(c) # "PARSED" THEN parse_hypothesis_challenge(c)
    ELSE admit_hypothesis(p, c)

----------------------------------------------------------------------------
(* Identity anomalies *)

(***************************************************************************)
(* A durable source: a differential, or an observation.  run: the run it   *)
(* belongs to, "none" if there is no such row or no result of it; about:   *)
(* the runs of the observations a differential names (_resolve_            *)
(* observations); identity: it is about an actor, role or session;         *)
(* divergent: the difference is a controlled one, or access was granted;   *)
(* complete: origin, actor and both objects are recorded; compiles: the    *)
(* compiler takes these arguments.                                         *)
(***************************************************************************)
RunOf == {"own", "other", "none"}

Source ==
    [kind : {"DIFFERENTIAL", "OBSERVATION"}, run : RunOf, about : SUBSET RunOf,
     identity : BOOLEAN, divergent : BOOLEAN, complete : BOOLEAN, compiles : BOOLEAN]

(* owned: an enabled family claims a node of the surface graph. *)
Anomaly(s, owned) ==
    IF ~s.identity THEN "REJECT_NOT_IDENTITY"
    ELSE IF ~s.divergent THEN "REJECT_NO_ANOMALY"
    ELSE IF owned THEN "KNOWN_FAMILY" ELSE "REGISTRY_EXTERNAL"

classify_identity_differential(s, owned) ==
    IF s.run # "own" THEN "REJECT_CROSS_RUN"
    ELSE IF "none" \in s.about THEN "REJECT_UNRESOLVED_SOURCE"
    ELSE IF "other" \in s.about THEN "REJECT_CROSS_RUN"
    ELSE Anomaly(s, owned)

classify_http_authorization_observation(s, owned) ==
    IF s.run = "none" THEN "REJECT_UNRESOLVED_SOURCE"
    ELSE IF s.run # "own" THEN "REJECT_CROSS_RUN"
    ELSE Anomaly(s, owned)

load_identity_anomaly_context(s, owned) ==
    IF s.kind = "DIFFERENTIAL" THEN classify_identity_differential(s, owned)
    ELSE classify_http_authorization_observation(s, owned)

(* _record_context: such a source becomes a PENDING candidate. *)
IsCandidate(s, owned) ==
    load_identity_anomaly_context(s, owned) = "REGISTRY_EXTERNAL" /\ s.complete

(* The proposal and the challenge are fixed texts about the source, which is
   in the context: a differential always, an observation as its only one. *)
identity_anomaly_proposal ==
    [authority |-> FALSE, malformed |-> FALSE, parts |-> ProposalPart, policy |-> FALSE,
     refs |-> {"seen"}]

identity_anomaly_challenge ==
    [authority |-> FALSE, malformed |-> FALSE, parts |-> ChallengePart]

compile_identity_anomaly_experiment(s) == s.complete /\ s.compiles

(* _admit_registry_external: the source is classified again. *)
_admit_registry_external(s, owned) ==
    LET admission == admit_hypothesis(identity_anomaly_proposal, identity_anomaly_challenge)
    IN IF load_identity_anomaly_context(s, owned) # "REGISTRY_EXTERNAL"
       THEN "REJECTED_UNSUPPORTED"
       ELSE IF admission # "ADMITTED" THEN admission
       ELSE IF ~compile_identity_anomaly_experiment(s) THEN "REJECTED_UNTESTABLE"
       ELSE "ADMITTED"
=============================================================================
