------------------------- MODULE ExperimentCompilers -------------------------
(***************************************************************************)
(* From an approved hunt item, or from a free proposal, to an experiment   *)
(* plan: zest/research/compiler_registry.py with the capability compiler,  *)
(* the mutation matrix and the protocol plan it binds.                     *)
(*                                                                         *)
(* A request is [family, fields, unit, hash, matrix, ...]: fields are the  *)
(* non-blank text arguments it carries, unit is the selected cell or step, *)
(* hash is the matrix the item was queued with.  A result is a plan        *)
(* [outcome |-> "COMPILED", cap, action, level] or a Blocked one.          *)
(***************************************************************************)
EXTENDS Integers, Sequences, FiniteSets

MUTATION_MATRIX_FAMILIES ==
    {"SQL_INJECTION", "SERVER_SIDE_TEMPLATE_INJECTION", "FILE_INCLUDE_AND_PATH_TRAVERSAL",
     "MASS_ASSIGNMENT", "JWT_CRYPTO_AND_CLAIM_CONFUSION", "CORS_CREDENTIAL_EXFILTRATION_CHAIN",
     "GRAPHQL_AUTHORIZATION_AND_INJECTION", "DOM_TAINT_AND_CLIENT_SIDE_EXECUTION",
     "AI_LLM_PROMPT_INJECTION_AND_TOOL_ABUSE"}

PROTOCOL_FAMILIES == {"HTTP_REQUEST_SMUGGLING_DESYNC", "HTTP_CACHE_POISONING_DECEPTION"}

UNIT_FAMILIES == MUTATION_MATRIX_FAMILIES \cup PROTOCOL_FAMILIES

PLANNING_ALIAS_CAPABILITIES ==
    {"http.authorization_differential", "http.state_transition_authorization",
     "mutation.matrix", "protocol.parser"}

----------------------------------------------------------------------------
(* The capability compiler *)

(* What the registry has of a worker capability: its actions with their level. *)
Actions(cap) ==
    CASE cap = "http.transaction" -> [read |-> 0, mutate |-> 1]
      [] cap \in {"http.authorization.differential", "http.raw_exchange"} -> [probe |-> 0]
      [] cap = "http.state_transition" -> [probe |-> 1]
      [] cap = "diagnostic.echo" -> [echo |-> 0]
      [] OTHER -> <<>>

_blocked(outcome) == [outcome |-> outcome, cap |-> "NONE", action |-> "NONE", level |-> 0]

_compiled(cap, action) ==
    [outcome |-> "COMPILED", cap |-> cap, action |-> action, level |-> Actions(cap)[action]]

(* The plan has the action's minimum level, whatever level was asked for. *)
compile_experiment_intent(cap, action, argsOk, asked) ==
    IF DOMAIN Actions(cap) = {} THEN _blocked("BLOCKED_UNSUPPORTED_CAPABILITY")
    ELSE IF \/ action \notin DOMAIN Actions(cap) \/ ~argsOk
            \/ asked # -1 /\ asked # Actions(cap)[action]
    THEN _blocked("BLOCKED_INVALID_INPUT")
    ELSE _compiled(cap, action)

----------------------------------------------------------------------------
(* The mutation matrix and the protocol plan *)

Product(values, from) ==
    LET f[i \in 1 .. Len(values) + 1] == IF i > Len(values) THEN 1 ELSE Len(values[i]) * f[i + 1]
    IN f[from]

(* The k-th combination, the last dimension varying fastest. *)
Combination(values, k) ==
    [i \in DOMAIN values |-> values[i][1 + ((k \div Product(values, i + 1)) % Len(values[i]))]]

(* The cells are numbered from 0, cut at max, and take the controls in turn. *)
build_mutation_matrix(values, controls, max) ==
    LET n == Product(values, 1) IN
    [k \in 0 .. (IF n < max THEN n ELSE max) - 1 |->
        [dims |-> Combination(values, k), control |-> controls[1 + (k % Len(controls))]]]

build_protocol_parser_plan(values, controls, max) == build_mutation_matrix(values, controls, max)

(* The method a cell is sent with is decided by one of its dimensions. *)
CellMethod(family, dims) ==
    LET d == {dims[i] : i \in DOMAIN dims} IN
    IF CASE family = "SQL_INJECTION"                   -> d \cap {"json_body", "form_body"} # {}
         [] family = "SERVER_SIDE_TEMPLATE_INJECTION"  -> "filter_boundary" \in d
         [] family = "FILE_INCLUDE_AND_PATH_TRAVERSAL" -> d \cap {"json_field", "multipart_name"} # {}
         [] family = "MASS_ASSIGNMENT"                 -> "write_attempt" \in d
         [] OTHER -> family \in {"GRAPHQL_AUTHORIZATION_AND_INJECTION",
                                 "AI_LLM_PROMPT_INJECTION_AND_TOOL_ABUSE"}
    THEN "POST" ELSE "GET"

bind_mutation_matrix_cell(family, cell) ==
    IF CellMethod(family, cell.dims) = "POST" THEN "mutate" ELSE "read"

(* The cell of the matrix the catalogue of families rebuilds: an id or a hash
   that is not its own is refused. *)
IsAuthoritativeCell(unit, hash, matrix) == hash = matrix /\ unit \in DOMAIN matrix

FRAMING_PROFILES ==
    {"http1_canonical", "http1_header_case_fold", "http1_absolute_uri", "http1_cl_te", "http1_te_cl",
     "http1_connection_reuse", "http2_preface", "h2c_upgrade", "http1_cache_host",
     "http1_cache_scheme", "http1_cache_path", "http1_cache_query", "http1_cache_header"}

_smuggling_profile(frontend, boundary, deceptive) ==
    CASE frontend = "http2"       -> "http2_preface"
      [] frontend = "h2c_upgrade" -> "h2c_upgrade"
      [] OTHER ->
         CASE boundary = "content_length_transfer_encoding" ->
                  IF deceptive THEN "http1_te_cl" ELSE "http1_cl_te"
           [] boundary = "connection_reuse" -> "http1_connection_reuse"
           [] boundary = "header_case_fold" -> "http1_header_case_fold"
           [] boundary = "absolute_uri"     -> "http1_absolute_uri"
           [] OTHER                         -> "UNKNOWN"

_cache_profile(key) ==
    CASE key = "host" -> "http1_cache_host" [] key = "scheme" -> "http1_cache_scheme"
      [] key = "path" -> "http1_cache_path" [] key = "query" -> "http1_cache_query"
      [] key = "header" -> "http1_cache_header" [] OTHER -> "UNKNOWN"

(* A smuggling step has the dimensions frontend, backend and boundary, a cache
   step key, behaviour and proxy. *)
bind_protocol_step(family, step) ==
    IF family = "HTTP_REQUEST_SMUGGLING_DESYNC"
    THEN _smuggling_profile(step.dims[1], step.dims[3], step.control = "deceptive")
    ELSE _cache_profile(step.dims[1])

----------------------------------------------------------------------------
(* The compilers *)

Origin == {"authorized_origin", "origin"}

AuthorizationDifferentialCompiler(r) ==
    IF r.fields \cap Origin = {} \/ ~({"actor", "own_object", "cross_object"} \subseteq r.fields)
    THEN _blocked("BLOCKED_MISSING_SEMANTICS")
    ELSE compile_experiment_intent("http.authorization.differential", "probe", r.argsOk, -1)

StateTransitionCompiler(r) ==
    IF r.fields \cap Origin = {} \/ ~({"actor", "resource_id", "transition"} \subseteq r.fields)
    THEN _blocked("BLOCKED_MISSING_SEMANTICS")
    ELSE compile_experiment_intent("http.state_transition", "probe", r.argsOk, -1)

(* unit -1: none was selected. *)
MutationMatrixCellCompiler(r) ==
    IF r.unit = -1 THEN _blocked("BLOCKED_MISSING_SEMANTICS")
    ELSE IF ~IsAuthoritativeCell(r.unit, r.hash, r.matrix) THEN _blocked("BLOCKED_UNKNOWN_CELL")
    ELSE IF r.fields \cap Origin = {} THEN _blocked("BLOCKED_MISSING_SEMANTICS")
    ELSE compile_experiment_intent("http.transaction",
             bind_mutation_matrix_cell(r.family, r.matrix[r.unit]), r.argsOk, -1)

(* The dimensions of a step are those the item was queued with: one it does
   not have brings none. *)
ProtocolStepCompiler(r) ==
    IF r.unit = -1 \/ r.unit \notin DOMAIN r.hash \/ r.fields \cap Origin = {}
         \/ bind_protocol_step(r.family, r.hash[r.unit]) \notin FRAMING_PROFILES
    THEN _blocked("BLOCKED_MISSING_SEMANTICS")
    ELSE compile_experiment_intent("http.raw_exchange", "probe", r.argsOk, -1)

MutationVariantCompiler(r) ==
    IF r.cap # "http.transaction" \/ r.action = "NONE"
    THEN _blocked("BLOCKED_UNSUPPORTED_CAPABILITY")
    ELSE compile_experiment_intent(r.cap, r.action, r.argsOk, -1)

(* Without an action the capability must have exactly one. *)
GenericPlannerCompiler(r) ==
    LET acts == DOMAIN Actions(r.cap) IN
    IF r.cap \in PLANNING_ALIAS_CAPABILITIES THEN _blocked("BLOCKED_UNSUPPORTED_CAPABILITY")
    ELSE IF r.cap = "NONE" THEN _blocked("BLOCKED_MISSING_SEMANTICS")
    ELSE IF acts = {} THEN _blocked("BLOCKED_UNSUPPORTED_CAPABILITY")
    ELSE IF r.action = "NONE" /\ Cardinality(acts) # 1 THEN _blocked("BLOCKED_MISSING_SEMANTICS")
    ELSE IF ~({"expected_observation", "disconfirming_observation"} \subseteq r.fields)
    THEN _blocked("BLOCKED_MISSING_SEMANTICS")
    ELSE compile_experiment_intent(r.cap,
             IF r.action = "NONE" THEN CHOOSE a \in acts : TRUE ELSE r.action, r.argsOk, -1)

(* An admitted hypothesis: its capability has one action and the message is
   the only argument the planner can give. *)
plan_admitted_hypothesis(r) ==
    IF r.cap \in PLANNING_ALIAS_CAPABILITIES THEN _blocked("BLOCKED_UNSUPPORTED_CAPABILITY")
    ELSE IF Cardinality(DOMAIN Actions(r.cap)) # 1 THEN _blocked("BLOCKED_INVALID_INPUT")
    ELSE compile_experiment_intent(r.cap, CHOOSE a \in DOMAIN Actions(r.cap) : TRUE,
                                   r.cap = "diagnostic.echo", -1)

ExperimentCompilerRegistry(r) ==
    CASE r.family = "OBJECT_AUTHORIZATION"      -> AuthorizationDifferentialCompiler(r)
      [] r.family = "WORKFLOW_STATE_TRANSITION" -> StateTransitionCompiler(r)
      [] r.family \in MUTATION_MATRIX_FAMILIES  -> MutationMatrixCellCompiler(r)
      [] r.family \in PROTOCOL_FAMILIES         -> ProtocolStepCompiler(r)
      [] OTHER -> IF r.rule THEN MutationVariantCompiler(r)
                  ELSE IF r.proposal /\ r.cap \notin PLANNING_ALIAS_CAPABILITIES
                  THEN plan_admitted_hypothesis(r) ELSE GenericPlannerCompiler(r)
=============================================================================
