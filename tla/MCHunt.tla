------------------------------- MODULE MCHunt -------------------------------
EXTENDS HuntQueue

(* A page of the shop with two users, a form behind a shared cache, and a page
   nobody placed in scope. *)
Node(key, scope, ids, method, signals) ==
    [key |-> key, kind |-> "HTTP_OPERATION", scope |-> scope, ids |-> ids, attrs |-> {method},
     fields |-> {"origin", "path"}, signals |-> signals]

MCGraph ==
    [nodes |-> {Node(1, "IN_SCOPE", {1, 2}, "GET", {}),
                Node(2, "UNKNOWN", {}, "PUT", {}),
                Node(3, "IN_SCOPE", {}, "POST", {"shared_cache"})},
     edges |-> {[from |-> 1, to |-> 3, kind |-> "LINKS"]}]

Matrix2 == build_mutation_matrix(<<<<"query", "json_body">>, <<"raw">>>>, <<"secure", "deceptive">>, 2)
Other2  == build_mutation_matrix(<<<<"query", "json_body">>, <<"url">>>>, <<"secure">>, 2)
Steps2  == build_protocol_parser_plan(<<<<"host", "port">>, <<"store">>, <<"cdn">>>>, <<"secure">>, 2)

F(id, name, tier, methods, required, edge, plan) ==
    [id |-> id, name |-> name, tier |-> tier, enabled |-> TRUE, kinds |-> {"HTTP_OPERATION"},
     scope |-> "NONE", absent |-> "OWNS", required |-> required, attrs |-> {methods},
     facts |-> {"HTTP_OPERATION"}, edge |-> edge, plan |-> plan, signals |-> {"shared_cache"}]

Objects  == F(1, "OBJECT_AUTHORIZATION", "V3", {"GET", "POST"}, "LINKS", "NONE", <<>>)
Sql      == F(2, "SQL_INJECTION", "V3", {"GET"}, "NONE", "LINKS", Matrix2)
Stale    == F(2, "SQL_INJECTION", "V3", {"GET"}, "NONE", "NONE", Other2)
Cache    == F(3, "HTTP_CACHE_POISONING_DECEPTION", "V3", {"POST"}, "NONE", "NONE", Steps2)
Blind    == F(3, "HTTP_CACHE_POISONING_DECEPTION", "V3", {"GET"}, "NONE", "NONE", Steps2)
Headers  == F(4, "SECURITY_HEADERS", "V2", {"GET"}, "NONE", "OWNS", <<>>)
Unmapped == F(5, "RACE_CONDITION", "V3", {"GET"}, "NONE", "NONE", <<>>)
Workflow == F(6, "WORKFLOW_STATE_TRANSITION", "V3", {"GET"}, "NONE", "OWNS", <<>>)
Unscoped == F(7, "MASS_ASSIGNMENT", "V3", {"PUT"}, "NONE", "NONE", Matrix2)

MCRegistries ==
    {{Objects}, {Sql}, {Stale}, {Cache, Headers}, {Blind, Unmapped}, {Workflow}, {Unscoped}}

MCReporting == {{Stale}, {Cache, Headers}, {Blind, Unmapped}}

MCCatalog ==
    [n \in {"OBJECT_AUTHORIZATION", "WORKFLOW_STATE_TRANSITION", "HTTP_CACHE_POISONING_DECEPTION",
            "SQL_INJECTION", "SECURITY_HEADERS", "RACE_CONDITION", "MASS_ASSIGNMENT"} |->
        IF n \in MUTATION_MATRIX_FAMILIES THEN Matrix2 ELSE <<>>]

MCAge == <<2, 30, 30>>

View(scope) ==
    [capability |-> "ALLOWED", source |-> "ALLOWED", scope |-> [decision |-> scope], budget |-> "ALLOWED",
     level |-> 0, approval |-> Core!NoApproval, subject |-> "target"]

MCViews == {View("ALLOW"), View("DENY"), View("REVIEW")}

Twins == Permutations(Dispatcher) \cup Permutations(Approver)

MCUnit == {-1, 0}
MCStatuses ==
    {"OBSERVATION_PRODUCED", "NO_OBSERVATION", "INVOCATION_FAILED", "UNKNOWN_OUTCOME", "INPUT_REJECTED", "DISPATCH_DENIED",
     "HUMAN_REVIEW_REQUIRED"}
MCExtra == {{}, {"actor", "own_object", "cross_object"}}
=============================================================================
