------------------------------ MODULE ScopeRules ------------------------------
(***************************************************************************)
(* Scope: how a target is normalized, matched against the compiled rules   *)
(* of a program, and projected to the envelope that the worker enforces.   *)
(* A host is the sequence of its labels, and a path a sequence of lexemes  *)
(* ("/" or a piece of a segment), so that the string prefix and the prefix *)
(* of whole segments differ as they do in the code.                        *)
(***************************************************************************)
EXTENDS Sequences, Integers

StartsWith(s, p) == Len(p) <= Len(s) /\ SubSeq(s, 1, Len(p)) = p

EndsWith(s, p) == Len(p) <= Len(s) /\ SubSeq(s, Len(s) - Len(p) + 1, Len(s)) = p

NoHost == <<>>
NoPath == <<>>
Root   == <<"/">>

----------------------------------------------------------------------------
(* Targets *)

(***************************************************************************)
(* A raw target: scheme, whether it has userinfo, its host ("wild": with   *)
(* a '*'), its port (0: the scheme's) and path, and what is odd about the  *)
(* path: "plain", "bslash", "dots", "dslash", "encoded" (%2f, %2e),        *)
(* "badpct" (a malformed escape) or "nonascii".                            *)
(***************************************************************************)
DEFAULT_PORTS == [http |-> 80, https |-> 443]

_error(code) == [scheme |-> "NONE", host |-> NoHost, port |-> 0, path |-> NoPath,
                 error |-> code]

PortOf(u) == IF u.port = 0 THEN DEFAULT_PORTS[u.scheme] ELSE u.port

(* A path that reads in one way only. *)
_scope_match_path(u) == IF u.odd = "plain" THEN u.path ELSE NoPath

normalize_url(u) ==
    CASE u.user -> _error("USERINFO")
      [] ~u.user /\ u.scheme \notin DOMAIN DEFAULT_PORTS -> _error("PARSE")
      [] OTHER ->
         IF u.host = NoHost THEN _error("EMPTY_HOST")
         ELSE IF u.host = <<"wild">> THEN _error("WILDCARD")
         ELSE [scheme |-> u.scheme, host |-> u.host, port |-> PortOf(u),
               path |-> _scope_match_path(u),
               error |-> IF u.odd = "plain" THEN "NONE" ELSE "PATH_AMBIGUOUS"]

(* resolve_redirect_location: a location without a host is on the host that
   answered. *)
resolve_redirect_location(u, location) ==
    IF location.scheme = "other" THEN _error("PARSE")
    ELSE normalize_url(IF location.host = NoHost
                       THEN [location EXCEPT !.scheme = u.scheme, !.host = u.host,
                                             !.port = u.port]
                       ELSE location)

----------------------------------------------------------------------------
(* Rules *)

(* A compiled rule names a host or the apex of a pattern "*.apex". *)
ValidRule(r) ==
    /\ (r.host = NoHost) # (r.apex = NoHost)
    /\ r.scheme \in DOMAIN DEFAULT_PORTS /\ r.port > 0
    /\ r.prefix = NoPath \/ r.prefix[1] = "/"

_host_matches(host, r) ==
    /\ host # NoHost
    /\ IF r.host # NoHost THEN host = r.host
       ELSE r.apex # NoHost /\ host # r.apex /\ EndsWith(host, r.apex)

_origin_matches(c, r) ==
    c.scheme = r.scheme /\ _host_matches(c.host, r) /\ c.port = r.port

_path_prefix_matches(path, prefix) ==
    \/ path = prefix
    \/ StartsWith(path, IF prefix[Len(prefix)] = "/" THEN prefix ELSE Append(prefix, "/"))

Matches(c, r) ==
    _origin_matches(c, r) /\ (r.prefix = NoPath \/ _path_prefix_matches(c.path, r.prefix))

(* expires 0: never. *)
Expired(r, now) == r.expires # 0 /\ r.expires <= now

ScopeCheck(d, ids) == [decision |-> d, ids |-> ids]

(***************************************************************************)
(* evaluate_scope_candidate: rules is the sequence of compiled rules, a    *)
(* rule is known by its place in it.  The first expired rule that matches  *)
(* decides, whatever the others say.                                       *)
(***************************************************************************)
evaluate_scope_candidate(c, rules, now) ==
    LET hits == {i \in DOMAIN rules : Matches(c, rules[i])}
        stale == {i \in hits : Expired(rules[i], now)}
        With(effects) == {i \in hits : rules[i].effect \in effects}
    IN CASE c.error # "NONE" \/ c.path = NoPath -> ScopeCheck("DENY", {})
         [] c.error = "NONE" /\ c.path # NoPath /\ stale # {} ->
                ScopeCheck("REVIEW", {CHOOSE i \in stale : \A j \in stale : i <= j})
         [] OTHER ->
            IF With({"DENY", "OUT_OF_SCOPE"}) # {}
            THEN ScopeCheck("DENY", With({"DENY", "OUT_OF_SCOPE"}))
            ELSE IF With({"ALLOW"}) # {} THEN ScopeCheck("ALLOW", With({"ALLOW"}))
            ELSE ScopeCheck("DENY", With({"UNKNOWN"}))

(* What Core is shown of that check. *)
scope_evaluation_from_compiled_check(check, rules) ==
    [effects |-> {rules[i].effect : i \in check.ids}, ambiguous |-> check.decision = "REVIEW"]

----------------------------------------------------------------------------
(* The worker's envelope *)

(* "lo": the loopback address. *)
derive_loopback_only(policy, rules) == policy # "program" \/ rules = <<>>

(* The envelope's own test of an origin knows exact hosts only. *)
EnvelopeOrigin(c, r) == c.scheme = r.scheme /\ c.host = r.host /\ c.port = r.port

(* Faulty variant: exclusions do not reach the worker. *)
EnvelopeWithoutDenials(c, rules, check, loopback) ==
    LET allows == {i \in check.ids : EnvelopeOrigin(c, rules[i]) /\ rules[i].effect = "ALLOW"}
    IN [scheme |-> c.scheme, host |-> c.host, port |-> c.port, document |-> c.path,
        wide |-> \E i \in allows : rules[i].prefix = NoPath,
        allowed |-> {rules[i].prefix : i \in allows} \ {NoPath}, denied |-> {},
        loopback |-> loopback]

derive_authorized_network_envelope(c, rules, check, loopback) ==
    LET allows == {i \in check.ids : EnvelopeOrigin(c, rules[i]) /\ rules[i].effect = "ALLOW"}
        denies == {i \in DOMAIN rules : EnvelopeOrigin(c, rules[i])
                                        /\ rules[i].effect \in {"DENY", "OUT_OF_SCOPE"}}
    IN [scheme |-> c.scheme, host |-> c.host, port |-> c.port, document |-> c.path,
        wide |-> \E i \in allows : rules[i].prefix = NoPath,
        allowed |-> {rules[i].prefix : i \in allows} \ {NoPath},
        denied |-> {IF rules[i].prefix = NoPath THEN Root ELSE rules[i].prefix : i \in denies},
        loopback |-> loopback]

NoEnvelope == [scheme |-> "NONE", host |-> NoHost, port |-> 0, document |-> NoPath,
               wide |-> FALSE, allowed |-> {}, denied |-> {}, loopback |-> TRUE]

(* The worker's own reading of a URL.  It knows fewer ambiguous paths. *)
_split_url(u) ==
    /\ ~u.user /\ u.scheme \in DOMAIN DEFAULT_PORTS
    /\ u.host \notin {NoHost, <<"wild">>}
    /\ u.odd \notin {"bslash", "dots", "dslash", "encoded"}

envelope_allows(e, u) ==
    /\ _split_url(u)
    /\ e.loopback => u.host = <<"lo">>
    /\ u.scheme = e.scheme /\ u.host = e.host /\ PortOf(u) = e.port
    /\ \A p \in e.denied : ~StartsWith(u.path, p)
    /\ e.wide \/ u.path = e.document \/ \E p \in e.allowed : StartsWith(u.path, p)
=============================================================================
