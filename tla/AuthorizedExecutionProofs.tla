----------------------- MODULE AuthorizedExecutionProofs -----------------------
(***************************************************************************)
(* Safety of AuthorizedExecution, for any experiments, sessions, plans,    *)
(* compiled scopes, subresources, rate limit and budget.                   *)
(***************************************************************************)
EXTENDS AuthorizedExecution, FiniteSetTheorems, SequenceTheorems, TLAPS

(* A session row has its six fields. *)
IsRow(x) == x = [state |-> x.state, identity |-> x.identity, run |-> x.run, auth |-> x.auth,
                 origin |-> x.origin, expires |-> x.expires]

(* The process carries its envelope, secret and reply along, and they may be
   anything. *)
Step == {"idle", "granted", "invoke", "send", "answered", "ingest"}

IsProc(x) == x \in [step : Step, exp : Exp \cup {"NONE"}, envelope : {x.envelope},
                    secret : {x.secret}, index : Nat, reply : {x.reply}]

Typed ==
    /\ now \in Nat /\ plan \in PlanChoices /\ scope \in RuleChoices
    /\ att = [e \in Exp |-> att[e]]
    /\ authAt \in [Exp -> Int] /\ \A e \in Exp : authAt[e] <= now
    /\ session = [s \in Session |-> session[s]] /\ \A s \in Session : IsRow(session[s])
    /\ charge \in [Exp -> Int] /\ count \in [Exp -> Nat] /\ result = [e \in Exp |-> result[e]]
    /\ IsProc(proc)

(* States of an attempt that no worker was ever asked for. *)
Unsent == {"NONE", "AUTHORIZED"}

(* An experiment that was never dispatched has done nothing. *)
FreshInv ==
    \A e \in Exp : /\ att[e] = "NONE" => authAt[e] = -1
                   /\ att[e] \in Unsent => count[e] = 0 /\ result[e] = NoAnswer

(* The process works on an experiment that was authorized and has no result;
   it has sent nothing before it runs its worker, and its charge covers what
   the worker plans. *)
ProcInv ==
    LET e == proc.exp IN
    /\ proc.step # "idle" => e \in Exp /\ att[e] # "NONE" /\ result[e] = NoAnswer
    /\ proc.step \in {"invoke", "send", "answered", "ingest"} => att[e] \notin Unsent
    /\ proc.step \in {"granted", "invoke"} => count[e] = 0
    /\ proc.step \in {"invoke", "send"} /\ ~ChecksEach(plan[e].cap) =>
          /\ charge[e] >= 0
          /\ plan[e].cap # "browser.page" =>
                charge[e] >= Len(Planned(plan[e].cap, plan[e]))

(* The envelope it holds is the one of a check that allowed the document when
   the attempt was authorized; a dispatch that is taken up again holds none,
   and its worker sends nothing. *)
HeldEnvelope(e) ==
    LET check == evaluate_scope_candidate(Candidate(plan[e]), scope, authAt[e]) IN
    /\ check.decision = "ALLOW"
    /\ proc.envelope = derive_authorized_network_envelope(
                           Candidate(plan[e]), scope, check, derive_loopback_only(Policy, scope))

EnvelopeInv ==
    LET e == proc.exp IN
    plan[e].cap \in HTTP_SCOPE_CAPABILITIES =>
        /\ proc.step \in {"granted", "invoke"} => HeldEnvelope(e) \/ proc.envelope = NoEnvelope
        /\ proc.step = "send" => HeldEnvelope(e)

(* A worker that sends was let through by its own check, or asks before each
   request; what it has sent is what it has got through. *)
SendInv ==
    LET e == proc.exp
        cap == plan[e].cap
    IN proc.step = "send" =>
         /\ cap \in HTTP_SCOPE_CAPABILITIES /\ proc.index >= 1 /\ count[e] = proc.index - 1
         /\ cap # "browser.page" => proc.index <= Len(Planned(cap, plan[e]))
         /\ cap # "browser.page" /\ ~ChecksEach(cap) => envelope_allows(proc.envelope, plan[e].url)
         /\ UsesSession(plan[e]) => proc.secret

(* Only a request with its cookie has an answer of the target. *)
ReplyInv ==
    proc.step \in {"answered", "ingest"} /\ UsesSession(plan[proc.exp]) =>
        proc.secret \/ proc.reply.answer = "NONE"

(* The session of the plan at work: a login's row waits for it, and the row
   that a cookie belongs to stays as it was when it was bound. *)
BoundTo(row, p) ==
    /\ row.identity = p.identity /\ row.run = "this" /\ row.auth = p.auth
    /\ row.origin = Origin(p.url)

BoundInv ==
    LET p == plan[proc.exp] IN
    proc.step # "idle" =>
        /\ p.cap = "http.authentication" =>
              session[p.session].state = "AUTHENTICATING" /\ BoundTo(session[p.session], p)
        /\ UsesSession(p) /\ proc.secret =>
              session[p.session].state = "ACTIVE" /\ BoundTo(session[p.session], p)

IsLogin(e) == plan[e].cap = "http.authentication"

(* A login has its row, which is its own, and waits for it until the login is
   dispatched. *)
LoginInv ==
    \A e \in Exp : IsLogin(e) /\ att[e] # "NONE" =>
       /\ session[plan[e].session].state # "NONE"
       /\ att[e] = "AUTHORIZED" => /\ session[plan[e].session].state = "AUTHENTICATING"
                                   /\ BoundTo(session[plan[e].session], plan[e])
       /\ \A x \in Exp : IsLogin(x) /\ att[x] # "NONE" /\ plan[x].session = plan[e].session
             => x = e

LoggedIn(s, row) ==
    \E e \in Exp : /\ IsLogin(e) /\ plan[e].session = s
                   /\ BoundTo(row, plan[e]) /\ result[e].answer = "cookie"

Refused(s) ==
    \E e \in Exp : /\ plan[e].cap = "http.transaction" /\ plan[e].session = s
                   /\ result[e].answer = "unauthorized"

(* A session of the run that is active was logged in to, and one that was
   refused is over. *)
SessionInv ==
    \A s \in Session :
       /\ session[s].state = "ACTIVE" /\ session[s].run = "this" => LoggedIn(s, session[s])
       /\ Refused(s) => session[s].state = "EXPIRED"

SentInv == \A c \in sent : c.exp \in Exp /\ att[c.exp] # "NONE"

(* A window may end at any time, not only within the bound. *)
InWindow(t) == {e \in Exp : authAt[e] # -1 /\ authAt[e] \in (t - Profile.window + 1) .. t}

RateInv == \A t \in Nat : Cardinality(InWindow(t)) <= Profile.max

IInv ==
    /\ Typed /\ FreshInv /\ ProcInv /\ EnvelopeInv /\ SendInv /\ ReplyInv /\ BoundInv
    /\ LoginInv /\ SessionInv /\ RateInv /\ SentInv /\ ContactWithinScope /\ RequestsWithinCharge

----------------------------------------------------------------------------
(* Paths, the envelope and the planned requests. *)

(* The lexemes of paths: the provers do not know that a literal is a STRING. *)
Lexeme == STRING \cup {"/", "secure", "vulnerable", "control", "accounts", "requests", "own",
                      "cross", "id", "go", "redirect"}

Path == {p \in Seq(Lexeme) : p # <<>> /\ p[1] = "/"}

LEMMA PrefixByElements ==
    ASSUME NEW s \in Seq(Lexeme), NEW p \in Seq(Lexeme)
    PROVE  StartsWith(s, p) <=> Len(p) <= Len(s) /\ \A i \in 1 .. Len(p) : s[i] = p[i]
<1>1. ASSUME StartsWith(s, p)
      PROVE  Len(p) <= Len(s) /\ \A i \in 1 .. Len(p) : s[i] = p[i]
  BY <1>1 DEF StartsWith
<1>2. ASSUME Len(p) <= Len(s), \A i \in 1 .. Len(p) : s[i] = p[i]
      PROVE  StartsWith(s, p)
  <2>1. SubSeq(s, 1, Len(p)) = [i \in 1 .. Len(p) |-> s[i]]
    BY <1>2
  <2>2. p = [i \in 1 .. Len(p) |-> p[i]]
    OBVIOUS
  <2> QED
    BY <1>2, <2>1, <2>2 DEF StartsWith
<1> QED
  BY <1>1, <1>2

LEMMA RootIsPrefix ==
    ASSUME NEW s \in Path
    PROVE  StartsWith(s, Root)
<1>1. Root \in Seq(Lexeme) /\ Len(Root) = 1 /\ Root[1] = "/" /\ Len(s) >= 1 /\ s[1] = "/"
  BY DEF Root, Path, Lexeme
<1> QED
  BY <1>1, PrefixByElements DEF Path

(* A path that a rule's prefix matches by whole segments has it as prefix. *)
LEMMA MatchIsPrefix ==
    ASSUME NEW s \in Seq(Lexeme), NEW p \in Seq(Lexeme), p # <<>>, _path_prefix_matches(s, p)
    PROVE  StartsWith(s, p) /\ s # <<>>
<1>1. CASE s = p
  BY <1>1, PrefixByElements
<1>2. CASE StartsWith(s, p)
  BY <1>2, PrefixByElements
<1>3. CASE StartsWith(s, Append(p, "/"))
  <2>1. /\ Append(p, "/") \in Seq(Lexeme) /\ Len(Append(p, "/")) = Len(p) + 1
        /\ \A i \in 1 .. Len(p) : Append(p, "/")[i] = p[i]
    BY DEF Lexeme
  <2>2. Len(p) + 1 <= Len(s) /\ \A i \in 1 .. Len(p) + 1 : s[i] = Append(p, "/")[i]
    BY <1>3, <2>1, PrefixByElements
  <2> QED
    BY <2>1, <2>2, PrefixByElements
<1> QED
  BY <1>1, <1>2, <1>3 DEF _path_prefix_matches

(* What an envelope lets through stays on the origin of its document and out
   of every exclusion that names this host. *)
LEMMA EnvelopeSound ==
    ASSUME NEW rules, \A i \in DOMAIN rules : rules[i].prefix \in Seq(Lexeme),
           NEW c, NEW check, NEW loopback, NEW v, v.path \in Path,
           envelope_allows(derive_authorized_network_envelope(c, rules, check, loopback), v)
    PROVE  LET u == normalize_url(v) IN
           /\ u.scheme = c.scheme /\ u.host = c.host /\ u.port = c.port
           /\ ~\E i \in DOMAIN rules : /\ rules[i].effect \in {"DENY", "OUT_OF_SCOPE"}
                                       /\ EnvelopeOrigin(u, rules[i]) /\ Matches(u, rules[i])
<1>1. PICK u : u = normalize_url(v)
  OBVIOUS
<1>2. PICK env : env = derive_authorized_network_envelope(c, rules, check, loopback)
  OBVIOUS
<1>3. /\ env.scheme = c.scheme /\ env.host = c.host /\ env.port = c.port
      /\ \A i \in DOMAIN rules :
            EnvelopeOrigin(c, rules[i]) /\ rules[i].effect \in {"DENY", "OUT_OF_SCOPE"} =>
               (IF rules[i].prefix = NoPath THEN Root ELSE rules[i].prefix) \in env.denied
  BY <1>2 DEF derive_authorized_network_envelope
<1>4. /\ _split_url(v) /\ v.scheme = env.scheme /\ v.host = env.host /\ PortOf(v) = env.port
      /\ \A p \in env.denied : ~StartsWith(v.path, p)
  BY <1>2 DEF envelope_allows
<1>5. /\ u.scheme = v.scheme /\ u.host = v.host /\ u.port = PortOf(v)
      /\ u.path = IF v.odd = "plain" THEN v.path ELSE NoPath
  BY <1>1, <1>4 DEF normalize_url, _split_url, _scope_match_path
<1>6. ASSUME NEW i \in DOMAIN rules, rules[i].effect \in {"DENY", "OUT_OF_SCOPE"},
             EnvelopeOrigin(u, rules[i]), Matches(u, rules[i])
      PROVE  FALSE
  <2>1. EnvelopeOrigin(c, rules[i])
    BY <1>3, <1>4, <1>5, <1>6 DEF EnvelopeOrigin
  <2>2. CASE rules[i].prefix = NoPath
    <3>1. Root \in env.denied
      BY <1>3, <1>6, <2>1, <2>2
    <3> QED
      BY <1>4, <3>1, RootIsPrefix
  <2>3. CASE rules[i].prefix # NoPath
    <3>1. rules[i].prefix \in env.denied /\ rules[i].prefix \in Seq(Lexeme)
      BY <1>3, <1>6, <2>1, <2>3
    <3>2. u.path \in Seq(Lexeme) /\ v.path \in Seq(Lexeme)
      BY <1>5 DEF NoPath, Path
    <3>3. _path_prefix_matches(u.path, rules[i].prefix) /\ rules[i].prefix # <<>>
      BY <1>6, <2>3 DEF Matches, NoPath
    <3>4. StartsWith(u.path, rules[i].prefix) /\ u.path # <<>>
      BY <3>1, <3>2, <3>3, MatchIsPrefix
    <3>5. u.path = v.path
      BY <1>5, <3>4 DEF NoPath
    <3> QED
      BY <1>4, <3>1, <3>4, <3>5
  <2> QED
    BY <2>2, <2>3
<1> QED
  BY <1>1, <1>3, <1>4, <1>5, <1>6

(* The requests follow from the plan alone. *)
LEMMA PlannedByPlan ==
    ASSUME NEW e, NEW cap
    PROVE  Planned(cap, WorkerRequest(e)) = Planned(cap, plan[e])
  BY DEF Planned, PlannedDifferential, PlannedTransition, _catalog_writes, At, WorkerRequest

LEMMA RawPath ==
    ASSUME NEW u \in RawUrl
    PROVE  u.path \in Path
<1>1. u.path \in Seq(STRING) /\ u.path # <<>> /\ u.path[1] = "/"
  BY DEF RawUrl
<1>2. u.path \in Seq(Lexeme)
  BY <1>1, SeqMonotonic DEF Lexeme
<1> QED
  BY <1>1, <1>2 DEF Path

LEMMA AtPath ==
    ASSUME NEW r, r.url \in RawUrl, NEW p \in Path
    PROVE  At(r, p).path \in Path
<1>1. r.url.path = r.url.path /\ "path" \in DOMAIN r.url
  BY DEF RawUrl
<1> QED
  BY DEF At, RawUrl

LEMMA ExtendedPath ==
    ASSUME NEW p \in Path, NEW q \in Seq(Lexeme)
    PROVE  p \o q \in Path
<1>1. p \o q \in Seq(Lexeme) /\ (p \o q)[1] = "/" /\ p \o q # <<>>
  BY DEF Path
<1> QED
  BY <1>1 DEF Path

LEMMA FourPaths ==
    ASSUME NEW a, NEW b, NEW c, NEW d, a.path \in Path, b.path \in Path, c.path \in Path,
           d.path \in Path, NEW s, s = <<a, b, c, d>>
    PROVE  Len(s) \in Nat \ {0} /\ \A i \in 1 .. Len(s) : s[i].path \in Path
<1>1. Len(s) = 4 /\ s[1] = a /\ s[2] = b /\ s[3] = c /\ s[4] = d
  OBVIOUS
<1>2. \A i \in 1 .. 4 : i = 1 \/ i = 2 \/ i = 3 \/ i = 4
  OBVIOUS
<1> QED
  BY <1>1, <1>2

LEMMA PlannedPaths ==
    ASSUME NEW r, r.url \in RawUrl, r.mode \in Lexeme, NEW cap
    PROVE  /\ Len(Planned(cap, r)) \in Nat \ {0}
           /\ \A i \in 1 .. Len(Planned(cap, r)) : Planned(cap, r)[i].path \in Path
<1>1. \A a \in Lexeme, b \in Lexeme, c \in Lexeme :
        /\ At(r, <<"/", a, "/", b, "/", c>>).path \in Path
        /\ At(r, <<"/", a, "/", b, "/", c>> \o <<"/", "go">>).path \in Path
  <2> SUFFICES ASSUME NEW a \in Lexeme, NEW b \in Lexeme, NEW c \in Lexeme
               PROVE  /\ At(r, <<"/", a, "/", b, "/", c>>).path \in Path
                      /\ At(r, <<"/", a, "/", b, "/", c>> \o <<"/", "go">>).path \in Path
    OBVIOUS
  <2>1. <<"/", a, "/", b, "/", c>> \in Path
    BY DEF Path, Lexeme
  <2>2. <<"/", "go">> \in Seq(Lexeme)
    BY DEF Lexeme
  <2>3. <<"/", a, "/", b, "/", c>> \o <<"/", "go">> \in Path
    BY <2>1, <2>2, ExtendedPath
  <2> QED
    BY <2>1, <2>3, AtPath
<1>2. At(r, <<"/", "redirect">>).path \in Path
  <2>1. <<"/", "redirect">> \in Path
    BY DEF Path, Lexeme
  <2> QED
    BY <2>1, AtPath
<1>3. r.url.path \in Path
  BY RawPath
<1>4. CASE cap = "http.authorization.differential"
  <2>1. CASE r.mode = "redirect"
    BY <1>2, <1>4, <2>1 DEF Planned, PlannedDifferential
  <2>2. CASE r.mode # "redirect"
    <3>1. PICK x \in {"vulnerable", "secure"} :
             Planned(cap, r) =
                <<At(r, <<"/", x, "/", "accounts", "/", "own">>),
                  At(r, <<"/", x, "/", "accounts", "/", "cross">>),
                  At(r, <<"/", "secure", "/", "accounts", "/", "cross">>),
                  At(r, <<"/", x, "/", "accounts", "/", "cross">>)>>
      BY <1>4, <2>2 DEF Planned, PlannedDifferential
    <3>2. {x, "secure", "accounts", "own", "cross"} \subseteq Lexeme
      BY DEF Lexeme
    <3> QED
      BY <1>1, <3>1, <3>2, FourPaths
  <2> QED
    BY <2>1, <2>2
<1>5. CASE cap = "http.state_transition"
  <2>1. CASE r.mode = "redirect"
    BY <1>2, <1>5, <2>1 DEF Planned, PlannedTransition
  <2>2. CASE r.mode # "redirect"
    <3>1. Planned(cap, r) =
             <<At(r, <<"/", r.mode, "/", "requests", "/", "id">>),
               At(r, <<"/", "control", "/", "requests", "/", "id">> \o <<"/", "go">>),
               At(r, <<"/", r.mode, "/", "requests", "/", "id">> \o <<"/", "go">>),
               At(r, <<"/", r.mode, "/", "requests", "/", "id">>)>>
      BY <1>5, <2>2 DEF Planned, PlannedTransition
    <3>2. {r.mode, "control", "requests", "id"} \subseteq Lexeme
      BY DEF Lexeme
    <3> QED
      BY <1>1, <3>1, <3>2, FourPaths
  <2> QED
    BY <2>1, <2>2
<1>6. CASE cap = "http.raw_exchange"
  BY <1>3, <1>6 DEF Planned, _catalog_writes
<1>7. CASE cap \notin {"http.authorization.differential", "http.state_transition",
                       "http.raw_exchange"}
  BY <1>3, <1>7 DEF Planned
<1> QED
  BY <1>4, <1>5, <1>6, <1>7

LEMMA PlannedUrls ==
    ASSUME NEW r, NEW cap, ~ChecksEach(cap)
    PROVE  /\ \A i \in 1 .. Len(Planned(cap, r)) : Planned(cap, r)[i] = r.url
           /\ Len(Planned(cap, r)) =
                 IF cap = "http.raw_exchange" /\ r.profile = "http1_connection_reuse" THEN 2 ELSE 1
  BY DEF Planned, _catalog_writes, ChecksEach

----------------------------------------------------------------------------
(* Steps that neither authorize, charge, send nor ingest: at most they end the
   work of the process, or move it on to the record of its outcome. *)
Quiet ==
    /\ UNCHANGED <<plan, scope, authAt, session, charge, sent, count, result>>
    /\ now' \in Nat /\ now' >= now
    /\ att' = [e \in Exp |-> att'[e]]
    /\ \A e \in Exp : att'[e] = att[e] \/ (att[e] \notin Unsent /\ att'[e] \notin Unsent)
    /\ IsProc(proc')
    /\ \/ proc' = proc
       \/ proc'.step = "idle"
       \/ /\ proc'.step \in {"answered", "ingest"} /\ proc'.exp = proc.exp
          /\ proc'.secret = proc.secret
          /\ \/ proc.step \in {"invoke", "send"} /\ proc'.reply.answer = "NONE"
             \/ proc.step = "answered" /\ proc'.reply = proc.reply

LEMMA QuietKeeps ==
    ASSUME IInv, Quiet
    PROVE  IInv'
<1> USE DEF Quiet
<1>0. \A e \in Exp : /\ att'[e] = "NONE" <=> att[e] = "NONE"
                     /\ att'[e] = "AUTHORIZED" <=> att[e] = "AUTHORIZED"
  BY DEF Unsent
<1>1. Typed'
  BY DEF IInv, Typed
<1>2. FreshInv' /\ SentInv'
  BY <1>0 DEF IInv, FreshInv, SentInv, Unsent
<1>3. ProcInv'
  BY <1>0 DEF IInv, ProcInv, Unsent
<1>4. EnvelopeInv'
  BY DEF IInv, EnvelopeInv, HeldEnvelope
<1>5. SendInv' /\ ReplyInv'
  BY DEF IInv, SendInv, ReplyInv, UsesSession
<1>6. BoundInv'
  BY DEF IInv, BoundInv, BoundTo, UsesSession
<1>7. SessionInv' /\ LoginInv'
  BY <1>0 DEF IInv, SessionInv, LoggedIn, Refused, LoginInv, IsLogin, BoundTo
<1>8. RateInv'
  BY DEF IInv, RateInv, InWindow
<1>9. ContactWithinScope' /\ RequestsWithinCharge'
  BY DEF IInv, ContactWithinScope, RequestsWithinCharge
<1> QED
  BY <1>1, <1>2, <1>3, <1>4, <1>5, <1>6, <1>7, <1>8, <1>9 DEF IInv

LEMMA IdleIsProc ==
    IsProc(Idle) /\ Idle.step = "idle"
  BY DEF IsProc, Idle, Step

LEMMA RepliesKeeps ==
    ASSUME IInv, proc.step \in {"invoke", "send"}, NEW status, Replies(status, "NONE"),
           UNCHANGED <<now, plan, scope, rows, material, sent, count>>
    PROVE  IInv'
<1>1. /\ IsProc(proc') /\ proc'.step = "answered" /\ proc'.exp = proc.exp
      /\ proc'.secret = proc.secret /\ proc'.reply.answer = "NONE"
  BY DEF Replies, IInv, Typed, Step, IsProc
<1>2. Quiet
  BY <1>1 DEF Quiet, IInv, Typed, rows
<1> QED
  BY <1>2, QuietKeeps

(* What a grant rests on. *)
LEMMA AllowedFacts ==
    ASSUME NEW e \in Exp, Allow(e)
    PROVE  /\ att[e] = "NONE" /\ WithinRate /\ HttpAccepted(plan[e])
           /\ bind_identity_session(plan[e]) = "ACCEPT"
<1>1. Decidable(e) /\ Decision(plan[e]) = "ALLOW"
  BY DEF Allow
<1>2. att[e] = "NONE" /\ WithinRate
  BY <1>1 DEF Decidable, Authorizable
<1>3. HttpAccepted(plan[e]) /\ bind_identity_session(plan[e]) = "ACCEPT"
  BY <1>1 DEF Decision
<1> QED
  BY <1>2, <1>3

(* The session a plan with a cookie is bound to. *)
LEMMA BoundToActive ==
    ASSUME NEW p, UsesSession(p), bind_identity_session(p) = "ACCEPT"
    PROVE  session[p.session].state = "ACTIVE" /\ BoundTo(session[p.session], p)
<1>1. _bind_existing_session(p) = "ACCEPT"
  BY DEF bind_identity_session, UsesSession
<1>2. /\ session[p.session].identity = p.identity /\ session[p.session].run = "this"
      /\ session[p.session].auth = p.auth /\ Usable(p) = "ACCEPT"
  BY <1>1 DEF _bind_existing_session
<1> QED
  BY <1>2 DEF Usable, BoundTo

LEMMA RateKept ==
    ASSUME IInv, NEW e \in Exp, att[e] = "NONE", WithinRate, now' = now,
           authAt' = [authAt EXCEPT ![e] = now]
    PROVE  RateInv'
<1> DEFINE Recent == {a \in DOMAIN Times : Times[a] > now - Profile.window /\ Times[a] <= now}
<1>1. /\ now \in Nat /\ authAt \in [Exp -> Int] /\ authAt[e] = -1
      /\ Profile.max \in Nat /\ Profile.window \in Nat /\ IsFiniteSet(Exp)
  BY BoundsAssumption DEF IInv, Typed, FreshInv
<1>2. Cardinality(Recent) < Profile.max
  BY DEF WithinRate, check_rate_limit
<1>3. Recent \subseteq Exp /\ IsFiniteSet(Recent) /\ Cardinality(Recent) \in Nat
  <2>1. Recent \subseteq Exp
    BY DEF Times
  <2> QED
    BY <1>1, <2>1, FS_Subset, FS_CardinalityType
<1>4. \A a \in Exp : authAt[a] # -1 /\ authAt[a] > now - Profile.window /\ authAt[a] <= now
        => a \in Recent
  BY DEF Times
<1> HIDE DEF Recent
<1> SUFFICES ASSUME NEW t \in Nat
             PROVE  Cardinality(InWindow(t)') <= Profile.max
  BY DEF RateInv
<1>5. CASE t < now
  <2>1. InWindow(t)' = InWindow(t)
    BY <1>1, <1>5 DEF InWindow
  <2> QED
    BY <2>1 DEF IInv, RateInv
<1>6. CASE t >= now
  <2>1. InWindow(t)' \subseteq Recent \cup {e}
    <3> SUFFICES ASSUME NEW a \in InWindow(t)', a # e
                 PROVE  a \in Recent
      OBVIOUS
    <3>1. /\ a \in Exp /\ authAt'[a] = authAt[a] /\ authAt'[a] # -1
          /\ authAt'[a] \in t - Profile.window + 1 .. t
      BY <1>1 DEF InWindow
    <3>2. authAt[a] > now - Profile.window /\ authAt[a] <= now
      BY <1>1, <1>6, <3>1 DEF IInv, Typed
    <3> QED
      BY <1>4, <3>1, <3>2
  <2>2. IsFiniteSet(Recent \cup {e}) /\ Cardinality(Recent \cup {e}) <= Cardinality(Recent) + 1
    BY <1>3, FS_AddElement
  <2>3. Cardinality(InWindow(t)') <= Cardinality(Recent \cup {e})
    BY <2>1, <2>2, FS_Subset
  <2>4. IsFiniteSet(InWindow(t)')
    BY <2>1, <2>2, FS_Subset
  <2>5. Cardinality(Recent \cup {e}) \in Nat /\ Cardinality(InWindow(t)') \in Nat
    BY <2>2, <2>4, FS_CardinalityType
  <2> QED
    BY <1>1, <1>2, <1>3, <2>2, <2>3, <2>5
<1> QED
  BY <1>1, <1>5, <1>6

LEMMA AllowKeeps ==
    ASSUME IInv, NEW e \in Exp, Allow(e)
    PROVE  IInv'
<1> PICK p : p = plan[e]
  OBVIOUS
<1>1. /\ UNCHANGED <<now, plan, scope, charge, sent, count, result>>
      /\ att' = [att EXCEPT ![e] = "AUTHORIZED"] /\ authAt' = [authAt EXCEPT ![e] = now]
  BY DEF Allow
<1>2. /\ att[e] = "NONE" /\ WithinRate /\ HttpAccepted(p) /\ bind_identity_session(p) = "ACCEPT"
      /\ authAt[e] = -1 /\ count[e] = 0 /\ result[e] = NoAnswer
  BY AllowedFacts DEF IInv, FreshInv, Unsent
<1>3. /\ plan \in PlanChoices /\ p.session \in Session \cup {"NONE"}
      /\ p.cap = "http.authentication" => p.session \in Session
  BY InputAssumption DEF IInv, Typed
<1>4. IsProc(proc') /\ proc'.step = "granted" /\ proc'.exp = e /\ proc'.envelope = Envelope(p)
  BY DEF Allow, IsProc, Idle, Step
<1>5. \/ /\ p.cap = "http.authentication" /\ session[p.session] = NoSession
         /\ session' = [session EXCEPT ![p.session] = authenticating_session_record(p)]
      \/ p.cap # "http.authentication" /\ session' = session
  BY DEF Allow
<1>6. /\ IsRow(authenticating_session_record(p)) /\ BoundTo(authenticating_session_record(p), p)
      /\ authenticating_session_record(p).state = "AUTHENTICATING" /\ NoSession.state = "NONE"
  BY DEF IsRow, BoundTo, authenticating_session_record, NoSession
<1>7. /\ p.cap = "http.authentication" =>
            session[p.session].state = "NONE" /\ session'[p.session] = authenticating_session_record(p)
      /\ \A s \in Session : p.cap # "http.authentication" \/ s # p.session => session'[s] = session[s]
      /\ session' = [s \in Session |-> session'[s]]
  BY <1>3, <1>5, <1>6 DEF IInv, Typed
<1>8. /\ att'[e] = "AUTHORIZED" /\ \A x \in Exp : x # e => att'[x] = att[x]
      /\ att' = [x \in Exp |-> att'[x]]
  BY <1>1 DEF IInv, Typed
<1>9. Typed'
  <2>1. \A s \in Session : IsRow(session'[s])
    BY <1>6, <1>7 DEF IInv, Typed
  <2> QED
    BY <1>1, <1>4, <1>7, <1>8, <2>1 DEF IInv, Typed
<1>10. FreshInv' /\ SentInv'
  BY <1>1, <1>2, <1>8 DEF IInv, Typed, FreshInv, SentInv, Unsent
<1>11. ProcInv'
  BY <1>1, <1>2, <1>4, <1>8 DEF IInv, Typed, ProcInv
<1>12. EnvelopeInv'
  <2>1. authAt'[e] = now
    BY <1>1 DEF IInv, Typed
  <2>2. p.cap \in HTTP_SCOPE_CAPABILITIES =>
           /\ Check(p).decision = "ALLOW"
           /\ Envelope(p) = derive_authorized_network_envelope(
                                Candidate(p), scope, Check(p), derive_loopback_only(Policy, scope))
    BY <1>2 DEF HttpAccepted, Envelope
  <2> QED
    BY <1>1, <1>4, <2>1, <2>2 DEF EnvelopeInv, HeldEnvelope, Check
<1>13. SendInv' /\ ReplyInv'
  BY <1>4 DEF SendInv, ReplyInv
<1>14. BoundInv'
  <2>1. p.cap = "http.authentication" =>
           session'[p.session].state = "AUTHENTICATING" /\ BoundTo(session'[p.session], p)
    BY <1>6, <1>7
  <2>2. UsesSession(p) => session'[p.session].state = "ACTIVE" /\ BoundTo(session'[p.session], p)
    BY <1>2, <1>5, BoundToActive DEF UsesSession
  <2> QED
    BY <1>1, <1>4, <2>1, <2>2 DEF BoundInv, BoundTo, UsesSession
<1>15. LoginInv'
  <2> SUFFICES ASSUME NEW x \in Exp, IsLogin(x), att'[x] # "NONE"
               PROVE  /\ session'[plan[x].session].state # "NONE"
                      /\ att'[x] = "AUTHORIZED" =>
                            /\ session'[plan[x].session].state = "AUTHENTICATING"
                            /\ BoundTo(session'[plan[x].session], plan[x])
                      /\ \A y \in Exp : IsLogin(y) /\ att'[y] # "NONE" /\ plan[y].session = plan[x].session
                            => y = x
    BY <1>1 DEF LoginInv, IsLogin, BoundTo
  <2>1. plan[x].session \in Session
    BY <1>3, InputAssumption DEF IsLogin
  <2>2. ASSUME NEW y \in Exp, IsLogin(y), att[y] # "NONE", IsLogin(e)
        PROVE  plan[y].session # p.session
    <3>1. session[plan[y].session].state # "NONE"
      BY <2>2 DEF IInv, LoginInv
    <3> QED
      BY <1>7, <2>2, <3>1 DEF IsLogin
  <2>3. CASE x = e
    <3>1. \A y \in Exp : IsLogin(y) /\ att'[y] # "NONE" /\ plan[y].session = plan[x].session => y = x
      BY <1>8, <2>2, <2>3
    <3> QED
      BY <1>6, <1>7, <2>3, <3>1 DEF IsLogin
  <2>4. CASE x # e
    <3>1. att[x] # "NONE" /\ att'[x] = att[x]
      BY <1>8, <2>4
    <3>2. session'[plan[x].session] = session[plan[x].session]
      BY <1>7, <2>1, <2>2, <3>1 DEF IsLogin
    <3>3. \A y \in Exp : IsLogin(y) /\ att'[y] # "NONE" /\ plan[y].session = plan[x].session => y = x
      BY <1>8, <2>2, <2>4, <3>1 DEF IInv, LoginInv
    <3> QED
      BY <3>1, <3>2, <3>3 DEF IInv, LoginInv
  <2> QED
    BY <2>3, <2>4
<1>16. SessionInv'
  <2>1. \A s, row : (LoggedIn(s, row) => LoggedIn(s, row)') /\ (Refused(s)' => Refused(s))
    BY <1>1 DEF LoggedIn, Refused, IsLogin, BoundTo
  <2>2. \A s \in Session : \/ session'[s] = session[s]
                           \/ session[s].state = "NONE" /\ session'[s].state = "AUTHENTICATING"
    BY <1>6, <1>7
  <2> QED
    BY <2>1, <2>2 DEF IInv, SessionInv
<1>17. RateInv'
  BY <1>1, <1>2, RateKept
<1>18. ContactWithinScope'
  <2>1. \A c \in sent : authAt'[c.exp] = authAt[c.exp]
    BY <1>1, <1>2 DEF IInv, Typed, SentInv
  <2> QED
    BY <1>1, <2>1 DEF IInv, ContactWithinScope
<1>19. RequestsWithinCharge'
  BY <1>1 DEF IInv, RequestsWithinCharge
<1> QED
  BY <1>9, <1>10, <1>11, <1>12, <1>13, <1>14, <1>15, <1>16, <1>17, <1>18, <1>19 DEF IInv

(* A dispatch that is taken up again holds neither envelope nor cookie. *)
LEMMA ResumeKeeps ==
    ASSUME IInv, NEW e \in Exp, _resume_authorized(e)
    PROVE  IInv'
<1>1. /\ UNCHANGED <<now, plan, scope, att, authAt, session, charge, sent, count, result>>
      /\ att[e] = "AUTHORIZED"
  BY DEF _resume_authorized, rows
<1>2. /\ IsProc(proc') /\ proc'.step = "granted" /\ proc'.exp = e
      /\ proc'.envelope = NoEnvelope /\ proc'.secret = FALSE
  BY DEF _resume_authorized, IsProc, Idle, Step
<1>3. Typed'
  BY <1>1, <1>2 DEF IInv, Typed
<1>4. FreshInv' /\ SentInv' /\ LoginInv'
  BY <1>1 DEF IInv, FreshInv, SentInv, LoginInv, IsLogin, BoundTo
<1>5. ProcInv'
  BY <1>1, <1>2 DEF IInv, ProcInv, FreshInv, Unsent
<1>6. EnvelopeInv' /\ SendInv' /\ ReplyInv'
  BY <1>2 DEF EnvelopeInv, SendInv, ReplyInv
<1>7. BoundInv'
  BY <1>1, <1>2 DEF IInv, LoginInv, IsLogin, BoundInv, BoundTo
<1>8. SessionInv'
  BY <1>1 DEF IInv, SessionInv, LoggedIn, Refused, IsLogin, BoundTo
<1>9. RateInv' /\ ContactWithinScope' /\ RequestsWithinCharge'
  BY <1>1 DEF IInv, RateInv, InWindow, ContactWithinScope, RequestsWithinCharge
<1> QED
  BY <1>3, <1>4, <1>5, <1>6, <1>7, <1>8, <1>9 DEF IInv

----------------------------------------------------------------------------
(* Dispatch and the worker. *)

(* The charge is at least what the worker plans to send. *)
LEMMA ChargeCovers ==
    ASSUME NEW p, Affordable(p)
    PROVE  /\ _request_consumption_amount(p) \in Nat
           /\ ~ChecksEach(p.cap) /\ p.cap # "browser.page" =>
                 _request_consumption_amount(p) >= Len(Planned(p.cap, p))
<1>1. CASE p.cap = "browser.page"
  <2>1. Remaining \in Nat /\ BROWSER_PAGE_MAX_NETWORK_REQUESTS \in Nat
    BY <1>1, BoundsAssumption DEF Affordable
  <2>2. _request_consumption_amount(p) = Least(Remaining, BROWSER_PAGE_MAX_NETWORK_REQUESTS)
    BY <1>1 DEF _request_consumption_amount
  <2> QED
    BY <1>1, <2>1, <2>2 DEF Least
<1>2. CASE p.cap # "browser.page"
  <2>1. _request_consumption_amount(p) =
           IF p.cap = "http.raw_exchange" /\ p.profile = "http1_connection_reuse" THEN 2 ELSE 1
    BY <1>2 DEF _request_consumption_amount
  <2> QED
    BY <2>1, PlannedUrls
<1> QED
  BY <1>1, <1>2

LEMMA DispatchKeeps ==
    ASSUME IInv, Dispatch
    PROVE  IInv'
<1> PICK e : e = proc.exp
  OBVIOUS
<1>1. /\ UNCHANGED <<now, plan, scope, authAt, session, sent, count, result>>
      /\ proc.step = "granted" /\ att[e] = "AUTHORIZED" /\ Affordable(plan[e])
      /\ att' = [att EXCEPT ![e] = "DISPATCHING"]
      /\ charge' = [charge EXCEPT ![e] = _request_consumption_amount(plan[e])]
      /\ proc' = [proc EXCEPT !.step = "invoke"]
  BY DEF Dispatch
<1>2. e \in Exp /\ count[e] = 0
  BY <1>1 DEF IInv, ProcInv
<1>3. /\ IsProc(proc') /\ proc'.step = "invoke" /\ proc'.exp = e
      /\ proc'.envelope = proc.envelope /\ proc'.secret = proc.secret
  BY <1>1 DEF IInv, Typed, IsProc, Step
<1>4. charge'[e] = _request_consumption_amount(plan[e]) /\ charge'[e] \in Nat
  BY <1>1, <1>2, ChargeCovers DEF IInv, Typed
<1>5. Typed'
  <2>1. PICK n \in Nat : charge' = [charge EXCEPT ![e] = n]
    BY <1>1, ChargeCovers
  <2>2. charge \in [Exp -> Int] /\ n \in Int
    BY DEF IInv, Typed
  <2>3. charge' \in [Exp -> Int]
    BY <2>1, <2>2
  <2> QED
    BY <1>1, <1>3, <2>3 DEF IInv, Typed
<1>6. att'[e] = "DISPATCHING" /\ \A x \in Exp : x # e => att'[x] = att[x]
  BY <1>1, <1>2 DEF IInv, Typed
<1>7. FreshInv' /\ SentInv' /\ LoginInv'
  BY <1>1, <1>2, <1>6 DEF IInv, FreshInv, SentInv, Unsent, LoginInv, IsLogin, BoundTo
<1>8. ProcInv'
  <2>1. att'[e] \notin Unsent /\ result'[e] = NoAnswer /\ count'[e] = 0
    BY <1>1, <1>2, <1>6 DEF IInv, ProcInv, Unsent
  <2>2. ~ChecksEach(plan'[e].cap) /\ plan'[e].cap # "browser.page" =>
           charge'[e] >= Len(Planned(plan'[e].cap, plan'[e]))
    BY <1>1, <1>4, ChargeCovers
  <2> QED
    BY <1>2, <1>3, <1>4, <2>1, <2>2 DEF ProcInv, Unsent
<1>9. EnvelopeInv' /\ SendInv' /\ ReplyInv'
  BY <1>1, <1>3 DEF IInv, EnvelopeInv, HeldEnvelope, SendInv, ReplyInv
<1>10. BoundInv'
  BY <1>1, <1>3 DEF IInv, BoundInv, BoundTo, UsesSession
<1>11. SessionInv'
  BY <1>1 DEF IInv, SessionInv, LoggedIn, Refused, IsLogin, BoundTo
<1>12. RateInv' /\ ContactWithinScope'
  BY <1>1 DEF IInv, RateInv, InWindow, ContactWithinScope
<1>13. RequestsWithinCharge'
  BY <1>1, <1>2, <1>4 DEF IInv, Typed, RequestsWithinCharge
<1> QED
  BY <1>5, <1>7, <1>8, <1>9, <1>10, <1>11, <1>12, <1>13 DEF IInv

(* A worker's own check ends with the envelope; without one, or without the
   cookie of its session, no worker goes on. *)
LEMMA PreflightAllows ==
    ASSUME NEW r, NEW cap, cap \in HTTP_SCOPE_CAPABILITIES, Preflight(cap, r) = Go
    PROVE  /\ cap # "browser.page" /\ ~ChecksEach(cap) => envelope_allows(r.envelope, r.url)
           /\ r.envelope # NoEnvelope
           /\ cap \in {"http.transaction", "browser.page"} /\ r.session # "NONE" => r.secret
<1>1. CASE cap = "http.transaction"
  BY <1>1 DEF Preflight, execute_http_transaction, Go
<1>2. CASE cap = "http.authentication"
  BY <1>2 DEF Preflight, execute_http_authentication, Go
<1>3. CASE cap = "http.raw_exchange"
  BY <1>3 DEF Preflight, execute_http_raw_exchange, Go
<1>4. CASE cap = "http.authorization.differential"
  BY <1>4 DEF Preflight, execute_http_authorization, Go, ChecksEach
<1>5. CASE cap = "http.state_transition"
  BY <1>5 DEF Preflight, execute_http_state_transition, Go, ChecksEach
<1>6. CASE cap = "browser.page"
  BY <1>6 DEF Preflight, execute_browser_page, Go
<1> QED
  BY <1>1, <1>2, <1>3, <1>4, <1>5, <1>6 DEF HTTP_SCOPE_CAPABILITIES

LEMMA PlanFacts ==
    ASSUME Typed, NEW e \in Exp
    PROVE  plan[e].url \in RawUrl /\ plan[e].mode \in STRING
  BY InputAssumption DEF Typed

LEMMA StartsKeeps ==
    ASSUME IInv, WorkerStarts
    PROVE  IInv'
<1> PICK e : e = proc.exp
  OBVIOUS
<1>1. /\ UNCHANGED <<now, plan, scope, rows, sent, count>>
      /\ proc.step = "invoke" /\ plan[e].cap \in HTTP_SCOPE_CAPABILITIES
      /\ Preflight(plan[e].cap, WorkerRequest(e)) = Go
      /\ proc' = [proc EXCEPT !.step = "send", !.index = 1]
  BY DEF WorkerStarts
<1>2. UNCHANGED <<att, authAt, session, charge, result>>
  BY <1>1 DEF rows
<1>3. e \in Exp /\ count[e] = 0 /\ att[e] \notin Unsent /\ result[e] = NoAnswer
  BY <1>1 DEF IInv, ProcInv
<1>4. /\ IsProc(proc') /\ proc'.step = "send" /\ proc'.exp = e
      /\ proc'.envelope = proc.envelope /\ proc'.secret = proc.secret /\ proc'.index = 1
  BY <1>1 DEF IInv, Typed, IsProc, Step
<1>5. Typed'
  BY <1>1, <1>2, <1>4 DEF IInv, Typed
<1>6. FreshInv' /\ SentInv' /\ LoginInv'
  BY <1>1, <1>2 DEF IInv, FreshInv, SentInv, LoginInv, IsLogin, BoundTo
<1>7. ProcInv'
  BY <1>1, <1>2, <1>3, <1>4 DEF IInv, ProcInv, Unsent
<1>8. /\ WorkerRequest(e).envelope = proc.envelope /\ WorkerRequest(e).url = plan[e].url
      /\ WorkerRequest(e).session = plan[e].session /\ WorkerRequest(e).secret = proc.secret
  BY DEF WorkerRequest
<1>9. /\ plan[e].cap # "browser.page" /\ ~ChecksEach(plan[e].cap) =>
            envelope_allows(proc.envelope, plan[e].url)
      /\ proc.envelope # NoEnvelope /\ (UsesSession(plan[e]) => proc.secret)
  BY <1>1, <1>8, PreflightAllows DEF UsesSession
<1>10. EnvelopeInv'
  <2>1. proc.envelope # NoEnvelope
    BY <1>9
  <2>2. HeldEnvelope(e)
    BY <1>1, <2>1 DEF IInv, EnvelopeInv
  <2> QED
    BY <1>1, <1>2, <1>4, <2>2 DEF EnvelopeInv, HeldEnvelope
<1>11. SendInv'
  <2>1. Len(Planned(plan[e].cap, plan[e])) \in Nat \ {0}
    BY <1>3, PlanFacts, PlannedPaths DEF IInv, Lexeme
  <2>2. plan[e].cap # "browser.page" /\ ~ChecksEach(plan[e].cap) =>
           envelope_allows(proc.envelope, plan[e].url)
    BY <1>9
  <2>3. UsesSession(plan[e])' => proc'.secret
    BY <1>1, <1>4, <1>9 DEF UsesSession
  <2> QED
    BY <1>1, <1>3, <1>4, <2>1, <2>2, <2>3 DEF SendInv
<1>12. BoundInv' /\ ReplyInv'
  BY <1>1, <1>2, <1>4 DEF IInv, BoundInv, BoundTo, ReplyInv, UsesSession
<1>13. SessionInv'
  BY <1>1, <1>2 DEF IInv, SessionInv, LoggedIn, Refused, IsLogin, BoundTo
<1>14. RateInv' /\ ContactWithinScope' /\ RequestsWithinCharge'
  BY <1>1, <1>2 DEF IInv, RateInv, InWindow, ContactWithinScope, RequestsWithinCharge
<1> QED
  BY <1>5, <1>6, <1>7, <1>10, <1>11, <1>12, <1>13, <1>14 DEF IInv

(* A request to v of the experiment at work, which stays at work on the next
   one or has its reply. *)
Sends(v) ==
    LET e == proc.exp IN
    /\ UNCHANGED <<now, plan, scope, rows>> /\ Contact(v)
    /\ proc.step = "send" /\ v.path \in Path /\ envelope_allows(proc.envelope, v)
    /\ ~ChecksEach(plan[e].cap) => proc.index <= charge[e]
    /\ IsProc(proc') /\ proc'.exp = e /\ proc'.secret = proc.secret
    /\ \/ proc'.step = "answered"
       \/ /\ proc'.step = "send" /\ proc'.envelope = proc.envelope /\ proc'.index = proc.index + 1
          /\ plan[e].cap # "browser.page" => proc.index < Len(Planned(plan[e].cap, plan[e]))

LEMMA SendsKeeps ==
    ASSUME IInv, NEW v, Sends(v)
    PROVE  IInv'
<1> PICK e : e = proc.exp
  OBVIOUS
<1>1. /\ UNCHANGED <<now, plan, scope, att, authAt, session, charge, result>>
      /\ proc.step = "send" /\ v.path \in Path /\ envelope_allows(proc.envelope, v)
      /\ ~ChecksEach(plan[e].cap) => proc.index <= charge[e]
      /\ sent' = sent \cup {[exp |-> e, url |-> v]} /\ count' = [count EXCEPT ![e] = @ + 1]
  BY DEF Sends, rows, Contact
<1>2. /\ IsProc(proc') /\ proc'.exp = e /\ proc'.secret = proc.secret
      /\ \/ proc'.step = "answered"
         \/ /\ proc'.step = "send" /\ proc'.envelope = proc.envelope /\ proc'.index = proc.index + 1
            /\ plan[e].cap # "browser.page" => proc.index < Len(Planned(plan[e].cap, plan[e]))
  BY DEF Sends
<1>3. /\ e \in Exp /\ att[e] \notin Unsent /\ result[e] = NoAnswer /\ proc.index \in Nat
      /\ count[e] = proc.index - 1 /\ plan[e].cap \in HTTP_SCOPE_CAPABILITIES
      /\ HeldEnvelope(e) /\ (UsesSession(plan[e]) => proc.secret)
  BY <1>1 DEF IInv, Typed, IsProc, ProcInv, SendInv, EnvelopeInv
<1>4. count' \in [Exp -> Nat] /\ count'[e] = proc.index /\ \A x \in Exp : x # e => count'[x] = count[x]
  BY <1>1, <1>3 DEF IInv, Typed
<1>5. Typed'
  BY <1>1, <1>2, <1>4 DEF IInv, Typed
<1>6. FreshInv' /\ LoginInv'
  BY <1>1, <1>3, <1>4 DEF IInv, FreshInv, LoginInv, IsLogin, BoundTo
<1>7. ProcInv'
  BY <1>1, <1>2, <1>3 DEF IInv, ProcInv, Unsent
<1>8. EnvelopeInv'
  BY <1>1, <1>2, <1>3 DEF EnvelopeInv, HeldEnvelope
<1>9. SendInv'
  <2>1. ASSUME proc'.step = "send"
        PROVE  /\ proc'.index >= 1 /\ count'[e] = proc'.index - 1
               /\ plan[e].cap # "browser.page" => proc'.index <= Len(Planned(plan[e].cap, plan[e]))
               /\ plan[e].cap # "browser.page" /\ ~ChecksEach(plan[e].cap) =>
                     envelope_allows(proc'.envelope, plan[e].url)
    <3>1. proc'.envelope = proc.envelope /\ proc'.index = proc.index + 1
          /\ (plan[e].cap # "browser.page" => proc.index < Len(Planned(plan[e].cap, plan[e])))
      BY <1>2, <2>1
    <3>2. Len(Planned(plan[e].cap, plan[e])) \in Nat
      BY <1>3, PlanFacts, PlannedPaths DEF IInv, Lexeme
    <3> QED
      BY <1>1, <1>3, <1>4, <3>1, <3>2 DEF IInv, SendInv
  <2> QED
    BY <1>1, <1>2, <1>3, <2>1 DEF SendInv, UsesSession
<1>10. BoundInv' /\ ReplyInv'
  BY <1>1, <1>2, <1>3 DEF IInv, BoundInv, BoundTo, ReplyInv, UsesSession
<1>11. SessionInv'
  BY <1>1 DEF IInv, SessionInv, LoggedIn, Refused, IsLogin, BoundTo
<1>12. RateInv'
  BY <1>1 DEF IInv, RateInv, InWindow
<1>13. SentInv'
  BY <1>1, <1>3 DEF IInv, SentInv, Unsent
<1>14. ContactWithinScope'
  <2>1. \A i \in DOMAIN scope : scope[i].prefix \in Seq(Lexeme)
    <3>1. \A i \in DOMAIN scope : scope[i].prefix \in Seq(STRING)
      BY InputAssumption DEF IInv, Typed
    <3> QED
      BY <3>1, SeqMonotonic DEF Lexeme
  <2>2. PICK check, loopback :
           /\ check = evaluate_scope_candidate(Candidate(plan[e]), scope, authAt[e])
           /\ check.decision = "ALLOW"
           /\ proc.envelope = derive_authorized_network_envelope(Candidate(plan[e]), scope, check, loopback)
    BY <1>3 DEF HeldEnvelope
  <2>3. LET u == normalize_url(v)
            doc == Candidate(plan[e])
        IN /\ evaluate_scope_candidate(doc, scope, authAt[e]).decision = "ALLOW"
           /\ u.scheme = doc.scheme /\ u.host = doc.host /\ u.port = doc.port
           /\ ~\E i \in DOMAIN scope : /\ scope[i].effect \in {"DENY", "OUT_OF_SCOPE"}
                                       /\ EnvelopeOrigin(u, scope[i]) /\ Matches(u, scope[i])
    BY <1>1, <2>1, <2>2, EnvelopeSound
  <2>4. [exp |-> e, url |-> v].exp = e /\ [exp |-> e, url |-> v].url = v
    OBVIOUS
  <2> QED
    BY <1>1, <2>3, <2>4 DEF IInv, ContactWithinScope
<1>15. RequestsWithinCharge'
  BY <1>1, <1>3, <1>4 DEF IInv, RequestsWithinCharge
<1> QED
  BY <1>5, <1>6, <1>7, <1>8, <1>9, <1>10, <1>11, <1>12, <1>13, <1>14, <1>15 DEF IInv

LEMMA WorkerSendsKeeps ==
    ASSUME IInv, NEW answer, WorkerSends(answer)
    PROVE  IInv'
<1> PICK e : e = proc.exp
  OBVIOUS
<1> PICK cap : cap = plan[e].cap
  OBVIOUS
<1> PICK v : v = Planned(cap, plan[e])[proc.index]
  OBVIOUS
<1>1. Planned(cap, WorkerRequest(e)) = Planned(cap, plan[e])
  BY PlannedByPlan
<1>2. /\ UNCHANGED <<now, plan, scope, rows>> /\ Contact(v) /\ proc.step = "send"
      /\ cap # "browser.page" /\ (ChecksEach(cap) => envelope_allows(proc.envelope, v))
  BY <1>1 DEF WorkerSends
<1>3. /\ e \in Exp /\ proc.index \in Nat /\ proc.index >= 1
      /\ proc.index <= Len(Planned(cap, plan[e]))
      /\ ~ChecksEach(cap) => envelope_allows(proc.envelope, plan[e].url)
      /\ ~ChecksEach(cap) => charge[e] >= Len(Planned(cap, plan[e]))
  BY <1>2 DEF IInv, Typed, IsProc, ProcInv, SendInv
<1>4. /\ Len(Planned(cap, plan[e])) \in Nat
      /\ \A i \in 1 .. Len(Planned(cap, plan[e])) : Planned(cap, plan[e])[i].path \in Path
  BY <1>3, PlanFacts, PlannedPaths DEF IInv, Lexeme
<1>5. proc.index \in 1 .. Len(Planned(cap, plan[e])) /\ v.path \in Path
  BY <1>3, <1>4
<1>6. ~ChecksEach(cap) => v = plan[e].url
  BY <1>5, PlannedUrls
<1>7. envelope_allows(proc.envelope, v)
  BY <1>2, <1>3, <1>6
<1>8. ~ChecksEach(cap) => proc.index <= charge[e]
  BY <1>3, <1>4 DEF IInv, Typed
<1>9. \/ \E st : Replies(st, answer)
      \/ proc.index # Len(Planned(cap, plan[e])) /\ proc' = [proc EXCEPT !.index = @ + 1]
  BY <1>1 DEF WorkerSends
<1>10. /\ IsProc(proc') /\ proc'.exp = e /\ proc'.secret = proc.secret
       /\ \/ proc'.step = "answered"
          \/ /\ proc'.step = "send" /\ proc'.envelope = proc.envelope /\ proc'.index = proc.index + 1
             /\ proc.index < Len(Planned(cap, plan[e]))
  <2>1. CASE \E st : Replies(st, answer)
    BY <2>1 DEF IInv, Typed, IsProc, Step, Replies
  <2>2. CASE proc.index # Len(Planned(cap, plan[e])) /\ proc' = [proc EXCEPT !.index = @ + 1]
    <3>1. IsProc(proc') /\ proc'.exp = e /\ proc'.step = "send" /\ proc'.secret = proc.secret
      <4>1. proc' = [proc EXCEPT !.index = @ + 1] /\ proc.step = "send" /\ IsProc(proc)
        BY <1>2, <2>2 DEF IInv, Typed
      <4> QED
        BY <4>1 DEF IsProc, Step
    <3>2. proc'.envelope = proc.envelope /\ proc'.index = proc.index + 1
      BY <2>2 DEF IInv, Typed, IsProc
    <3>3. proc.index < Len(Planned(cap, plan[e]))
      BY <1>3, <1>4, <2>2
    <3> QED
      BY <3>1, <3>2, <3>3
  <2> QED
    BY <1>9, <2>1, <2>2
<1>11. Sends(v)
  BY <1>2, <1>5, <1>7, <1>8, <1>10 DEF Sends
<1> QED
  BY <1>11, SendsKeeps

LEMMA BrowserFetchesKeeps ==
    ASSUME IInv, NEW v, BrowserFetches(v)
    PROVE  IInv'
<1> PICK e : e = proc.exp
  OBVIOUS
<1>1. /\ UNCHANGED <<now, plan, scope, rows>> /\ Contact(v) /\ proc.step = "send"
      /\ plan[e].cap = "browser.page" /\ envelope_allows(proc.envelope, v)
      /\ v = plan[e].url \/ v \in Subresources
      /\ proc.index <= charge[e] /\ proc' = [proc EXCEPT !.index = @ + 1]
  BY DEF BrowserFetches
<1>2. e \in Exp
  BY <1>1 DEF IInv, ProcInv
<1>3. v \in RawUrl
  BY <1>1, <1>2, PlanFacts, InputAssumption DEF IInv
<1>4. v.path \in Path
  BY <1>3, RawPath
<1>5. /\ IsProc(proc') /\ proc'.exp = e /\ proc'.step = "send" /\ proc'.secret = proc.secret
      /\ proc'.envelope = proc.envelope /\ proc'.index = proc.index + 1
  BY <1>1 DEF IInv, Typed, IsProc, Step
<1>6. Sends(v)
  BY <1>1, <1>4, <1>5 DEF Sends
<1> QED
  BY <1>6, SendsKeeps

----------------------------------------------------------------------------
(* Ingestion: what it may do to a session row. *)

SameBinding(row, old) ==
    /\ row.identity = old.identity /\ row.run = old.run /\ row.auth = old.auth
    /\ row.origin = old.origin

LEMMA IngestRows ==
    ASSUME IInv, Ingest, NEW e, e = proc.exp, NEW p, p = plan[e], NEW s \in Session
    PROVE  /\ IsRow(session'[s]) /\ SameBinding(session'[s], session[s])
           /\ session[s].state # "NONE" => session'[s].state # "NONE"
           /\ \/ session'[s] = session[s] /\ ~(s = p.session /\ Unauthenticated(p, proc.reply))
              \/ /\ s = p.session /\ p.cap = "http.authentication"
                 /\ session'[s].state = "ACTIVE" => proc.reply.answer = "cookie"
              \/ /\ s = p.session /\ p.cap = "http.transaction"
                 /\ session[s].state = "ACTIVE" /\ session'[s].state = "EXPIRED"
<1>1. proc.step = "ingest" /\ e \in Exp
  BY DEF IInv, Ingest, ProcInv
<1>2. IsRow(session[s]) /\ session = [x \in Session |-> session[x]]
  BY DEF IInv, Typed
<1>3. PICK gone : gone = expire_session_on_unauthenticated_response(p, proc.reply)
  OBVIOUS
<1>4. session'[s] = IF s \in gone THEN [LoginSession(p, proc.reply)[s] EXCEPT !.state = "EXPIRED"]
                    ELSE LoginSession(p, proc.reply)[s]
  BY <1>3 DEF Ingest
<1>5. ASSUME NEW st
      PROVE  LET row == [session[s] EXCEPT !.state = st] IN
             row.state = st /\ IsRow(row) /\ SameBinding(row, session[s])
  <2>1. PICK i, r, a, o, x : session[s] = [state |-> session[s].state, identity |-> i, run |-> r,
                                           auth |-> a, origin |-> o, expires |-> x]
    BY <1>2 DEF IsRow
  <2> QED
    BY <2>1 DEF IsRow, SameBinding
<1>6. SameBinding(session[s], session[s])
  BY DEF SameBinding
<1>7. CASE p.cap = "http.authentication"
  <2>1. gone = {}
    BY <1>3, <1>7 DEF expire_session_on_unauthenticated_response, Unauthenticated
  <2>2. p.session \in Session
    BY <1>1, <1>7, InputAssumption DEF IInv, Typed
  <2>3. session'[s] = LoginSession(p, proc.reply)[s]
    BY <1>4, <2>1
  <2>4. \/ session'[s] = session[s]
        \/ /\ s = p.session /\ session'[s] = [session[s] EXCEPT !.state = "ACTIVE"]
           /\ proc.reply.answer = "cookie"
        \/ s = p.session /\ session'[s] = [session[s] EXCEPT !.state = "FAILED"]
    <3>1. CASE proc.reply.status = "REAUTHORIZATION_REQUIRED"
      BY <2>3, <3>1 DEF LoginSession
    <3>2. CASE proc.reply.status # "REAUTHORIZATION_REQUIRED"
      <4>1. PICK st : /\ st = IF proc.reply.status = "SUCCEEDED" /\ session_established(proc.reply.answer)
                              THEN "ACTIVE" ELSE "FAILED"
                      /\ LoginSession(p, proc.reply) = [session EXCEPT ![p.session].state = st]
        BY <1>7, <3>2 DEF LoginSession
      <4>2. session'[s] = IF s = p.session THEN [session[s] EXCEPT !.state = st] ELSE session[s]
        BY <1>2, <2>2, <2>3, <4>1
      <4> QED
        BY <4>1, <4>2 DEF session_established
    <3> QED
      BY <3>1, <3>2
  <2>5. ~Unauthenticated(p, proc.reply)
    BY <1>7 DEF Unauthenticated
  <2>6. CASE session'[s] = session[s]
    BY <1>2, <1>6, <2>5, <2>6
  <2>7. CASE /\ s = p.session /\ session'[s] = [session[s] EXCEPT !.state = "ACTIVE"]
             /\ proc.reply.answer = "cookie"
    BY <1>5, <1>7, <2>7
  <2>8. CASE s = p.session /\ session'[s] = [session[s] EXCEPT !.state = "FAILED"]
    BY <1>5, <1>7, <2>8
  <2> QED
    BY <2>4, <2>6, <2>7, <2>8
<1>8. CASE p.cap # "http.authentication"
  <2>1. LoginSession(p, proc.reply) = session
    BY <1>8 DEF LoginSession
  <2>2. CASE s \in gone
    <3>1. s = p.session /\ p.cap = "http.transaction" /\ session[s].state = "ACTIVE"
      BY <1>3, <2>2 DEF expire_session_on_unauthenticated_response, Unauthenticated
    <3>2. session'[s] = [session[s] EXCEPT !.state = "EXPIRED"]
      BY <1>4, <2>1, <2>2
    <3> QED
      BY <1>5, <3>1, <3>2
  <2>3. CASE s \notin gone
    <3>1. session'[s] = session[s]
      BY <1>4, <2>1, <2>3
    <3>2. ASSUME s = p.session, Unauthenticated(p, proc.reply)
          PROVE  FALSE
      <4>1. UsesSession(p) /\ proc.reply.answer # "NONE"
        BY <3>2 DEF Unauthenticated, UsesSession
      <4>2. proc.secret
        BY <1>1, <4>1 DEF IInv, ReplyInv
      <4>3. session[s].state = "ACTIVE"
        BY <1>1, <3>2, <4>1, <4>2 DEF IInv, BoundInv
      <4> QED
        BY <1>3, <2>3, <3>2, <4>3 DEF expire_session_on_unauthenticated_response
    <3> QED
      BY <1>2, <1>6, <3>1, <3>2
  <2> QED
    BY <2>2, <2>3
<1> QED
  BY <1>7, <1>8

LEMMA IngestKeeps ==
    ASSUME IInv, Ingest
    PROVE  IInv'
<1>0. PICK e, p : e = proc.exp /\ p = plan[e]
  OBVIOUS
<1>1. /\ UNCHANGED <<now, plan, scope, att, authAt, charge, sent, count>>
      /\ proc.step = "ingest" /\ result' = [result EXCEPT ![e] = proc.reply] /\ proc' = Idle
      /\ session' = [s \in Session |-> session'[s]]
  BY <1>0 DEF Ingest
<1>2. e \in Exp /\ att[e] \notin Unsent /\ result[e].answer = "NONE"
  BY <1>0, <1>1 DEF IInv, ProcInv, NoAnswer
<1>3. /\ result' = [x \in Exp |-> result'[x]] /\ result'[e] = proc.reply
      /\ \A x \in Exp : x # e => result'[x] = result[x]
  BY <1>1, <1>2 DEF IInv, Typed
<1>4. \A s \in Session : IsRow(session'[s])
  BY <1>0, IngestRows
<1>5. Typed'
  BY <1>1, <1>3, <1>4, IdleIsProc DEF IInv, Typed
<1>6. FreshInv' /\ SentInv'
  BY <1>1, <1>2, <1>3 DEF IInv, FreshInv, SentInv
<1>7. ProcInv' /\ EnvelopeInv' /\ SendInv' /\ ReplyInv' /\ BoundInv'
  BY <1>1, IdleIsProc DEF ProcInv, EnvelopeInv, SendInv, ReplyInv, BoundInv
<1>8. RateInv' /\ ContactWithinScope' /\ RequestsWithinCharge'
  BY <1>1 DEF IInv, RateInv, InWindow, ContactWithinScope, RequestsWithinCharge
<1>9. LoginInv'
  <2> SUFFICES ASSUME NEW x \in Exp, IsLogin(x), att[x] # "NONE"
               PROVE  /\ session'[plan[x].session].state # "NONE"
                      /\ att[x] = "AUTHORIZED" =>
                            session'[plan[x].session] = session[plan[x].session]
    BY <1>1 DEF IInv, LoginInv, IsLogin, BoundTo
  <2>1. plan[x].session \in Session
    BY InputAssumption DEF IsLogin, IInv, Typed
  <2>2. session'[plan[x].session].state # "NONE"
    BY <1>0, <2>1, IngestRows DEF IInv, LoginInv
  <2>3. ASSUME att[x] = "AUTHORIZED"
        PROVE  session'[plan[x].session] = session[plan[x].session]
    <3>1. x # e /\ session[plan[x].session].state = "AUTHENTICATING"
      BY <1>2, <2>3 DEF Unsent, IInv, LoginInv
    <3>2. ~(plan[x].session = p.session /\ p.cap = "http.authentication")
      BY <1>0, <1>2, <3>1 DEF IInv, LoginInv, IsLogin, Unsent
    <3> QED
      BY <1>0, <2>1, <3>1, <3>2, IngestRows
  <2> QED
    BY <2>2, <2>3
<1>10. SessionInv'
  <2> SUFFICES ASSUME NEW s \in Session
               PROVE  /\ session'[s].state = "ACTIVE" /\ session'[s].run = "this" =>
                             LoggedIn(s, session[s])'
                      /\ Refused(s)' => session'[s].state = "EXPIRED"
    BY DEF SessionInv
  <2>1. /\ SameBinding(session'[s], session[s])
        /\ \/ session'[s] = session[s] /\ ~(s = p.session /\ Unauthenticated(p, proc.reply))
           \/ /\ s = p.session /\ p.cap = "http.authentication"
              /\ session'[s].state = "ACTIVE" => proc.reply.answer = "cookie"
           \/ s = p.session /\ p.cap = "http.transaction" /\ session'[s].state = "EXPIRED"
    BY <1>0, IngestRows
  <2>2. s = p.session /\ p.cap = "http.authentication" =>
           session[s].state = "AUTHENTICATING" /\ BoundTo(session[s], p)
    BY <1>0, <1>1 DEF IInv, BoundInv
  <2>3. ASSUME session'[s].state = "ACTIVE", session'[s].run = "this"
        PROVE  LoggedIn(s, session[s])'
    <3>1. CASE session[s].state = "ACTIVE"
      <4>1. PICK x \in Exp : /\ IsLogin(x) /\ plan[x].session = s
                             /\ BoundTo(session[s], plan[x]) /\ result[x].answer = "cookie"
        BY <2>1, <2>3, <3>1 DEF IInv, SessionInv, LoggedIn, SameBinding
      <4>2. result'[x].answer = "cookie" /\ BoundTo(session'[s], plan[x])
        BY <1>2, <1>3, <2>1, <4>1 DEF SameBinding, BoundTo
      <4> QED
        BY <1>1, <4>1, <4>2 DEF LoggedIn, IsLogin, BoundTo
    <3>2. CASE session[s].state # "ACTIVE"
      <4>1. s = p.session /\ p.cap = "http.authentication" /\ proc.reply.answer = "cookie"
        BY <2>1, <2>3, <3>2
      <4>2. result'[e].answer = "cookie" /\ BoundTo(session'[s], plan[e])
        BY <1>0, <1>3, <2>1, <2>2, <4>1 DEF SameBinding, BoundTo
      <4> QED
        BY <1>0, <1>1, <1>2, <4>1, <4>2 DEF LoggedIn, IsLogin, BoundTo
    <3> QED
      BY <3>1, <3>2
  <2>4. ASSUME Refused(s)'
        PROVE  session'[s].state = "EXPIRED"
    <3>1. PICK x \in Exp : /\ plan[x].cap = "http.transaction" /\ plan[x].session = s
                           /\ result'[x].answer = "unauthorized"
      BY <1>1, <2>4 DEF Refused
    <3>2. CASE x = e
      <4>1. s = p.session /\ Unauthenticated(p, proc.reply)
        BY <1>0, <1>3, <3>1, <3>2, BoundsAssumption DEF Unauthenticated
      <4> QED
        BY <1>0, <2>1, <3>1, <3>2, <4>1
    <3>3. CASE x # e
      <4>1. Refused(s)
        BY <1>3, <3>1, <3>3 DEF Refused
      <4>2. session[s].state = "EXPIRED"
        BY <4>1 DEF IInv, SessionInv
      <4> QED
        BY <2>1, <2>2, <4>2
    <3> QED
      BY <3>2, <3>3
  <2> QED
    BY <2>3, <2>4
<1> QED
  BY <1>5, <1>6, <1>7, <1>8, <1>9, <1>10 DEF IInv

----------------------------------------------------------------------------

LEMMA Initially ==
    Init => IInv
<1> SUFFICES ASSUME Init
             PROVE  IInv
  OBVIOUS
<1>1. /\ now = 1 /\ plan \in PlanChoices /\ scope \in RuleChoices /\ sent = {} /\ proc = Idle
      /\ att = [e \in Exp |-> "NONE"] /\ authAt = [e \in Exp |-> -1]
      /\ session = Before /\ charge = [e \in Exp |-> 0]
      /\ count = [e \in Exp |-> 0] /\ result = [e \in Exp |-> NoAnswer]
  BY DEF Init
<1>2. Typed
  <2>1. session \in [Session -> SessionRow]
    BY <1>1, SessionAssumption
  <2>2. \A s \in Session : IsRow(session[s])
    BY <2>1 DEF IsRow, SessionRow
  <2> QED
    BY <1>1, <2>1, <2>2, IdleIsProc DEF Typed
<1>3. FreshInv /\ SentInv /\ ContactWithinScope /\ LoginInv
  BY <1>1 DEF FreshInv, SentInv, ContactWithinScope, LoginInv
<1>4. ProcInv /\ EnvelopeInv /\ SendInv /\ ReplyInv /\ BoundInv
  BY <1>1, IdleIsProc DEF ProcInv, EnvelopeInv, SendInv, ReplyInv, BoundInv
<1>5. SessionInv
  <2>1. \A s \in Session : ~(session[s].state = "ACTIVE" /\ session[s].run = "this")
    BY <1>1, SessionAssumption DEF NoSession
  <2> QED
    BY <1>1, <2>1 DEF SessionInv, Refused, NoAnswer
<1>6. RateInv
  <2>1. \A t \in Nat : InWindow(t) = {}
    BY <1>1 DEF InWindow
  <2> QED
    BY <2>1, FS_EmptySet, BoundsAssumption DEF RateInv
<1>7. RequestsWithinCharge
  BY <1>1 DEF RequestsWithinCharge
<1> QED
  BY <1>2, <1>3, <1>4, <1>5, <1>6, <1>7 DEF IInv

(* An outcome never makes an attempt one that was not dispatched. *)
LEMMA ClassifiedIsMade ==
    ASSUME NEW status
    PROVE  _classify_invocation(status)[1] \notin Unsent
  BY DEF _classify_invocation, Unsent

LEMMA Inductive ==
    IInv /\ [Next]_vars => IInv'
<1> SUFFICES ASSUME IInv, [Next]_vars
             PROVE  IInv'
  OBVIOUS
<1>0. Typed /\ IsProc(proc)
  BY DEF IInv, Typed
<1>1. CASE Tick
  <2>1. Quiet
    BY <1>0, <1>1 DEF Quiet, Tick, rows, Typed
  <2> QED
    BY <2>1, QuietKeeps
<1>2. CASE Crash \/ DispatchDenied \/ RecordFails \/ IngestFails
  <2>1. Quiet
    BY <1>0, <1>2, IdleIsProc
    DEF Quiet, Crash, DispatchDenied, RecordFails, IngestFails, rows, Typed
  <2> QED
    BY <2>1, QuietKeeps
<1>3. CASE \E e \in Exp : RateLimited(e) \/ Deny(e) \/ MarkUnknown(e)
  <2>1. Quiet
    BY <1>0, <1>3 DEF Quiet, RateLimited, Deny, MarkUnknown, Typed, Unsent
  <2> QED
    BY <2>1, QuietKeeps
<1>4. CASE \E e \in Exp : Allow(e) \/ _resume_authorized(e)
  BY <1>4, AllowKeeps, ResumeKeeps
<1>5. CASE Dispatch
  BY <1>5, DispatchKeeps
<1>6. CASE WorkerStarts
  BY <1>6, StartsKeeps
<1>7. CASE WorkerRefuses \/ WorkerStops \/ _execute_echo
  <2>1. PICK status : Replies(status, "NONE")
    BY <1>7 DEF WorkerRefuses, WorkerStops, _execute_echo
  <2>2. proc.step \in {"invoke", "send"} /\ UNCHANGED <<now, plan, scope, rows, material, sent, count>>
    BY <1>7 DEF WorkerRefuses, WorkerStops, _execute_echo
  <2> QED
    BY <2>1, <2>2, RepliesKeeps
<1>8. CASE \E a \in Answer : WorkerSends(a)
  BY <1>8, WorkerSendsKeeps
<1>9. CASE \E u \in Subresources \cup {plan[e].url : e \in Exp} : BrowserFetches(u)
  BY <1>9, BrowserFetchesKeeps
<1>10. CASE \E s \in {"SUCCEEDED", "BUDGET_EXHAUSTED", "BLOCKED", "REAUTHORIZATION_REQUIRED"} :
               BrowserEnds(s)
  BY <1>10, RepliesKeeps DEF BrowserEnds
<1>11. CASE \E s \in TransportStatus : TransportFails(s)
  BY <1>11, RepliesKeeps DEF TransportFails
<1>12. CASE RecordOutcome
  <2>1. PICK e, states : e = proc.exp /\ states = _classify_invocation(proc.reply.status)
    OBVIOUS
  <2>2. /\ UNCHANGED <<now, plan, scope, authAt, session, charge, sent, count, result>>
        /\ proc.step = "answered" /\ att' = [att EXCEPT ![e] = states[1]]
        /\ proc' = Idle \/ proc' = [proc EXCEPT !.step = "ingest"]
    BY <1>12, <2>1 DEF RecordOutcome
  <2>3. e \in Exp /\ att[e] \notin Unsent /\ states[1] \notin Unsent
    BY <2>1, <2>2, ClassifiedIsMade DEF IInv, ProcInv
  <2>4. /\ IsProc(proc')
        /\ \/ proc'.step = "idle"
           \/ /\ proc'.step = "ingest" /\ proc'.exp = proc.exp
              /\ proc'.secret = proc.secret /\ proc'.reply = proc.reply
    BY <1>0, <2>2, IdleIsProc DEF IsProc, Step
  <2>5. /\ att' = [x \in Exp |-> att'[x]]
        /\ \A x \in Exp : att'[x] = att[x] \/ (att[x] \notin Unsent /\ att'[x] \notin Unsent)
    BY <1>0, <2>2, <2>3 DEF Typed
  <2>6. Quiet
    BY <1>0, <2>2, <2>4, <2>5 DEF Quiet, Typed
  <2> QED
    BY <2>6, QuietKeeps
<1>13. CASE Ingest
  BY <1>13, IngestKeeps
<1>14. CASE IngestRejected
  <2>1. PICK e : e = proc.exp
    OBVIOUS
  <2>2. /\ UNCHANGED <<now, plan, scope, authAt, session, charge, sent, count, result>>
        /\ proc.step = "ingest" /\ att' = [att EXCEPT ![e] = "FAILED"] /\ proc' = Idle
    BY <1>14, <2>1 DEF IngestRejected
  <2>3. e \in Exp /\ att[e] \notin Unsent /\ "FAILED" \notin Unsent
    BY <2>1, <2>2 DEF IInv, ProcInv, Unsent
  <2>4. /\ att' = [x \in Exp |-> att'[x]]
        /\ \A x \in Exp : att'[x] = att[x] \/ (att[x] \notin Unsent /\ att'[x] \notin Unsent)
    BY <1>0, <2>2, <2>3 DEF Typed
  <2>5. Quiet
    BY <1>0, <2>2, <2>4, IdleIsProc DEF Quiet, Typed
  <2> QED
    BY <2>5, QuietKeeps
<1>15. CASE UNCHANGED vars
  <2>1. Quiet
    BY <1>0, <1>15 DEF Quiet, vars, Typed
  <2> QED
    BY <2>1, QuietKeeps
<1> QED
  BY <1>1, <1>2, <1>3, <1>4, <1>5, <1>6, <1>7, <1>8, <1>9, <1>10, <1>11, <1>12, <1>13, <1>14, <1>15
  DEF Next

(* The inductive invariant holds in every reachable state: the envelope at
   work is the one of an allowed check, the charge covers the plan, and a
   cookie at work belongs to a session that is still active. *)
THEOREM Invariance ==
    Spec => []IInv
  BY Initially, Inductive, PTL DEF Spec

(* Whatever a worker sends stays on the origin of a document that the scope
   allowed when the attempt was authorized, and out of every exclusion that
   names the host: for any rules, plans and requests of a page. *)
THEOREM ContactsStayInScope ==
    Spec => []ContactWithinScope
<1>1. IInv => ContactWithinScope
  BY DEF IInv
<1> QED
  BY <1>1, Invariance, PTL

(* The gate of the authorization transaction keeps every window of the rate
   limit, for any profile. *)
THEOREM RateIsKept ==
    Spec => []RateWindowKept
<1>1. IInv => RateWindowKept
  BY DEF IInv, RateInv, InWindow, RateWindowKept
<1> QED
  BY <1>1, Invariance, PTL

(* A cookie is used only for the identity, the profile and the origin of its
   login in this run, and never after a stored 401 or 403: for any plans, any
   sessions of other runs, and dispatches that are taken up again. *)
THEOREM CookieStaysBound ==
    Spec => []CookieBoundToItsLogin
<1>1. IInv => CookieBoundToItsLogin
  <2> SUFFICES ASSUME IInv, proc.step \in {"granted", "invoke", "send"}, proc.secret,
                      UsesSession(plan[proc.exp])
               PROVE  CookieBoundToItsLogin
    BY DEF CookieBoundToItsLogin
  <2>1. PICK p : p = plan[proc.exp]
    OBVIOUS
  <2>2. session[p.session].state = "ACTIVE" /\ BoundTo(session[p.session], p)
    BY <2>1 DEF IInv, BoundInv
  <2>3. p.session \in Session
    BY <2>1, InputAssumption DEF IInv, Typed, ProcInv, UsesSession
  <2>4. LoggedIn(p.session, session[p.session]) /\ ~Refused(p.session)
    BY <2>2, <2>3 DEF IInv, SessionInv, BoundTo
  <2> QED
    BY <2>1, <2>2, <2>4 DEF CookieBoundToItsLogin, LoggedIn, Refused, BoundTo, IsLogin
<1> QED
  BY <1>1, Invariance, PTL

(* The ledger was charged for every request before it is sent, except for the
   two probes that send four requests for one charge. *)
THEOREM ChargedBeforeSent ==
    Spec => []RequestsWithinCharge
<1>1. IInv => RequestsWithinCharge
  BY DEF IInv
<1> QED
  BY <1>1, Invariance, PTL

-----------------------------------------------------------------------------
(* What Core's decisions, the gates of an execution, promise for every request,
   rule set, budget and approval. *)

(* An approval that lets a request pass is a recorded decision of a human
   about that very subject, and not a rejection (check_approval). *)
Approves(a, subject) ==
    /\ a # NoApproval /\ a.recorded /\ a.actor = "HUMAN_OPERATOR"
    /\ a.subject = subject /\ a.decision # "REJECT"

(* check_approval answers ALLOWED only to such an approval. *)
LEMMA ApprovalIsHuman ==
    ASSUME NEW a, NEW subject, check_approval(a, subject) = "ALLOWED"
    PROVE  Approves(a, subject)
<1>1. a # NoApproval
  BY DEF check_approval
<1>2. a.recorded
  BY <1>1 DEF check_approval
<1> QED
  BY <1>1, <1>2 DEF check_approval, Approves

(***************************************************************************)
(* evaluate_execution says ALLOW only if the capability, the authorization *)
(* source, the scope and the budget were each allowed, the level is not 3  *)
(* and a level above 1 has its human approval.                             *)
(***************************************************************************)
THEOREM AllowPassedEveryCheck ==
    ASSUME NEW r, evaluate_execution(r) = "ALLOW"
    PROVE  /\ r.capability = "ALLOWED" /\ r.source = "ALLOWED" /\ r.budget = "ALLOWED"
           /\ r.scope.decision \notin {"DENY", "REVIEW"}
           /\ r.level # 3
           /\ r.level \in {0, 1} \/ Approves(r.approval, r.subject)
<1>1. r.capability = "ALLOWED"
  BY DEF evaluate_execution
<1>2. r.source = "ALLOWED"
  BY <1>1 DEF evaluate_execution
<1>3. /\ r.scope.decision # "DENY" /\ r.budget = "ALLOWED" /\ r.level # 3
      /\ r.scope.decision # "REVIEW"
      /\ r.level \in {0, 1} \/ check_approval(r.approval, r.subject) = "ALLOWED"
  BY <1>1, <1>2 DEF evaluate_execution
<1> QED
  BY <1>1, <1>2, <1>3, ApprovalIsHuman

(***************************************************************************)
(* check_scope: one matching DENY or OUT_OF_SCOPE rule denies, whatever    *)
(* other rules match, and nothing is allowed without a matching ALLOW.     *)
(***************************************************************************)
THEOREM DenyRuleWins ==
    ASSUME NEW effects \in SUBSET Effect, NEW ambiguous \in BOOLEAN
    PROVE  /\ effects \cap {"DENY", "OUT_OF_SCOPE"} # {}
                => check_scope(effects, ambiguous).decision = "DENY"
           /\ check_scope(effects, ambiguous).decision = "ALLOW"
                => "ALLOW" \in effects /\ ~ambiguous
<1>1. CASE effects \cap {"DENY", "OUT_OF_SCOPE"} # {}
  BY <1>1 DEF check_scope
<1>2. CASE effects \cap {"DENY", "OUT_OF_SCOPE"} = {} /\ ambiguous
  BY <1>2 DEF check_scope
<1>3. CASE effects \cap {"DENY", "OUT_OF_SCOPE"} = {} /\ ~ambiguous
  BY <1>3 DEF check_scope
<1> QED
  BY <1>1, <1>2, <1>3

(***************************************************************************)
(* check_budget allows only while every dimension has a unit left: a limit *)
(* of 0 allows nothing.                                                    *)
(***************************************************************************)
THEOREM AllowedHasAUnitLeft ==
    ASSUME NEW issued \in [Dimension -> Nat], NEW usage \in [Dimension -> Nat],
           NEW same \in BOOLEAN, check_budget(issued, usage, same) = "ALLOWED"
    PROVE  same /\ \A d \in Dimension : usage[d] < issued[d] /\ issued[d] # 0
<1>1. same
  BY DEF check_budget
<1>2. ~\E d \in Dimension : usage[d] >= issued[d]
  BY <1>1 DEF check_budget
<1> SUFFICES ASSUME NEW d \in Dimension PROVE usage[d] < issued[d] /\ issued[d] # 0
  BY <1>1
<1>3. usage[d] \in Nat /\ issued[d] \in Nat
  OBVIOUS
<1> QED
  BY <1>2, <1>3
=============================================================================
