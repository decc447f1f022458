------------------------ MODULE BrowserEngineProofs ------------------------
(***************************************************************************)
(* Proofs about BrowserEngine, for any contexts, bindings, URLs, envelopes *)
(* and limits, and for any number of requests and page events.             *)
(*                                                                         *)
(* The handlers run between the checks of an action and its calls, so the  *)
(* invariant says what holds of every _Runtime at every moment (Sound,     *)
(* Bound) and, of the action under way, that a boundary its page crossed   *)
(* is still pending when the action next looks (Reported).                 *)
(***************************************************************************)
EXTENDS BrowserEngine, TLAPS

(* What a context may still send is within what it was given; a context
   whose page was seen outside is frozen. *)
Sound(r) ==
    /\ r \in Runtime
    /\ r.attempted <= r.limit
    /\ r.sent + (r.limit - r.attempted) <= r.granted
    /\ r.crossed => r.frozen

(* Its cookies and the request it last served are of the session it binds. *)
Bound(r) ==
    /\ r.binding \in Bindings
    /\ r.owner = Cookies(r.binding)
    /\ r.jar \subseteq Cookies(r.binding)

(* A context just made, before its first action begins. *)
Unbegun(r) ==
    /\ r \in Runtime /\ r.binding \in Bindings
    /\ r.jar = {} /\ r.sent = 0 /\ r.granted = 0 /\ r.attempted = 0
    /\ ~r.frozen /\ ~r.crossed

(* Every context there is. *)
EachSound ==
    \A c \in Contexts :
        /\ c \notin Tracked => rt[c] = NoRuntime
        /\ c \in Tracked => IF Fresh(c) THEN Unbegun(rt[c]) ELSE Sound(rt[c]) /\ Bound(rt[c])

(* The request that waits for its context has the session of the lease. *)
SeedMatches == pc = "seed" => Cookies(req.binding) = Cookies(rt[cur].binding)

(* A boundary crossed during an action is pending until the action looks. *)
Reported ==
    pc \in {"goto", "act", "settle", "failed"} /\ rt[cur].crossed => rt[cur].pending # "NONE"

IInv == TypeOK /\ EachSound /\ SeedMatches /\ Reported

----------------------------------------------------------------------------
(* What the operators on a _Runtime make of it. *)

(* The session of a binding is one there is. *)
LEMMA CookiesType ==
    ASSUME NEW b \in Bindings
    PROVE  Cookies(b) \subseteq Sessions
  BY DEF Cookies, Sessions

(* A status pends and nothing else changes. *)
LEMMA PendFacts ==
    ASSUME NEW r, Sound(r), Bound(r), NEW s \in Status \ {"NONE"}
    PROVE  /\ Sound(Pend(r, s)) /\ Bound(Pend(r, s))
           /\ Pend(r, s).pending # "NONE" /\ Pend(r, s).binding = r.binding
           /\ Pend(r, s).inflight = r.inflight
<1> USE DEF Sound, Bound, Pend
<1>1. r \in Runtime
  OBVIOUS
<1>2. Pend(r, s) \in Runtime
  BY <1>1 DEF Runtime
<1> QED
  BY <1>1, <1>2 DEF Runtime

(* A frozen runtime, by itself or because a page was seen outside. *)
LEMMA FreezeFacts ==
    ASSUME NEW r, Sound(r), Bound(r)
    PROVE  /\ Sound(Freeze(r)) /\ Bound(Freeze(r)) /\ Freeze(r).binding = r.binding
           /\ Freeze(r).pending = r.pending
           /\ Sound(Cross(r)) /\ Bound(Cross(r)) /\ Cross(r).binding = r.binding
           /\ Cross(r).pending = r.pending
<1> USE DEF Sound, Bound, Freeze, Cross
<1>1. r \in Runtime
  OBVIOUS
<1>2. Freeze(r) \in Runtime
  BY <1>1 DEF Runtime
<1>3. Cross(r) \in Runtime
  BY <1>1 DEF Runtime
<1> QED
  BY <1>1, <1>2, <1>3 DEF Runtime

(* A denial is something to report. *)
LEMMA DeniedType ==
    ASSUME NEW u
    PROVE  Denied(u) \in Status \ {"NONE"}
  BY DEF Denied, Status

(* An action begins in a runtime that has had none, or sound ones. *)
LEMMA BegunFacts ==
    ASSUME NEW r, r \in Runtime, r.binding \in Bindings,
           r.sent <= r.granted, r.crossed => r.frozen, r.jar \subseteq Cookies(r.binding),
           NEW q \in Request, Cookies(q.binding) = Cookies(r.binding)
    PROVE  /\ Sound(Begun(r, q)) /\ Bound(Begun(r, q))
           /\ Begun(r, q).binding = r.binding
           /\ Begun(r, q).crossed = r.crossed /\ Begun(r, q).frozen = r.frozen
           /\ Begun(r, q).page = r.page
<1>1. q.envelope \in SUBSET Urls /\ q.limit \in Nat /\ q.binding \in Bindings
  BY UrlAssumption DEF Request
<1>2. Cookies(q.binding) \in SUBSET Sessions
  BY <1>1, CookiesType
<1> DEFINE b == Begun(r, q)
<1>3. b \in Runtime
  <2>1. r.granted + q.limit \in Nat
    BY <1>1 DEF Runtime
  <2>2. "NONE" \in Status
    BY DEF Status
  <2> QED
    BY <1>1, <1>2, <2>1, <2>2 DEF Runtime, Begun
<1>4. /\ b.binding = r.binding /\ b.crossed = r.crossed /\ b.frozen = r.frozen
      /\ b.page = r.page /\ b.jar = r.jar /\ b.sent = r.sent
      /\ b.attempted = 0 /\ b.limit = q.limit /\ b.owner = Cookies(q.binding)
      /\ b.granted = r.granted + q.limit
  BY DEF Runtime, Begun
<1>5. r.sent \in Nat /\ r.granted \in Nat
  BY DEF Runtime
<1>6. Sound(b)
  <2> HIDE DEF b
  <2> QED
    BY <1>1, <1>3, <1>4, <1>5 DEF Sound
<1>7. Bound(b)
  <2> HIDE DEF b
  <2> QED
    BY <1>4 DEF Bound
<1> QED
  BY <1>4, <1>6, <1>7

(* The guard of the requests keeps a runtime within its limit, and what it
   refuses it reports. *)
LEMMA RoutedFacts ==
    ASSUME NEW r, Sound(r), Bound(r), NEW u \in Urls
    PROVE  /\ Sound(Routed(r, u)) /\ Bound(Routed(r, u))
           /\ Routed(r, u).binding = r.binding
           /\ Routed(r, u).crossed = r.crossed
           /\ r.pending # "NONE" => Routed(r, u).pending # "NONE"
<1>0. r \in Runtime
  BY DEF Sound
<1>1. CASE r.attempted >= r.limit
  <2>1. Routed(r, u) = Pend(r, "BUDGET_EXHAUSTED")
    BY <1>1 DEF Routed
  <2>2. Pend(r, "BUDGET_EXHAUSTED").crossed = r.crossed
    BY <1>0 DEF Pend, Runtime
  <2> QED
    BY <2>1, <2>2, PendFacts DEF Status
<1> DEFINE s == [r EXCEPT !.attempted = @ + 1]
<1>2. CASE ~(r.attempted >= r.limit) /\ u \notin r.envelope
  <2>1. Routed(r, u) = Pend(s, Denied(u))
    BY <1>2 DEF Routed
  <2>2. s \in Runtime /\ s.crossed = r.crossed /\ s.binding = r.binding
        /\ s.frozen = r.frozen /\ s.attempted = r.attempted + 1 /\ s.limit = r.limit
        /\ s.sent = r.sent /\ s.granted = r.granted /\ s.owner = r.owner /\ s.jar = r.jar
    BY <1>0 DEF Runtime
  <2>3. Sound(s)
    <3> HIDE DEF s
    <3> QED
      BY <1>0, <1>2, <2>2 DEF Sound, Runtime
  <2>4. Bound(s)
    <3> HIDE DEF s
    <3> QED
      BY <2>2 DEF Bound
  <2>5. Pend(s, Denied(u)).crossed = s.crossed
    BY <2>2 DEF Pend, Runtime
  <2> HIDE DEF s
  <2> QED
    BY <2>1, <2>2, <2>3, <2>4, <2>5, PendFacts, DeniedType
<1> DEFINE t == [r EXCEPT !.attempted = @ + 1, !.sent = @ + 1, !.inflight = @ \cup {u}]
<1>3. CASE ~(r.attempted >= r.limit) /\ u \in r.envelope
  <2>1. Routed(r, u) = t
    BY <1>3 DEF Routed
  <2>2. t \in Runtime /\ t.crossed = r.crossed /\ t.binding = r.binding
        /\ t.frozen = r.frozen /\ t.attempted = r.attempted + 1 /\ t.limit = r.limit
        /\ t.sent = r.sent + 1 /\ t.granted = r.granted /\ t.owner = r.owner /\ t.jar = r.jar
        /\ t.pending = r.pending
    <3>1. r.attempted + 1 \in Nat /\ r.sent + 1 \in Nat /\ r.inflight \cup {u} \in SUBSET Urls
      BY <1>0 DEF Runtime
    <3> QED
      BY <1>0, <3>1 DEF Runtime
  <2> HIDE DEF t
  <2>3. Sound(t)
    BY <1>0, <1>3, <2>2 DEF Sound, Runtime
  <2>4. Bound(t)
    BY <2>2 DEF Bound
  <2> QED
    BY <2>1, <2>2, <2>3, <2>4
<1> QED
  BY <1>1, <1>2, <1>3

(* Nothing that counts depends on the page, the fingerprint, what is in
   flight or whether a navigation was committed. *)
LEMMA PageFacts ==
    ASSUME NEW r, Sound(r), Bound(r), NEW s \in Runtime,
           s.binding = r.binding, s.frozen = r.frozen, s.crossed = r.crossed,
           s.limit = r.limit, s.attempted = r.attempted, s.sent = r.sent,
           s.granted = r.granted, s.jar = r.jar, s.owner = r.owner
    PROVE  Sound(s) /\ Bound(s)
  BY DEF Sound, Bound

----------------------------------------------------------------------------
(* The parts of a step. *)

(* A context in _runtimes is one there is, and its runtime is sound. *)
LEMMA TrackedFacts ==
    ASSUME IInv, NEW c \in Tracked
    PROVE  /\ c \in Contexts /\ rt[c] \in Runtime /\ rt[c].binding \in Bindings
           /\ Fresh(c) => Unbegun(rt[c])
           /\ ~Fresh(c) => Sound(rt[c]) /\ Bound(rt[c])
<1>1. c \in Contexts
  BY DEF IInv, TypeOK
<1> QED
  BY <1>1 DEF IInv, TypeOK, EachSound

(* What a step that replaces one runtime by a sound one leaves of the rest. *)
LEMMA OneChanged ==
    ASSUME IInv, NEW c \in Tracked, NEW r, rt' = [rt EXCEPT ![c] = r],
           Sound(r), Bound(r), order' = order, used' = used,
           \A d \in Contexts : Fresh(d)' <=> Fresh(d) /\ d # c
    PROVE  /\ EachSound' /\ rt'[c] = r
           /\ \A d \in Contexts : d # c => rt'[d] = rt[d]
           /\ order' \in Seq(Contexts) /\ (used \subseteq Contexts)' /\ (Tracked \subseteq used)'
           /\ (\A i, j \in 1..Len(order) : order[i] = order[j] => i = j)'
           /\ (Len(order) <= MaxContexts)'
           /\ rt' \in [Contexts -> Runtime]
           /\ (\A d \in Tracked : rt[d].binding \in Bindings)'
<1>1. c \in Contexts /\ rt \in [Contexts -> Runtime]
  BY TrackedFacts DEF IInv, TypeOK
<1>2. r \in Runtime /\ r.binding \in Bindings
  BY DEF Sound, Bound
<1>3. rt'[c] = r /\ \A d \in Contexts : d # c => rt'[d] = rt[d]
  BY <1>1
<1>4. rt' \in [Contexts -> Runtime]
  BY <1>1, <1>2
<1>5. Tracked' = Tracked
  BY DEF Tracked
<1>6. EachSound'
  <2> SUFFICES ASSUME NEW d \in Contexts
               PROVE  /\ d \notin Tracked => rt'[d] = NoRuntime
                      /\ d \in Tracked => IF Fresh(d)' THEN Unbegun(rt'[d])
                                          ELSE Sound(rt'[d]) /\ Bound(rt'[d])
    BY <1>5 DEF EachSound, Unbegun, Sound, Bound, Cookies
  <2>1. CASE d = c
    BY <1>3, <2>1
  <2>2. CASE d # c
    BY <1>3, <2>2 DEF IInv, EachSound
  <2> QED
    BY <2>1, <2>2
<1>7. (\A d \in Tracked : rt[d].binding \in Bindings)'
  BY <1>1, <1>2, <1>3, <1>5 DEF IInv, TypeOK
<1> QED
  BY <1>3, <1>4, <1>5, <1>6, <1>7 DEF IInv, TypeOK

(* A handler keeps the invariant if it keeps its runtime sound, does not
   rebind it, and reports what it sees. *)
LEMMA HandlerStep ==
    ASSUME IInv, NEW c \in Contexts, Handling(c), NEW r, rt' = [rt EXCEPT ![c] = r],
           Sound(r), Bound(r), r.binding = rt[c].binding,
           r.crossed => r.pending # "NONE" \/ (rt[c].crossed /\ rt[c].pending = "NONE")
    PROVE  IInv'
<1>1. c \in Tracked /\ ~Fresh(c) /\ pc' = pc /\ cur' = cur /\ req' = req
  BY DEF Handling
<1>2. \A d \in Contexts : Fresh(d)' <=> Fresh(d) /\ d # c
  BY <1>1 DEF Fresh
<1>3. order' = order /\ used' = used /\ engine' = engine /\ answer' = answer
      /\ actions' = actions /\ events' = events + 1
  BY DEF Handling
<1>4. /\ EachSound' /\ rt'[c] = r
      /\ \A d \in Contexts : d # c => rt'[d] = rt[d]
      /\ order' \in Seq(Contexts) /\ (used \subseteq Contexts)' /\ (Tracked \subseteq used)'
      /\ (\A i, j \in 1..Len(order) : order[i] = order[j] => i = j)'
      /\ (Len(order) <= MaxContexts)'
      /\ rt' \in [Contexts -> Runtime]
      /\ (\A d \in Tracked : rt[d].binding \in Bindings)'
  BY <1>1, <1>2, <1>3, OneChanged
<1>5. Tracked' = Tracked /\ pc # "idle" /\ cur \in Tracked /\ cur \in Contexts
  BY <1>3, TrackedFacts DEF Handling, Tracked, IInv, TypeOK
<1>6. TypeOK'
  BY <1>1, <1>3, <1>4, <1>5 DEF IInv, TypeOK
<1>7. SeedMatches'
  <2>1. rt'[cur].binding = rt[cur].binding
    BY <1>4, <1>5
  <2> QED
    BY <1>1, <2>1 DEF IInv, SeedMatches, Cookies
<1>8. Reported'
  BY <1>1, <1>4, <1>5 DEF IInv, Reported
<1> QED
  BY <1>4, <1>6, <1>7, <1>8 DEF IInv

(* A step of the action for c keeps the invariant if it keeps its runtime
   sound, and if a boundary that was crossed is pending where it goes on. *)
LEMMA ActionStep ==
    ASSUME IInv, NEW c \in Tracked, NEW r, rt' = [rt EXCEPT ![c] = r],
           Sound(r), Bound(r), order' = order, used' = used, engine' = engine,
           actions' \in Nat, events' \in Nat, answer' \in Status,
           \/ pc' = "idle" /\ cur' = None
           \/ pc' \in PC \ {"idle", "seed"} /\ cur' = c,
           req' = None, pc = "idle" \/ cur = c,
           pc' \in {"goto", "act", "settle", "failed"} /\ r.crossed => r.pending # "NONE"
    PROVE  IInv'
<1>1. \A d \in Contexts : Fresh(d)' <=> Fresh(d) /\ d # c
  BY DEF Fresh
<1>2. /\ EachSound' /\ rt'[c] = r
      /\ order' \in Seq(Contexts) /\ (used \subseteq Contexts)' /\ (Tracked \subseteq used)'
      /\ (\A i, j \in 1..Len(order) : order[i] = order[j] => i = j)'
      /\ (Len(order) <= MaxContexts)'
      /\ rt' \in [Contexts -> Runtime]
      /\ (\A d \in Tracked : rt[d].binding \in Bindings)'
  BY <1>1, OneChanged
<1>3. Tracked' = Tracked
  BY DEF Tracked
<1>4. TypeOK'
  BY <1>2, <1>3 DEF IInv, TypeOK, PC
<1>5. SeedMatches' /\ Reported'
  BY <1>2 DEF SeedMatches, Reported
<1> QED
  BY <1>2, <1>4, <1>5 DEF IInv

(* Where a call waits, there is a context, and its runtime is sound. *)
LEMMA CurFacts ==
    ASSUME IInv, pc # "idle"
    PROVE  /\ cur \in Tracked /\ cur \in Contexts /\ rt[cur] \in Runtime
           /\ pc # "seed" => /\ ~Fresh(cur) /\ req = None
                             /\ Sound(rt[cur]) /\ Bound(rt[cur])
           /\ rt = [rt EXCEPT ![cur] = rt[cur]]
<1>1. cur \in Tracked
  BY DEF IInv, TypeOK
<1>2. rt \in [Contexts -> Runtime] /\ (pc # "seed" => req = None)
  BY DEF IInv, TypeOK
<1>3. pc # "seed" => ~Fresh(cur)
  BY DEF Fresh
<1> QED
  BY <1>1, <1>2, <1>3, TrackedFacts

----------------------------------------------------------------------------
(* The actions. *)

(* Every handler keeps the invariant. *)
LEMMA HandleInductive ==
    ASSUME IInv, NEW c \in Contexts, Handle(c)
    PROVE  IInv'
<1>1. ASSUME Handling(c)
      PROVE  Sound(rt[c]) /\ Bound(rt[c]) /\ rt[c] \in Runtime
  BY <1>1, TrackedFacts DEF Handling
<1>2. CASE OnPopup(c)
  <2> DEFINE p == Pend(rt[c], "REAUTHORIZATION_REQUIRED")
  <2>1. Handling(c) /\ rt' = [rt EXCEPT ![c] = Cross(p)]
    BY <1>2 DEF OnPopup
  <2>2. Sound(p) /\ Bound(p) /\ p.pending # "NONE" /\ p.binding = rt[c].binding
    BY <1>1, <2>1, PendFacts DEF Status
  <2> HIDE DEF p
  <2>3. Sound(Cross(p)) /\ Bound(Cross(p)) /\ Cross(p).pending # "NONE"
        /\ Cross(p).binding = rt[c].binding
    BY <2>2, FreezeFacts
  <2> QED
    BY <2>1, <2>3, HandlerStep
<1>3. CASE OnChannel(c)
  <2> DEFINE p == Pend(rt[c], "BLOCKED")
  <2>1. Handling(c) /\ rt' = [rt EXCEPT ![c] = p]
    BY <1>3 DEF OnChannel
  <2>2. Sound(p) /\ Bound(p) /\ p.pending # "NONE" /\ p.binding = rt[c].binding
    BY <1>1, <2>1, PendFacts DEF Status
  <2> HIDE DEF p
  <2> QED
    BY <2>1, <2>2, HandlerStep
<1>4. ASSUME NEW u \in Urls \cup {Blank}, OnMainFrame(c, u)
      PROVE  IInv'
  <2> DEFINE r == [rt[c] EXCEPT !.page = u]
             p == Pend(r, "REAUTHORIZATION_REQUIRED")
  <2>1. Handling(c) /\ (rt' = [rt EXCEPT ![c] = r] \/ rt' = [rt EXCEPT ![c] = Cross(p)])
    BY <1>4 DEF OnMainFrame
  <2>2. /\ r \in Runtime
        /\ r.binding = rt[c].binding /\ r.frozen = rt[c].frozen /\ r.crossed = rt[c].crossed
        /\ r.limit = rt[c].limit /\ r.attempted = rt[c].attempted /\ r.sent = rt[c].sent
        /\ r.granted = rt[c].granted /\ r.jar = rt[c].jar /\ r.owner = rt[c].owner
        /\ r.pending = rt[c].pending
    BY <1>1, <2>1 DEF Runtime
  <2> HIDE DEF r
  <2>3. Sound(r) /\ Bound(r)
    BY <1>1, <2>1, <2>2, PageFacts
  <2>4. Sound(p) /\ Bound(p) /\ p.pending # "NONE" /\ p.binding = rt[c].binding
    BY <2>2, <2>3, PendFacts DEF Status
  <2> HIDE DEF p
  <2>5. Sound(Cross(p)) /\ Bound(Cross(p)) /\ Cross(p).pending # "NONE"
        /\ Cross(p).binding = rt[c].binding
    BY <2>4, FreezeFacts
  <2>6. CASE rt' = [rt EXCEPT ![c] = r]
    BY <2>1, <2>2, <2>3, <2>6, HandlerStep
  <2>7. CASE rt' = [rt EXCEPT ![c] = Cross(p)]
    BY <2>1, <2>5, <2>7, HandlerStep
  <2> QED
    BY <2>1, <2>6, <2>7
<1>5. ASSUME NEW u \in Urls, OnFrame(c, u)
      PROVE  IInv'
  <2> DEFINE p == Pend(rt[c], Denied(u))
  <2>1. Handling(c) /\ rt' = [rt EXCEPT ![c] = Cross(p)]
    BY <1>5 DEF OnFrame
  <2>2. Sound(p) /\ Bound(p) /\ p.pending # "NONE" /\ p.binding = rt[c].binding
    BY <1>1, <2>1, PendFacts, DeniedType
  <2> HIDE DEF p
  <2>3. Sound(Cross(p)) /\ Bound(Cross(p)) /\ Cross(p).pending # "NONE"
        /\ Cross(p).binding = rt[c].binding
    BY <2>2, FreezeFacts
  <2> QED
    BY <2>1, <2>3, HandlerStep
<1>6. ASSUME NEW u \in Urls, Route(c, u)
      PROVE  IInv'
  <2> DEFINE p == Routed(rt[c], u)
  <2>1. Handling(c) /\ rt' = [rt EXCEPT ![c] = p]
    BY <1>6 DEF Route
  <2>2. Sound(p) /\ Bound(p) /\ p.binding = rt[c].binding /\ p.crossed = rt[c].crossed
        /\ (rt[c].pending # "NONE" => p.pending # "NONE")
    BY <1>1, <2>1, RoutedFacts
  <2> HIDE DEF p
  <2> QED
    BY <2>1, <2>2, HandlerStep
<1>7. ASSUME NEW u \in Urls, Fetched(c, u)
      PROVE  IInv'
  <2> DEFINE r == [rt[c] EXCEPT !.inflight = @ \ {u}]
  <2>1. /\ Handling(c)
        /\ \/ rt' = [rt EXCEPT ![c] = r]
           \/ \E s \in Status \ {"NONE"} : rt' = [rt EXCEPT ![c] = Pend(r, s)]
    BY <1>7, DeniedType DEF Fetched, Status
  <2>2. /\ r \in Runtime
        /\ r.binding = rt[c].binding /\ r.frozen = rt[c].frozen /\ r.crossed = rt[c].crossed
        /\ r.limit = rt[c].limit /\ r.attempted = rt[c].attempted /\ r.sent = rt[c].sent
        /\ r.granted = rt[c].granted /\ r.jar = rt[c].jar /\ r.owner = rt[c].owner
        /\ r.pending = rt[c].pending
    BY <1>1, <2>1 DEF Runtime
  <2> HIDE DEF r
  <2>3. Sound(r) /\ Bound(r)
    BY <1>1, <2>1, <2>2, PageFacts
  <2>4. CASE rt' = [rt EXCEPT ![c] = r]
    BY <2>1, <2>2, <2>3, <2>4, HandlerStep
  <2>5. ASSUME NEW s \in Status \ {"NONE"}, rt' = [rt EXCEPT ![c] = Pend(r, s)]
        PROVE  IInv'
    <3>1. Sound(Pend(r, s)) /\ Bound(Pend(r, s)) /\ Pend(r, s).pending # "NONE"
          /\ Pend(r, s).binding = rt[c].binding
      BY <2>2, <2>3, PendFacts
    <3> QED
      BY <2>1, <2>5, <3>1, HandlerStep
  <2> QED
    BY <2>1, <2>4, <2>5
<1> QED
  BY <1>2, <1>3, <1>4, <1>5, <1>6, <1>7 DEF Handle

(* The check of the page, made with a sound runtime r of c: an action that
   goes on to the snapshot does so in a context that was not crossed, if r
   was not. *)
LEMMA CheckStep ==
    ASSUME IInv, NEW c \in Tracked, NEW r, Sound(r), Bound(r), CheckMainUrl(c, r),
           order' = order, used' = used, engine' = engine, actions' \in Nat, events' \in Nat,
           pc = "idle" \/ cur = c
    PROVE  IInv' /\ (pc' = "snapshot" => cur' = c /\ rt'[cur'].crossed = r.crossed)
<1>0. c \in Contexts /\ rt \in [Contexts -> Runtime]
  BY TrackedFacts DEF IInv, TypeOK
<1>1. CASE Wait("snapshot", c, None) /\ rt' = [rt EXCEPT ![c] = r]
  <2>1. pc' = "snapshot" /\ cur' = c /\ req' = None /\ answer' \in Status
    BY <1>1 DEF Wait, Status
  <2>2. IInv'
    BY <1>1, <2>1, ActionStep DEF PC
  <2> QED
    BY <1>0, <1>1, <2>1, <2>2
<1>2. CASE Answered(Denied(r.page)) /\ rt' = [rt EXCEPT ![c] = Cross(r)]
  <2>1. pc' = "idle" /\ cur' = None /\ req' = None /\ answer' \in Status
    BY <1>2, DeniedType DEF Answered
  <2>2. Sound(Cross(r)) /\ Bound(Cross(r))
    BY FreezeFacts
  <2>3. IInv'
    BY <1>2, <2>1, <2>2, ActionStep
  <2> QED
    BY <2>1, <2>3
<1> QED
  BY <1>1, <1>2 DEF CheckMainUrl

(* The end of every call keeps the invariant, and a call that is started
   then is not for a context that was crossed. *)
LEMMA CallEndsInductive ==
    ASSUME IInv, CallEnds
    PROVE  /\ IInv'
           /\ pc' \in {"goto", "act", "snapshot"} => ~rt'[cur'].crossed
<1>0. actions \in Nat /\ events \in Nat /\ answer \in Status
  BY DEF IInv, TypeOK
<1>1. CASE Seeded
  <2> DEFINE j == Seed(rt[cur], req.binding)
             b == Begun(j, req)
  <2>1. pc = "seed" /\ rt' = [rt EXCEPT ![cur] = b] /\ cur \in Tracked /\ cur \in Contexts
        /\ req \in Request /\ rt[cur] \in Runtime /\ rt[cur].binding \in Bindings
    <3>1. pc = "seed" /\ rt' = [rt EXCEPT ![cur] = b]
      BY <1>1 DEF Seeded
    <3> HIDE DEF b
    <3>2. cur \in Tracked /\ req \in Request
      BY <3>1 DEF IInv, TypeOK
    <3> QED
      BY <3>1, <3>2, TrackedFacts
  <2>2. Cookies(req.binding) = Cookies(rt[cur].binding) /\ Cookies(req.binding) \subseteq Sessions
    BY <2>1, CookiesType DEF IInv, SeedMatches, Request
  <2>3. rt[cur].jar \subseteq Cookies(rt[cur].binding)
    BY <2>1, TrackedFacts DEF Unbegun, Bound
  <2>4. /\ j \in Runtime /\ j.binding = rt[cur].binding
        /\ j.jar = rt[cur].jar \cup Cookies(req.binding)
        /\ j.crossed = rt[cur].crossed /\ j.frozen = rt[cur].frozen
        /\ j.limit = rt[cur].limit /\ j.attempted = rt[cur].attempted
        /\ j.sent = rt[cur].sent /\ j.granted = rt[cur].granted
    BY <2>1, <2>2 DEF Runtime, Seed
  <2>5. /\ rt[cur].sent <= rt[cur].granted /\ (rt[cur].crossed => rt[cur].frozen)
    BY <2>1, TrackedFacts DEF Unbegun, Sound, Runtime
  <2>6. Cookies(req.binding) = Cookies(j.binding) /\ j.jar \subseteq Cookies(j.binding)
        /\ j.sent <= j.granted /\ (j.crossed => j.frozen)
    BY <2>2, <2>3, <2>4, <2>5
  <2> HIDE DEF j
  <2>7. Sound(b) /\ Bound(b) /\ b.crossed = rt[cur].crossed
    BY <2>1, <2>4, <2>6, BegunFacts
  <2>8. order' = order /\ used' = used /\ engine' = engine /\ actions' \in Nat /\ events' \in Nat
    BY <1>0, <1>1 DEF Seeded
  <2> HIDE DEF b
  <2>9. rt'[cur] = b
    BY <2>1 DEF IInv, TypeOK
  <2>10. CASE rt[cur].frozen
    <3>1. pc' = "idle" /\ cur' = None /\ req' = None /\ answer' \in Status
      BY <1>1, <2>10 DEF Seeded, Answered, Status
    <3>2. IInv'
      BY <2>1, <2>7, <2>8, <3>1, ActionStep
    <3> QED
      BY <3>1, <3>2
  <2>11. CASE ~rt[cur].frozen
    <3>1. pc' = "goto" /\ cur' = cur /\ req' = None /\ answer' \in Status
      BY <1>1, <2>11 DEF Seeded, Wait, Status
    <3>2. ~b.crossed
      BY <2>5, <2>7, <2>11
    <3>3. IInv'
      BY <2>1, <2>7, <2>8, <3>1, <3>2, ActionStep DEF PC
    <3> QED
      BY <2>9, <3>1, <3>2, <3>3
  <2> QED
    BY <2>10, <2>11
<1>2. CASE TimesOut \/ FailureSettled
  <2>1. pc \in {"goto", "act", "failed"} /\ pc' = "idle" /\ cur' = None /\ req' = None
        /\ (answer' = rt[cur].pending \/ answer' \in Status)
        /\ order' = order /\ used' = used /\ engine' = engine /\ rt' = rt
        /\ actions' = actions /\ events' = events
    BY <1>2 DEF TimesOut, FailureSettled, Answered, PendingOr, Status
  <2>2. cur \in Tracked /\ Sound(rt[cur]) /\ Bound(rt[cur]) /\ rt = [rt EXCEPT ![cur] = rt[cur]]
    BY <2>1, CurFacts
  <2>3. answer' \in Status
    BY <2>1, <2>2 DEF Sound, Runtime
  <2> DEFINE r == rt[cur]
  <2>4. rt' = [rt EXCEPT ![cur] = r] /\ Sound(r) /\ Bound(r)
    BY <2>1, <2>2
  <2> HIDE DEF r
  <2>5. IInv'
    BY <1>0, <2>1, <2>2, <2>3, <2>4, ActionStep
  <2> QED
    BY <2>1, <2>5
<1>3. CASE ActionEnds
  <2>1. pc \in {"goto", "act"} /\ pc' \in {"settle", "failed"} /\ cur' = cur /\ req' = req
        /\ answer' = answer
        /\ order' = order /\ used' = used /\ engine' = engine /\ rt' = rt
        /\ actions' = actions /\ events' = events
    BY <1>3 DEF ActionEnds
  <2>2. cur \in Tracked /\ Sound(rt[cur]) /\ Bound(rt[cur]) /\ rt = [rt EXCEPT ![cur] = rt[cur]]
        /\ req = None
    BY <2>1, CurFacts
  <2>3. rt[cur].crossed => rt[cur].pending # "NONE"
    BY <2>1 DEF IInv, Reported
  <2> DEFINE r == rt[cur]
  <2>4. rt' = [rt EXCEPT ![cur] = r] /\ Sound(r) /\ Bound(r) /\ (r.crossed => r.pending # "NONE")
    BY <2>1, <2>2, <2>3
  <2> HIDE DEF r
  <2>5. IInv'
    BY <1>0, <2>1, <2>2, <2>4, ActionStep DEF PC
  <2> QED
    BY <2>1, <2>5
<1>4. CASE Settled
  <2>1. pc = "settle" /\ order' = order /\ used' = used /\ engine' = engine
        /\ actions' = actions /\ events' = events
    BY <1>4 DEF Settled
  <2>2. cur \in Tracked /\ Sound(rt[cur]) /\ Bound(rt[cur]) /\ rt = [rt EXCEPT ![cur] = rt[cur]]
    BY <2>1, CurFacts
  <2> DEFINE r == rt[cur]
  <2>3. CASE Answered(r.pending) /\ rt' = rt
    <3>1. pc' = "idle" /\ cur' = None /\ req' = None /\ answer' \in Status
      BY <2>2, <2>3 DEF Answered, Sound, Runtime
    <3>2. rt' = [rt EXCEPT ![cur] = r] /\ Sound(r) /\ Bound(r)
      BY <2>2, <2>3
    <3> HIDE DEF r
    <3>3. IInv'
      BY <1>0, <2>1, <2>2, <3>1, <3>2, ActionStep
    <3> QED
      BY <3>1, <3>3
  <2>4. CASE r.pending = "NONE" /\ CheckMainUrl(cur, r)
    <3>1. ~r.crossed
      BY <2>1, <2>4 DEF IInv, Reported
    <3>2. IInv' /\ (pc' = "snapshot" => cur' = cur /\ rt'[cur'].crossed = r.crossed)
      BY <1>0, <2>1, <2>2, <2>4, CheckStep
    <3>3. pc' \in {"snapshot", "idle"}
      BY <2>4 DEF CheckMainUrl, Wait, Answered
    <3> QED
      BY <3>1, <3>2, <3>3
  <2> QED
    BY <1>4, <2>3, <2>4 DEF Settled
<1>5. CASE TakeSnapshot
  <2> DEFINE r == [rt[cur] EXCEPT !.fp = rt[cur].page]
  <2>1. pc = "snapshot" /\ pc' = "idle" /\ cur' = None /\ req' = None /\ answer' \in Status
        /\ order' = order /\ used' = used /\ engine' = engine /\ rt' = [rt EXCEPT ![cur] = r]
        /\ actions' = actions /\ events' = events
    BY <1>5 DEF TakeSnapshot, Answered, Status
  <2>2. cur \in Tracked /\ Sound(rt[cur]) /\ Bound(rt[cur]) /\ rt[cur] \in Runtime
    BY <2>1, CurFacts
  <2>3. /\ r \in Runtime
        /\ r.binding = rt[cur].binding /\ r.frozen = rt[cur].frozen
        /\ r.crossed = rt[cur].crossed
        /\ r.limit = rt[cur].limit /\ r.attempted = rt[cur].attempted /\ r.sent = rt[cur].sent
        /\ r.granted = rt[cur].granted /\ r.jar = rt[cur].jar /\ r.owner = rt[cur].owner
    BY <2>2 DEF Runtime
  <2> HIDE DEF r
  <2>4. Sound(r) /\ Bound(r)
    BY <2>2, <2>3, PageFacts
  <2>5. IInv'
    BY <1>0, <2>1, <2>2, <2>4, ActionStep
  <2> QED
    BY <2>1, <2>5
<1>6. ASSUME NEW u \in Urls, Loaded(u)
      PROVE  IInv' /\ pc' = "settle"
  <2> DEFINE r == [rt[cur] EXCEPT !.page = u, !.committed = TRUE]
  <2>1. pc = "goto" /\ pc' = "settle" /\ cur' = cur /\ req' = req /\ answer' = answer
        /\ order' = order /\ used' = used /\ engine' = engine /\ rt' = [rt EXCEPT ![cur] = r]
        /\ actions' = actions /\ events' = events
    BY <1>6 DEF Loaded
  <2>2. cur \in Tracked /\ Sound(rt[cur]) /\ Bound(rt[cur]) /\ rt[cur] \in Runtime /\ req = None
    BY <2>1, CurFacts
  <2>3. /\ r \in Runtime
        /\ r.binding = rt[cur].binding /\ r.frozen = rt[cur].frozen
        /\ r.crossed = rt[cur].crossed /\ r.pending = rt[cur].pending
        /\ r.limit = rt[cur].limit /\ r.attempted = rt[cur].attempted /\ r.sent = rt[cur].sent
        /\ r.granted = rt[cur].granted /\ r.jar = rt[cur].jar /\ r.owner = rt[cur].owner
    BY <2>2 DEF Runtime
  <2> HIDE DEF r
  <2>4. Sound(r) /\ Bound(r) /\ (r.crossed => r.pending # "NONE")
    BY <2>1, <2>2, <2>3, PageFacts DEF IInv, Reported
  <2> QED
    BY <1>0, <2>1, <2>2, <2>4, ActionStep DEF PC
<1> QED
  BY <1>1, <1>2, <1>3, <1>4, <1>5, <1>6 DEF CallEnds

(* What is kept when the oldest context makes room for another. *)
LEMMA KeptFacts ==
    ASSUME IInv
    PROVE  /\ Kept \in Seq(Contexts) /\ Len(Kept) < MaxContexts
           /\ \A i \in 1..Len(Kept) : Kept[i] \in Tracked
           /\ \A i, j \in 1..Len(Kept) : Kept[i] = Kept[j] => i = j
<1>1. order \in Seq(Contexts) /\ Len(order) <= MaxContexts /\ MaxContexts \in Nat \ {0}
      /\ \A i, j \in 1..Len(order) : order[i] = order[j] => i = j
  BY BoundAssumption DEF IInv, TypeOK
<1>2. CASE Len(order) >= MaxContexts
  <2>1. Kept = Tail(order) /\ order # <<>>
    BY <1>1, <1>2 DEF Kept
  <2>2. Kept \in Seq(Contexts) /\ Len(Kept) = Len(order) - 1
        /\ \A i \in 1..Len(Kept) : Kept[i] = order[i + 1]
    BY <1>1, <2>1
  <2>3. \A i \in 1..Len(Kept) : i + 1 \in 1..Len(order)
    BY <1>1, <2>2
  <2> QED
    BY <1>1, <2>2, <2>3 DEF Tracked
<1>3. CASE ~(Len(order) >= MaxContexts)
  <2>1. Kept = order
    BY <1>3 DEF Kept
  <2> QED
    BY <1>1, <1>3, <2>1 DEF Tracked
<1> QED
  BY <1>2, <1>3

(* A new context is made beside those kept. *)
LEMMA NavigateNewInductive ==
    ASSUME IInv, NEW q \in Request, NEW c \in Contexts, NavigateNew(q, c)
    PROVE  IInv' /\ pc' = "seed"
<1> DEFINE kept == {Kept[i] : i \in 1..Len(Kept)}
           n == [NoRuntime EXCEPT !.binding = q.binding, !.envelope = q.envelope,
                                  !.limit = q.limit]
<1>1. /\ pc = "idle" /\ q.ref = None /\ c \notin used /\ used' = used \cup {c}
      /\ order' = Append(Kept, c) /\ engine' = engine
      /\ pc' = "seed" /\ cur' = c /\ req' = q /\ answer' = "NONE"
      /\ actions' = actions + 1 /\ events' = events
  BY DEF NavigateNew, Serving, Wait
<1>2. rt' = [d \in Contexts |-> IF d = c THEN n ELSE IF d \in kept THEN rt[d] ELSE NoRuntime]
  BY DEF NavigateNew
<1>3. /\ Kept \in Seq(Contexts) /\ Len(Kept) < MaxContexts /\ kept \subseteq Tracked
      /\ \A i, j \in 1..Len(Kept) : Kept[i] = Kept[j] => i = j
  BY KeptFacts
<1>4. used \subseteq Contexts /\ Tracked \subseteq used /\ rt \in [Contexts -> Runtime]
      /\ engine \in {"none", "on", "unavailable"} /\ actions \in Nat /\ events \in Nat
      /\ \A d \in Tracked : rt[d].binding \in Bindings
  BY DEF IInv, TypeOK
<1>5. /\ order' \in Seq(Contexts) /\ Len(order') = Len(Kept) + 1
      /\ order'[Len(Kept) + 1] = c
      /\ \A i \in 1..Len(Kept) : order'[i] = Kept[i]
  BY <1>1, <1>3
<1>6. Tracked' = kept \cup {c}
  <2> HIDE DEF kept
  <2>1. \A i \in 1..Len(order') : order'[i] \in kept \cup {c}
    BY <1>3, <1>5 DEF kept
  <2>2. c \in Tracked'
    BY <1>3, <1>5 DEF Tracked
  <2>3. \A i \in 1..Len(Kept) : Kept[i] \in Tracked'
    BY <1>3, <1>5 DEF Tracked
  <2> QED
    BY <2>1, <2>2, <2>3 DEF Tracked, kept
<1>7. Len(order') <= MaxContexts
  BY <1>3, <1>5, BoundAssumption
<1>8. \A i, j \in 1..Len(order') : order'[i] = order'[j] => i = j
  <2>1. \A i \in 1..Len(Kept) : Kept[i] # c
    BY <1>1, <1>3, <1>4
  <2> QED
    BY <1>3, <1>5, <2>1
<1>9. n \in Runtime /\ Unbegun(n) /\ n.binding = q.binding /\ q.binding \in Bindings
  <2>1. q.binding \in Bindings /\ q.envelope \in SUBSET Urls /\ q.limit \in Nat
    BY UrlAssumption DEF Request
  <2>2. n \in Runtime
    BY <2>1 DEF Runtime, NoRuntime, Status
  <2> QED
    BY <2>1, <2>2 DEF Unbegun, NoRuntime
<1>10. NoRuntime \in Runtime
  BY DEF NoRuntime, Runtime, Status
<1> HIDE DEF n
<1>11. rt' \in [Contexts -> Runtime]
  BY <1>2, <1>4, <1>9, <1>10
<1>12. \A d \in kept : ~Fresh(d) /\ Sound(rt[d]) /\ Bound(rt[d]) /\ d \in Contexts
  <2>1. \A d \in Tracked : ~Fresh(d) /\ Sound(rt[d]) /\ Bound(rt[d]) /\ d \in Contexts
    BY <1>1, TrackedFacts DEF Fresh
  <2> HIDE DEF kept
  <2> QED
    BY <1>3, <2>1
<1> HIDE DEF kept
<1>13. c \notin kept
  BY <1>1, <1>3, <1>4
<1>14. EachSound'
  <2> SUFFICES ASSUME NEW d \in Contexts
               PROVE  /\ d \notin kept \cup {c} => rt'[d] = NoRuntime
                      /\ d \in kept \cup {c} => IF Fresh(d)' THEN Unbegun(rt'[d])
                                                ELSE Sound(rt'[d]) /\ Bound(rt'[d])
    BY <1>6 DEF EachSound, Unbegun, Sound, Bound, Cookies
  <2>1. Fresh(d)' <=> d = c
    BY <1>1 DEF Fresh
  <2> QED
    BY <1>2, <1>9, <1>12, <1>13, <2>1
<1>15. TypeOK'
  <2>1. (used \subseteq Contexts)' /\ (Tracked \subseteq used)'
    BY <1>1, <1>3, <1>4, <1>6
  <2>2. \A d \in Tracked' : rt'[d].binding \in Bindings
    BY <1>2, <1>6, <1>9, <1>12, <1>13 DEF Bound
  <2> QED
    BY <1>1, <1>4, <1>5, <1>6, <1>7, <1>8, <1>11, <2>1, <2>2 DEF TypeOK, PC, Status
<1>16. SeedMatches' /\ Reported'
  BY <1>1, <1>2, <1>9 DEF SeedMatches, Reported, Cookies
<1> QED
  BY <1>1, <1>14, <1>15, <1>16 DEF IInv

(* A request that may use a context has the session of its lease. *)
LEMMA MayUseFacts ==
    ASSUME IInv, NEW q \in Request, pc = "idle", MayUse(q.ref, q.binding)
    PROVE  /\ q.ref \in Tracked /\ q.ref \in Contexts /\ ~Fresh(q.ref)
           /\ Sound(rt[q.ref]) /\ Bound(rt[q.ref])
           /\ ~rt[q.ref].frozen /\ ~rt[q.ref].crossed
           /\ Cookies(q.binding) = Cookies(rt[q.ref].binding)
           /\ Sound(Begun(rt[q.ref], q)) /\ Bound(Begun(rt[q.ref], q))
           /\ ~Begun(rt[q.ref], q).crossed
<1>1. q.ref \in Tracked /\ ~rt[q.ref].frozen
      /\ Cookies(q.binding) = Cookies(rt[q.ref].binding)
  BY DEF MayUse, lease_binding_matches, Cookies
<1>2. q.ref \in Contexts /\ ~Fresh(q.ref) /\ Sound(rt[q.ref]) /\ Bound(rt[q.ref])
  BY <1>1, TrackedFacts DEF Fresh
<1> DEFINE r == rt[q.ref]
<1>3. /\ r \in Runtime /\ r.binding \in Bindings /\ r.sent <= r.granted
      /\ (r.crossed => r.frozen) /\ r.jar \subseteq Cookies(r.binding)
  BY <1>2 DEF Sound, Bound, Runtime
<1>4. Sound(Begun(r, q)) /\ Bound(Begun(r, q)) /\ Begun(r, q).crossed = r.crossed
  <2> HIDE DEF r
  <2> QED
    BY <1>1, <1>3, BegunFacts DEF r
<1> QED
  BY <1>1, <1>2, <1>3, <1>4

(* Every request keeps the invariant, and a call that it starts is not for a
   context that was crossed. *)
LEMMA ServeInductive ==
    ASSUME IInv, NEW q \in Request, Serve(q)
    PROVE  /\ IInv'
           /\ pc' \in {"goto", "act", "snapshot"} => ~rt'[cur'].crossed
<1>0. actions \in Nat /\ events \in Nat /\ rt \in [Contexts -> Runtime]
  BY DEF IInv, TypeOK
<1>1. ASSUME Serving
      PROVE  pc = "idle" /\ engine' = engine /\ actions' \in Nat /\ events' \in Nat
  BY <1>0, <1>1 DEF Serving
<1> DEFINE c == q.ref
           b == Begun(rt[c], q)
<1>2. ASSUME NEW u \in Urls, NavigateOutside(q, u)
      PROVE  IInv' /\ pc' = "idle"
  <2>1. Serving /\ MayUse(q.ref, q.binding) /\ rt' = [rt EXCEPT ![c] = Freeze(rt[c])]
        /\ order' = order /\ used' = used
        /\ pc' = "idle" /\ cur' = None /\ req' = None /\ answer' \in Status
    BY <1>2, DeniedType DEF NavigateOutside, Answered
  <2>2. c \in Tracked /\ Sound(rt[c]) /\ Bound(rt[c])
    BY <1>1, <2>1, MayUseFacts
  <2>3. Sound(Freeze(rt[c])) /\ Bound(Freeze(rt[c]))
    BY <2>2, FreezeFacts
  <2> HIDE DEF c
  <2> QED
    BY <1>1, <2>1, <2>2, <2>3, ActionStep
<1>3. CASE NavigateAgain(q)
  <2>1. Serving /\ MayUse(q.ref, q.binding) /\ order' = order /\ used' = used
    BY <1>3 DEF NavigateAgain
  <2>2. /\ c \in Tracked /\ c \in Contexts /\ ~Fresh(c) /\ Sound(rt[c]) /\ Bound(rt[c])
        /\ Cookies(q.binding) = Cookies(rt[c].binding)
        /\ Sound(b) /\ Bound(b) /\ ~b.crossed
    BY <1>1, <2>1, MayUseFacts
  <2>3. CASE rt' = [rt EXCEPT ![c] = b] /\ Wait("goto", c, None)
    <3>1. pc' = "goto" /\ cur' = c /\ req' = None /\ answer' \in Status
      BY <2>3 DEF Wait, Status
    <3> HIDE DEF c, b
    <3>2. IInv'
      BY <1>1, <2>1, <2>2, <2>3, <3>1, ActionStep DEF PC
    <3> QED
      BY <1>0, <2>2, <2>3, <3>1, <3>2
  <2>4. CASE rt' = rt /\ Wait("seed", c, q)
    <3>1. pc' = "seed" /\ cur' = c /\ req' = q /\ answer' \in Status /\ q.ref # None
      BY <2>2, <2>4, NoneAssumption DEF Wait, Status
    <3>2. Tracked' = Tracked /\ \A d \in Contexts : ~Fresh(d)' /\ ~Fresh(d)
      BY <1>1, <2>1, <3>1 DEF Tracked, Fresh
    <3>3. EachSound'
      <4> SUFFICES ASSUME NEW d \in Contexts
                   PROVE  /\ d \notin Tracked => rt'[d] = NoRuntime
                          /\ d \in Tracked => Sound(rt'[d]) /\ Bound(rt'[d])
        BY <3>2 DEF EachSound, Unbegun, Sound, Bound, Cookies
      <4> QED
        BY <2>4, <3>2 DEF IInv, EachSound
    <3>4. TypeOK'
      BY <1>1, <2>1, <2>2, <2>4, <3>1, <3>2 DEF IInv, TypeOK, PC
    <3>5. SeedMatches' /\ Reported'
      BY <2>2, <2>4, <3>1 DEF SeedMatches, Reported, Cookies
    <3> QED
      BY <3>1, <3>3, <3>4, <3>5 DEF IInv
  <2>5. \/ rt' = [rt EXCEPT ![c] = b] /\ Wait("goto", c, None)
        \/ rt' = rt /\ Wait("seed", c, q)
    BY <1>3 DEF NavigateAgain
  <2> QED
    BY <2>3, <2>4, <2>5
<1>4. CASE Observe(q)
  <2>1. Serving /\ MayUse(q.ref, q.binding) /\ order' = order /\ used' = used
        /\ CheckMainUrl(c, b)
    BY <1>4 DEF Observe
  <2>2. c \in Tracked /\ Sound(b) /\ Bound(b) /\ ~b.crossed
    BY <1>1, <2>1, MayUseFacts
  <2>3. pc' \in {"snapshot", "idle"}
    BY <2>1 DEF CheckMainUrl, Wait, Answered
  <2> HIDE DEF b, c
  <2> QED
    BY <1>1, <2>1, <2>2, <2>3, CheckStep
<1>5. ASSUME NEW fp \in Urls \cup {Blank}, Interact(q, fp)
      PROVE  IInv' /\ ~rt'[cur'].crossed
  <2>1. Serving /\ MayUse(q.ref, q.binding) /\ order' = order /\ used' = used
        /\ rt' = [rt EXCEPT ![c] = b] /\ pc' = "act" /\ cur' = c /\ req' = None
        /\ answer' \in Status
    BY <1>5 DEF Interact, Wait, Status
  <2>2. c \in Tracked /\ c \in Contexts /\ Sound(b) /\ Bound(b) /\ ~b.crossed
    BY <1>1, <2>1, MayUseFacts
  <2> HIDE DEF b, c
  <2>3. IInv'
    BY <1>1, <2>1, <2>2, ActionStep DEF PC
  <2> QED
    BY <1>0, <2>1, <2>2, <2>3
<1>6. ASSUME NEW d \in Contexts, NavigateNew(q, d)
      PROVE  IInv' /\ pc' = "seed"
  BY <1>6, NavigateNewInductive
<1> QED
  BY <1>2, <1>3, <1>4, <1>5, <1>6 DEF Serve

(* The limit of a request is a number of requests. *)
LEMMA LimitType ==
    ASSUME NEW n \in Asked
    PROVE  Limit(n) \in Nat
  BY BoundAssumption DEF Limit

(* The first states satisfy the invariant, whose parts they make trivial. *)
LEMMA InitInv == Init => IInv
<1> SUFFICES ASSUME Init PROVE IInv
  OBVIOUS
<1>1. Tracked = {}
  BY DEF Init, Tracked
<1>2. NoRuntime \in Runtime
  BY DEF NoRuntime, Runtime, Status
<1>3. TypeOK
  BY <1>1, <1>2, BoundAssumption DEF Init, TypeOK, PC, Status
<1>4. EachSound /\ SeedMatches /\ Reported
  BY <1>1 DEF Init, EachSound, SeedMatches, Reported
<1> QED
  BY <1>3, <1>4 DEF IInv

(* Every step keeps the invariant, and a call it starts is not for a context
   that was crossed. *)
LEMMA Inductive ==
    ASSUME IInv, [Next]_vars
    PROVE  /\ IInv'
           /\ pc' \in {"goto", "act", "snapshot"} /\ pc' # pc => ~rt'[cur'].crossed
<1>1. CASE UNCHANGED vars
  <2>1. Tracked' = Tracked /\ \A d \in Contexts : Fresh(d)' = Fresh(d)
    BY <1>1 DEF vars, Tracked, Fresh
  <2>2. TypeOK'
    BY <1>1, <2>1 DEF vars, IInv, TypeOK
  <2>3. EachSound'
    BY <1>1, <2>1 DEF vars, IInv, EachSound, Unbegun, Sound, Bound, Cookies
  <2>4. SeedMatches' /\ Reported' /\ pc' = pc
    BY <1>1 DEF vars, IInv, SeedMatches, Reported, Cookies
  <2> QED
    BY <2>2, <2>3, <2>4 DEF IInv
<1>2. CASE Start
  <2>1. Tracked' = Tracked /\ \A d \in Contexts : Fresh(d)' = Fresh(d)
    BY <1>2 DEF Start, Tracked, Fresh
  <2>2. TypeOK'
    BY <1>2, <2>1 DEF Start, IInv, TypeOK
  <2>3. EachSound'
    BY <1>2, <2>1 DEF Start, IInv, EachSound, Unbegun, Sound, Bound, Cookies
  <2>4. SeedMatches' /\ Reported' /\ pc' = pc
    BY <1>2 DEF Start, IInv, SeedMatches, Reported, Cookies
  <2> QED
    BY <2>2, <2>3, <2>4 DEF IInv
<1>3. CASE Stop
  <2>1. Tracked' = {} /\ pc' = "idle"
    BY <1>3 DEF Stop, Tracked
  <2>2. NoRuntime \in Runtime
    BY DEF NoRuntime, Runtime, Status
  <2>3. TypeOK'
    BY <1>3, <2>1, <2>2, BoundAssumption DEF Stop, IInv, TypeOK, PC, Status
  <2>4. EachSound' /\ SeedMatches' /\ Reported'
    BY <1>3, <2>1 DEF Stop, EachSound, SeedMatches, Reported
  <2> QED
    BY <2>1, <2>3, <2>4 DEF IInv
<1>4. CASE CallEnds
  BY <1>4, CallEndsInductive
<1>5. ASSUME NEW ref \in Contexts \cup {None}, NEW b \in Bindings, NEW e \in Envelopes,
             NEW n \in Asked,
             Serve([ref |-> ref, binding |-> b, envelope |-> e, limit |-> Limit(n)])
      PROVE  IInv' /\ (pc' \in {"goto", "act", "snapshot"} => ~rt'[cur'].crossed)
  <2>1. [ref |-> ref, binding |-> b, envelope |-> e, limit |-> Limit(n)] \in Request
    BY LimitType DEF Request
  <2> QED
    BY <1>5, <2>1, ServeInductive
<1>6. ASSUME NEW c \in Contexts, Handle(c)
      PROVE  IInv' /\ pc' = pc
  <2>1. pc' = pc
    BY <1>6 DEF Handle, OnPopup, OnChannel, OnMainFrame, Route, Fetched, OnFrame, Handling
  <2> QED
    BY <1>6, <2>1, HandleInductive
<1> QED
  BY <1>1, <1>2, <1>3, <1>4, <1>5, <1>6 DEF Next

----------------------------------------------------------------------------
(* The invariant holds of every reachable state. *)
LEMMA Invariance == Spec => []IInv
<1>1. IInv /\ [Next]_vars => IInv'
  BY Inductive
<1> QED
  BY <1>1, InitInv, PTL DEF Spec

(* The state of the engine has its type; _runtimes never holds more than
   max_active_contexts references, each of them once. *)
THEOREM EngineTyped == Spec => []TypeOK
<1>1. IInv => TypeOK
  BY DEF IInv
<1> QED
  BY <1>1, Invariance, PTL

(* Whatever its pages do, and in whichever call, a context sends no more
   requests than the actions begun in it were given. *)
THEOREM NeverBeyondItsLimits == Spec => []RequestsWithinLimits
<1>1. IInv => RequestsWithinLimits
  <2> SUFFICES ASSUME IInv, NEW c \in Contexts PROVE rt[c].sent <= rt[c].granted
    BY DEF RequestsWithinLimits
  <2>1. CASE c \notin Tracked
    BY <2>1 DEF IInv, EachSound, NoRuntime
  <2>2. CASE c \in Tracked
    BY <2>2, TrackedFacts DEF Unbegun, Sound, Runtime
  <2> QED
    BY <2>1, <2>2
<1> QED
  BY <1>1, Invariance, PTL

(* The cookies in a context are of the session of the request whose envelope
   lets its pages' requests through. *)
THEOREM SessionsNeverMix == Spec => []SessionsStayApart
<1>1. IInv => SessionsStayApart
  BY TrackedFacts DEF SessionsStayApart, Unbegun, Bound
<1> QED
  BY <1>1, Invariance, PTL

(* No navigation, interaction or snapshot is started in a context of which a
   page was seen outside its envelope. *)
THEOREM CrossedNeverServes == Spec => CrossedIsLeft
<1>1. IInv /\ [Next]_vars =>
        [pc' \in {"goto", "act", "snapshot"} /\ pc' # pc => ~rt'[cur'].crossed]_vars
  BY Inductive
<1> QED
  BY <1>1, Invariance, PTL DEF Spec, CrossedIsLeft
=============================================================================
