----------------------------- MODULE MCBrowser -----------------------------
(* BrowserEngine for TLC: two sessions of one run, and a page in the envelope,
   one in the wider envelope, one outside and one with no http form. *)
EXTENDS BrowserEngine, TLC

Bind(session) == [run |-> "run", identity |-> "alice", session |-> session,
                  origin |-> "app", target |-> "app"]
McBindings == {Bind("s1"), Bind("none")}
McEnvelopes == {{"home"}, {"home", "shop"}}
McContexts == Permutations(Contexts)
=============================================================================
