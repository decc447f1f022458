----------------------------- MODULE MCExecution -----------------------------
EXTENDS AuthorizedExecution

Url(host, path) == [scheme |-> "http", user |-> FALSE, host |-> host, port |-> 0,
                    path |-> path, odd |-> "plain"]

Shop  == <<"shop", "test">>
Other == <<"other", "test">>
Api   == <<"/", "api">>
ApiV2 == <<"/", "api", "v2">>
Admin == <<"/", "api", "/", "admin">>

P(cap, url, sess, who) ==
    [cap |-> cap, url |-> url, session |-> sess, identity |-> who, auth |-> "form",
     target |-> TRUE, level |-> Definition(cap).min, bound |-> TRUE,
     version |-> TRUE, known |-> TRUE, action |-> TRUE, args |-> "valid", method |-> "GET",
     mode |-> "secure", profile |-> "http1_connection_reuse", approval |-> NoApproval]

Login == P("http.authentication", Url(Shop, Api), "s1", "alice")
Use   == P("http.transaction", Url(Shop, Api), "s1", "alice")

Thirds ==
    {P("browser.page", Url(Shop, Api), "s1", "alice"),
     P("browser.page", Url(Shop, Api), "NONE", "NONE"),
     P("http.transaction", Url(Shop, Api), "s1", "bob"),
     P("http.transaction", Url(Shop, Api), "s2", "alice"),
     [P("http.transaction", Url(Shop, Api), "s1", "alice") EXCEPT !.url.port = 80],
     [P("http.transaction", Url(Shop, Api), "s1", "alice") EXCEPT !.auth = "other"],
     [P("http.transaction", Url(Shop, Api), "s1", "alice") EXCEPT !.target = FALSE],
     P("http.authorization.differential", Url(Shop, Root), "NONE", "NONE"),
     P("http.state_transition", Url(Shop, Root), "NONE", "NONE"),
     P("diagnostic.echo", Url(Shop, Api), "NONE", "NONE"),
     P("http.raw_exchange", Url(<<"lo">>, Api), "NONE", "NONE"),
     P("http.transaction", Url(Shop, Admin), "NONE", "NONE"),
     P("http.transaction", [Url(Shop, Api) EXCEPT !.odd = "encoded"], "NONE", "NONE"),
     [P("http.transaction", Url(Shop, Api), "NONE", "NONE") EXCEPT !.level = 2],
     [P("http.transaction", Url(Shop, Api), "NONE", "NONE") EXCEPT !.method = "POST"]}

MCPlans == {[e1 |-> Login, e2 |-> Use, e3 |-> t] : t \in Thirds}

Rule(effect, host, apex, prefix, expires) ==
    [effect |-> effect, scheme |-> "http", host |-> host, apex |-> apex, port |-> 80,
     prefix |-> prefix, expires |-> expires]

MCRules ==
    {<<Rule("ALLOW", Shop, NoHost, Api, 0), Rule("DENY", Shop, NoHost, Admin, 0)>>,
     <<Rule("ALLOW", Shop, NoHost, NoPath, 0), Rule("OUT_OF_SCOPE", Shop, NoHost, Admin, 0),
       Rule("ALLOW", <<"lo">>, NoHost, NoPath, 0)>>,
     <<Rule("ALLOW", Shop, NoHost, Api, 3), Rule("UNKNOWN", Shop, NoHost, Root, 0)>>,
     <<Rule("ALLOW", NoHost, <<"test">>, NoPath, 0), Rule("DENY", Shop, NoHost, Admin, 0)>>}

MCSubresources == {Url(Shop, ApiV2), Url(Shop, Admin), Url(Other, Api)}

MCProfile == [max |-> 2, window |-> 2]

MCIssued == [requests |-> 3, tool_calls |-> 3, runtime_ms |-> 1, concurrency |-> 1]

MCExp == {"e1", "e2", "e3"}
MCSession == {"s1", "s2"}

(* Another run's session of the same identity at the same origin. *)
MCBefore == [s1 |-> NoSession,
             s2 |-> [authenticating_session_record(Login) EXCEPT !.state = "ACTIVE",
                                                                 !.run = "other"]]
=============================================================================
