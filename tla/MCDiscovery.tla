---------------------------- MODULE MCDiscovery ----------------------------
(* A small site: a home page with a search box and a foreign link,
   the page of an item, which calls for three of them and has two buttons
   alike, and a page of another origin a click may lead to. *)
EXTENDS SurfaceDiscovery

Seg(v) == [t |-> "word", v |-> v]
Num(v) == [t |-> "n", v |-> v]
Home == <<>>
Item(v) == <<Seg("item"), Num(v)>>

Control(sig, href, form) == [sig |-> sig, href |-> href, form |-> form]
Page(origin, path, fp, controls, net) ==
    [origin |-> origin, path |-> path, fp |-> fp, controls |-> controls, net |-> net]

MCOrigin == "app"
MCInScope == {Home, Item("1")}

HomePage == Page("app", Home, "home", <<Control("search", "", TRUE), Control("away", "other", FALSE)>>, {})
ItemPage == Page("app", Item("1"), "item", <<Control("more", "", FALSE), Control("more", "", FALSE)>>,
                 {[method |-> "GET", path |-> Item(v)] : v \in {"1", "2", "3"}})
CdnPage == Page("cdn", Home, "cdn", <<Control("play", "", FALSE)>>, {})

MCSite == {HomePage, ItemPage, CdnPage}

MCBounds(cycles) ==
    [max_discovery_cycles |-> cycles, max_frontier_items |-> 12, max_browser_actions |-> 4,
     max_http_transactions |-> 2, max_per_route_revisit |-> 2, max_identity_variants |-> 1]
Bounds2 == MCBounds(2)
Bounds3 == MCBounds(3)

(* The runners are alike. *)
Twins == Permutations(Runners)
=============================================================================
