----------------------------- MODULE RetailTools -----------------------------
(***************************************************************************)
(* The tools of the Russian retailers: DNS, Citilink, Lamoda, Detsky Mir   *)
(* and Megamarket.                                                         *)
(***************************************************************************)
EXTENDS ToolSteps

LOCAL Pause == Fail("busy", "rate_limited")
LOCAL Drift == {"parser_drift"}

-----------------------------------------------------------------------------
(* DNS and Citilink: a page rendered in Chrome, by mcp_core.kit            *)

render_json ==
  {On("fine"), Pause, Fail("down", "transport_down"), Fail("garbled", "parser_drift")}

\* From the cache, or rendered; Chrome tells of a refused navigation.
dns_page == render_json \cup {On("kept"), Fail("refused", "transport_down")}

\* Fault: the tiles are looked for before the wall.
TilesBeforeWall == {On("fine")} \cup Fails({"none", "garbled", "refused"}, "parser_drift")

\* The wall is looked for before the tiles.  A page without tiles cannot be
\* told from one the extractor no longer fits.
dns_tiles == {On("fine"), Fail("refused", "challenge_required")} \cup Fails({"none", "garbled"}, "parser_drift")

dns_search == Tool(<< dns_page, dns_tiles, {On("fine")} \cup Doubts({"odd", "off"}) >>)

dns_card == Tool(<<
  {On("fine"), Fail("bad", "bad_request")},
  dns_page,
  {On("fine"), Doubt("off"), Fail("refused", "challenge_required"), Fail("odd", "parser_drift")} >>)

\* Fault: the wall is not looked for, and has no tiles.
SelfcheckWallBlind == Canary({"search"}, Probe("search", {}, <<
  render_json \cup All({"late", "refused"}, "inconclusive"),
  {Is("fine", "healthy")} \cup All({"refused", "odd", "none", "garbled"}, "drift") >>))

dns_selfcheck == Canary({"search"}, Probe("search", {}, <<
  render_json \cup All({"late", "refused"}, "inconclusive"),
  {Is("fine", "healthy"), Is("refused", "inconclusive")} \cup All({"odd", "none", "garbled"}, "drift") >>))

citilink_reject_qrator_wall == {On("fine"), Fail("refused", "challenge_required")}

citilink_search == Tool(<<
  dns_page,
  citilink_reject_qrator_wall,
  {On("fine")} \cup Doubts({"odd", "off"}) \cup Fails({"none", "garbled"}, "parser_drift") >>)

citilink_card == Tool(<<
  {On("fine"), Fail("bad", "bad_request")},
  dns_page,
  citilink_reject_qrator_wall,
  {On("fine"), Doubt("off"), Fail("odd", "parser_drift")} >>)

citilink_selfcheck == Canary({"search"}, Probe("search", {}, <<
  render_json \cup All({"late", "refused"}, "inconclusive"),
  {Is("fine", "healthy"), Is("refused", "inconclusive")} \cup All({"odd", "none", "garbled"}, "drift") >>))

-----------------------------------------------------------------------------
(* Lamoda: a GraphQL API over HTTPS, then in Chrome; the search in Chrome  *)

lamoda_graphql_via_cdp ==
  {On("fine"), Pause, Fail("refused", "challenge_required")}
  \cup Fails({"refused", "limited", "gone", "down", "late"}, "transport_down")

\* HTTPS answers, or Chrome is asked too.
lamoda_graphql_card == <<
  {Skip(2, "kept"), Skip(1, "fine"), On("fine"), Fail("down", "transport_down")},
  lamoda_graphql_via_cdp,
  {On("fine"), Fail("down", "transport_down"), Fail("gone", "not_found")}
    \cup Fails({"garbled", "odd"}, "parser_drift") >>

lamoda_cdp_render_search ==
  {On("kept"), On("fine"), Pause, Fail("garbled", "parser_drift")}
  \cup Fails({"late", "down", "garbled", "refused"}, "transport_down")

lamoda_anti_bot_challenge == {On("fine"), Fail("refused", "challenge_required")}

lamoda_search == Tool(<<
  lamoda_cdp_render_search,
  lamoda_anti_bot_challenge,
  {On("fine")} \cup Doubts({"odd", "off"}) \cup Fails({"none", "garbled"}, "parser_drift") >>)

lamoda_card == Tool(
  <<{On("fine"), Fail("bad", "bad_request")}>>
  \o lamoda_graphql_card
  \o <<{On("fine"), Doubt("off")}>>)

\* The error of the card read is a ToolError, whose type never names a drift.
lamoda_selfcheck == Canary({"card_graphql", "search"},
  Probe("card_graphql", {}, lamoda_graphql_card \o <<{Is("fine", "healthy"), Is("late", "inconclusive")}>>)
  \o Probe("search", {}, <<
       lamoda_cdp_render_search,
       lamoda_anti_bot_challenge,
       {Is("fine", "healthy"), Is("late", "inconclusive")} \cup All({"odd", "none", "garbled"}, "drift") >>))

-----------------------------------------------------------------------------
(* Detsky Mir: a JSON API over HTTP *)

detmir_fetch_json ==
  {On("kept"), On("fine"), Fail("limited", "rate_limited"), Fail("garbled", "parser_drift")}
  \cup Fails({"refused", "gone", "down"}, "transport_down")

detmir_parse_product == Ons({"fine", "odd", "off"})

detmir_card == Tool(<<
  {On("fine"), Fail("bad", "bad_request")},
  detmir_fetch_json,
  {On("fine"), Fail("gone", "not_found"), Fail("down", "transport_down"), Fail("garbled", "parser_drift")},
  Warning({"odd", "off"}, detmir_parse_product) >>)

detmir_category == Tool(<<
  {On("fine"), Fail("bad", "bad_request")},
  detmir_fetch_json,
  {On("fine"), Fail("garbled", "parser_drift")} \cup Fails({"gone", "down"}, "transport_down"),
  Warning({"odd", "off"}, detmir_parse_product) \cup {Doubt("none")} >>)

\* A category without its alias is not remarked.
detmir_categories == Tool(<<
  {On("fine"), Fail("bad", "bad_request")},
  detmir_fetch_json,
  {On("fine"), Fail("garbled", "parser_drift")} \cup Fails({"gone", "down"}, "transport_down"),
  Ons({"fine", "odd"}) \cup {Doubt("none")} >>)

\* Each check is a call of the tool; its last step is judged.
LOCAL Verified(t, ill) ==
  LET n == Len(t.steps)
  IN  [t.steps EXCEPT ![n] = Judging(ill, "drift", Judging({"fine", "off"} \ ill, "healthy", @))]

detmir_selfcheck == Canary({"card", "category", "categories"},
  Probe("card", Drift, Verified(detmir_card, {"odd"}))
  \o Probe("category", Drift, Verified(detmir_category, {"odd", "off", "none"}))
  \o Probe("categories", Drift, Verified(detmir_categories, {"odd", "none"})))

-----------------------------------------------------------------------------
(* Megamarket: an API asked from a page of the site in Chrome *)

\* What an answer that reports a failure comes to.
megamarket_raise_failed_envelope ==
  {On("fine"), Fail("gone", "not_found"), Fail("down", "transport_down"), Fail("garbled", "parser_drift")}
  \cup Telling({"refused"}, {Fail("refused", "transport_down")})

megamarket_cdp_post_json ==
  {On("fine"), Pause} \cup Fails({"refused", "gone", "down", "late"}, "transport_down")
  \cup Telling({"refused", "limited"}, Fails({"refused", "limited"}, "transport_down"))

megamarket_post ==
  << megamarket_cdp_post_json \cup {Skip(1, "kept")},
     {IF b.code = "none" THEN Glad(b) ELSE b : b \in megamarket_raise_failed_envelope} >>

\* Errors other than a pause of the host are passed over: no address then,
\* which the answer says, as it says when the address is the profile's own.
megamarket_resolve_address_id ==
  {On("kept"), Glad(On("fine")), Glad(Doubt("fine")), Doubt("none"), Doubt("lost"), Pause}
  \cup Telling({"refused"}, {Doubt("refused")})

\* Without the category's hints when they cannot be had, which nothing says.
megamarket_resolve_search_params ==
  {On("kept"), Glad(On("fine")), On("none"), On("lost"), Pause} \cup Telling({"refused"}, {On("refused")})

\* odd: no container, or a count above zero and no item that parses; lost:
\* the site counts goods and sends none.
megamarket_parse_items == Ons({"fine", "none", "odd", "off", "lost"})

megamarket_search == Tool(
  <<megamarket_resolve_address_id, megamarket_resolve_search_params>>
  \o megamarket_post
  \o << {On("fine"), Fail("odd", "parser_drift"), Fail("lost", "transport_down")} \cup Doubts({"none", "odd", "off"}) >>)

megamarket_card == Tool(
  <<{On("fine"), Fail("bad", "bad_request")}>>
  \o megamarket_post
  \o << {On("fine"), Fail("none", "not_found")} \cup Doubts({"odd", "off"}) >>)

megamarket_selfcheck == Canary({"search"}, Probe("search", {},
  << megamarket_resolve_address_id, megamarket_resolve_search_params>>
  \o megamarket_post
  \o << Judging({"fine", "off"}, "healthy", Judging({"odd"}, "drift",
          Judging({"none", "lost"}, "inconclusive", megamarket_parse_items))) \cup {Is("late", "inconclusive")} >>))
=============================================================================
