------------------------------ MODULE AsiaTools ------------------------------
(***************************************************************************)
(* The tools of Taobao and AliExpress, read in Chrome, and of MPStats, the *)
(* analytics service, read over HTTP with the user's own token.            *)
(***************************************************************************)
EXTENDS ToolSteps

LOCAL Pause == Fail("busy", "rate_limited")

-----------------------------------------------------------------------------
(* Taobao *)

\* late: the grid was still loading when the read's time was over.
taobao_cdp_render ==
  {On("fine"), Pause, Fail("garbled", "parser_drift")} \cup Fails({"down", "garbled"}, "transport_down")

taobao_page == taobao_cdp_render \cup {On("kept"), Fail("refused", "transport_down")}

taobao_login_wall_markers == {On("fine"), Fail("refused", "challenge_required")}
taobao_anti_bot_challenge == taobao_login_wall_markers

taobao_search == Tool(<<
  taobao_page, taobao_login_wall_markers, taobao_anti_bot_challenge,
  {On("fine"), Fail("late", "timeout")} \cup Fails({"none", "garbled"}, "parser_drift") \cup Doubts({"odd", "off"}) >>)

\* A Tmall item is no Taobao item, by its address or by where it leads.
taobao_card == Tool(<<
  {On("fine"), Fail("bad", "bad_request")},
  taobao_page \cup {Fail("bad", "bad_request"), Fail("down", "transport_down")},
  taobao_login_wall_markers, taobao_anti_bot_challenge,
  {On("fine"), Fail("gone", "not_found"), Fail("odd", "parser_drift"), Doubt("off")} >>)

taobao_selfcheck == Canary({"search"}, Probe("search", {}, <<
  taobao_cdp_render \cup All({"late", "refused"}, "inconclusive"),
  taobao_login_wall_markers, taobao_anti_bot_challenge,
  {Is("fine", "healthy"), Is("late", "inconclusive")} \cup All({"odd", "none", "garbled"}, "drift") >>))

-----------------------------------------------------------------------------
(* AliExpress *)

aliexpress_cdp_render_search == {On("fine"), Pause, Fail("down", "transport_down"), Fail("garbled", "parser_drift")}

\* lost: the grid has more tiles than are read.
aliexpress_search == Tool(<<
  aliexpress_cdp_render_search
    \cup {Skip(1, "kept"), Fail("refused", "transport_down")},
  {On("fine")} \cup Telling({"refused"}, {Fail("refused", "challenge_required")}),
  {On("fine")} \cup Fails({"none", "garbled"}, "parser_drift") \cup Doubts({"odd", "off", "lost"}) >>)

\* The landing page, the item's tab opened from it, and what it shows.  When
\* the attempts are over before the price is there (late), the tool goes on.
aliexpress_cdp_card == <<
  {On("fine"), Pause, Fail("down", "transport_down")},
  {On("fine"), Fail("down", "transport_down")},
  {On("fine"), Fail("down", "transport_down"), Fail("garbled", "parser_drift")}
    \cup Telling({"refused"}, {Fail("refused", "challenge_required")}) >>

LOCAL Refusable(steps) == [steps EXCEPT ![1] = @ \cup {Fail("refused", "transport_down")}]

aliexpress_card == Tool(
  << {On("fine"), Fail("bad", "bad_request"), Skip(3, "kept")} >>
  \o Refusable(aliexpress_cdp_card)
  \o << {On("fine"), Fail("odd", "parser_drift")} \cup Doubts({"off", "late"}) >>)

aliexpress_selfcheck == Canary({"search"},
  Probe("search", {}, <<
    aliexpress_cdp_render_search \cup All({"late", "refused"}, "inconclusive"),
    {Is("fine", "healthy"), Is("refused", "inconclusive")} \cup All({"odd", "none", "garbled"}, "drift") >>)
  \o ProbeAfter({"healthy"}, "card", {},
       Refusable(aliexpress_cdp_card)
       \o << {Is("fine", "healthy"), Is("odd", "drift")} \cup All({"late", "refused"}, "inconclusive") >>))

-----------------------------------------------------------------------------
(* MPStats *)

mpstats_post_json_budgeted == {On("fine")} \cup Fails({"down", "late"}, "transport_down")

\* A status other than 200 is no refusal to the pacer; the service says one
\* in the body, or sends a page instead of JSON.
mpstats_call == <<
  {On("fine"), Fail("locked", "auth_missing"), Skip(1, "kept")},
  mpstats_post_json_budgeted
    \cup Telling({"limited"}, {Fail("limited", "rate_limited")})
    \cup Telling({"refused"}, {Fail("refused", "transport_down")})
    \cup Fails({"refused", "gone", "down"}, "transport_down"),
  {Glad(On("fine")), Fail("garbled", "parser_drift"), Fail("down", "transport_down")}
    \cup Telling({"refused"}, {Fail("refused", "auth_missing")}) >>

mpstats_validate_skus == {On("fine"), Fail("bad", "bad_request")}

mpstats_parse_item_entry      == {On("fine"), Doubt("off")}
mpstats_parse_warehouse_entry == {On("fine"), Doubt("off")}

\* lost: nothing is known of some of the SKUs; none: of any.
mpstats_item == Tool(
  <<mpstats_validate_skus>> \o mpstats_call
  \o << mpstats_parse_item_entry
        \cup {Fail("odd", "parser_drift"), Doubt("lost"), Fail("none", "not_found")} >>)

mpstats_warehouses == Tool(
  <<mpstats_validate_skus>> \o mpstats_call
  \o << mpstats_parse_warehouse_entry
        \cup {Fail("odd", "parser_drift"), Doubt("lost"), Fail("none", "not_found")} >>)

mpstats_selfcheck == Canary({"item"},
  Probe("auth", {}, << {On("fine"), Is("locked", "inconclusive")} >>)
  \o << After({"none"}, {On("fine")}) \cup After({"inconclusive"}, {Skip(4, "none")}) >>
  \o Probe("item", {}, mpstats_call \o << {Is("fine", "healthy")} \cup All({"odd", "none"}, "drift") >>))
=============================================================================
