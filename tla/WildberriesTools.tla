--------------------------- MODULE WildberriesTools ---------------------------
(***************************************************************************)
(* The tools of Wildberries: its JSON APIs over HTTP and, when the         *)
(* operator says so (WB_TRANSPORT=dom) or the API refuses this address     *)
(* (WB_DOM_FALLBACK), its pages rendered in Chrome.                        *)
(***************************************************************************)
EXTENDS ToolSteps

LOCAL Pause == Fail("busy", "rate_limited")
LOCAL Drift == {"parser_drift"}

-----------------------------------------------------------------------------
(* The two transports *)

\* Fault: an outage counts as a refusal.
BlamesOutages(fine, step) == {Glad(fine)} \cup Telling({"refused", "limited", "down"}, step)

\* A GET of an API.  The pacer is told of 401, 403, 429 and of a page in
\* place of the JSON, and of a body that is neither.
safe_get_text(fine, step) ==
  {Glad(fine)} \cup Telling({"refused", "limited"}, step)

\* The same from the cache.
LOCAL Get(step) == safe_get_text(On("fine"), step) \cup {On("kept")}

\* Fault: the canary reads through the cache.
KeptGetText(step) == safe_get_text(On("fine"), step) \cup {On("kept")}

\* The canary's reads: never from the cache.
fresh_get_text(step) == safe_get_text(On("fine"), step)

\* The JSON, and the products in it.
expect_json_object   == {On("fine")} \cup Fails({"garbled"}, "parser_drift")
card_products_checked == {On("fine"), Fail("odd", "parser_drift")}

\* An entry that is not an object is passed over; none at all is told, and
\* so is a value out of place.
card_item_dict          == Ons({"fine", "off", "none"})
\* Fault: only an answer without items is told.
WarnsOfNone == Warning({"none"}, card_item_dict)

aggregate_offer_warnings == Warning({"off", "none"}, card_item_dict)

\* Chrome's page is ready, says that it has nothing, or time is up: a page
\* not ready is read as it is, unless a browser check is still on it.
dom_wait_ready ==
  {On("fine"), On("none"), Fail("refused", "challenge_required")}
  \cup Fails({"refused", "late"}, "transport_down")

dom_render ==
  << {Skip(2, "kept"), On("fine"), Pause} \cup Fails({"refused", "down"}, "transport_down"),
     dom_wait_ready,
     {On("fine"), Fail("late", "transport_down"), Fail("garbled", "parser_drift")} >>

\* A price whose role is unproven is left out.
assign_prices == Ons({"fine", "off"})

dom_parse_search_tile == assign_prices \cup {On("odd")}
dom_parse_search_page == Warning({"off", "odd"}, dom_parse_search_tile) \cup {On("none")}

\* Another product's page, or one without a product: no item, and a warning.
dom_parse_card_page == Warning({"off"}, assign_prices) \cup Doubts({"odd", "gone"})

wb_card_dom == dom_render \o << dom_parse_card_page >>

\* Without tiles and without the notice: a drift on the first page, and on
\* a later one it cannot be told from the list's end.
wb_search_dom ==
  dom_render \o << {IF b.met = "none" THEN On("none") ELSE b : b \in dom_parse_search_page}
                   \cup {Fail("odd", "parser_drift"), Doubt("odd")} >>

-----------------------------------------------------------------------------
(* The tools *)

\* What an API's refusal is once Chrome is no way out.
LOCAL Refusals == {Fail("refused", "transport_down"), Fail("limited", "rate_limited")}

LOCAL Arguments == {On("fine"), Fail("bad", "bad_request")}

\* The API; over it, when it refuses and may be passed by, the page.  The
\* answer then warns that it came from the page.
wb_card == Tool(
  << Arguments,
     {IF b.code = "none" THEN [b EXCEPT !.hop = 5] ELSE b : b \in Get(Refusals \cup Fails({"gone", "down"}, "transport_down"))}
       \cup Telling({"refused"}, {Doubt("refused")}) >>
  \o Then(3, wb_card_dom)
  \o << expect_json_object, card_products_checked, aggregate_offer_warnings >>)

wb_card_from_page == Tool(<<Arguments>> \o wb_card_dom)

wb_root_info == Tool(<<
  Get({Fail("limited", "transport_down"), Fail("refused", "transport_down"), Fail("gone", "not_found"),
       Fail("down", "transport_down")}),
  expect_json_object,
  {On("fine"), Fail("odd", "parser_drift")} >>)

\* The first host that answers with an object.
wb_reviews == Tool(<<
  Arguments,
  Get(Ons({"fine"}) \cup Fails({"refused", "limited", "gone", "down", "garbled"}, "transport_down")),
  {On("fine"), Doubt("off"), Fail("odd", "parser_drift")} >>)

\* Page after page, until there are enough; any page's error is the call's.
wb_questions == Tool(
  LET page == << Get(Refusals \cup Fails({"gone", "down"}, "transport_down")), expect_json_object,
                 {On("fine"), On("none"), Doubt("none"), Fail("odd", "parser_drift")} >>
  IN  <<Arguments>> \o page \o << {On("fine"), Skip(3, "fine")} >> \o page)

\* The ids of the old search, then their cards; without ids there are none.
search_via_search_goods(n) ==
  << Get(Refusals \cup Fails({"gone", "down"}, "transport_down") \cup {Fail("garbled", "parser_drift")}),
     {On("fine"), Skip(n + 3, "none"), Fail("odd", "parser_drift")},
     Get(Refusals \cup Fails({"gone", "down"}, "transport_down") \cup {Fail("garbled", "parser_drift")}),
     card_products_checked,
     {[Doubt("fine") EXCEPT !.hop = n - 1], Skip(n, "none")} >>

\* Its error is told with an answer of nothing; or it is the call's; or the
\* new search's own drift is, unless the old one was turned away.
LOCAL Told(n, steps) ==
  [i \in 1..Len(steps) |-> {IF b.code # "none" THEN [Skip(n + 5 - i, b.met) EXCEPT !.does = b.does \cup {"warn"}]
                            ELSE b : b \in steps[i]}]
LOCAL Outdone(steps) ==
  [i \in 1..Len(steps) |-> {IF b.code # "none" /\ b.met \notin {"refused", "limited"}
                            THEN [b EXCEPT !.code = "parser_drift"] ELSE b : b \in steps[i]}]

\* With products of the new search, those.  Without, for whatever reason but
\* a refusal, the old search: what it finds is told as found there, and that
\* it finds nothing is the answer.  A later page equal to the first is the end.
wb_search == Tool(
  << Arguments,
     {[On("kept") EXCEPT !.hop = 20], [Glad(On("fine")) EXCEPT !.hop = 20], [Glad(On("none")) EXCEPT !.hop = 5]}
       \cup {[On(f) EXCEPT !.hop = 10] : f \in {"down", "gone"}}
       \cup {[On(f) EXCEPT !.hop = 15] : f \in {"garbled", "odd"}}
       \cup Telling({"refused", "limited"}, Refusals \cup {Doubt("refused")}) >>
  \o Then(17, wb_search_dom)
  \o Told(12, search_via_search_goods(12))
  \o search_via_search_goods(7)
  \o Outdone(search_via_search_goods(2))
  \o << {On("fine"), Skip(1, "none"), Doubt("odd")}, aggregate_offer_warnings >>)

wb_search_from_page == Tool(<<Arguments>> \o wb_search_dom)

\* The mirrors in turn.
fetch_first_json ==
  Get({Fail("limited", "rate_limited")} \cup Fails({"refused", "gone", "down", "garbled"}, "transport_down"))

wb_seller == Tool(<<
  fetch_first_json,
  {On("fine"), Doubt("off"), Fail("garbled", "parser_drift"), Fail("none", "not_found")} >>)

find_menu_subtree == {On("fine"), Fail("none", "not_found")}

\* lost: the menu has more nodes than are returned.
menu_node == {On("fine"), Doubt("lost")}

wb_categories == Tool(<< fetch_first_json \cup {Fail("garbled", "parser_drift")}, find_menu_subtree, menu_node >>)

wb_category_products == Tool(<<
  Arguments,
  Get(Refusals \cup {Fail("gone", "not_found"), Fail("down", "transport_down")}),
  expect_json_object, card_products_checked, aggregate_offer_warnings >>)

-----------------------------------------------------------------------------
(* The selfcheck: five probes, two of them of the page under WB_TRANSPORT=dom *)

\* A status is not judged, a body that is no object is a drift.
LOCAL Probed ==
  fresh_get_text(All({"refused", "limited", "gone", "down", "late"}, "inconclusive") \cup {Is("garbled", "drift")})

selfcheck_card == Probe("card", {},
  << Probed, {Is("fine", "healthy"), Is("none", "inconclusive"), Is("odd", "drift")} >>)

\* Fault: a pool without the fields that are needed is put down to the item.
ReviewsUnjudged == Probe("reviews", {},
  << Probed, {Is("fine", "healthy")} \cup All({"none", "odd"}, "inconclusive") >>)

selfcheck_reviews == Probe("reviews", {},
  << Probed, {Is("fine", "healthy"), Is("none", "inconclusive"), Is("odd", "drift")} >>)

selfcheck_search_goods == Probe("search_goods", {},
  << Probed, {Is("fine", "healthy"), Is("none", "inconclusive"), Is("odd", "drift")} >>)

\* A body of null is no check at all.
selfcheck_search_v9 == Probe("search_v9", {},
  << Probed \cup {Skip(1, "none")}, {Is("fine", "healthy")} \cup All({"none", "odd"}, "drift") >>)

\* Fault: any object will do.
BasketAnyObject == Probe("root_basket", {}, << Probed, All({"fine", "odd"}, "healthy") >>)

selfcheck_root_basket == Probe("root_basket", {},
  << Probed, {Is("fine", "healthy"), Is("odd", "drift")} >>)

\* The baseline's page, read once, from the cache when it is there.
wb_dom_selfcheck(want) ==
  Probe(want, Drift,
        dom_render
        \o << {Is("fine", "healthy"), Is("none", "inconclusive"), Is("odd", "drift")} >>)

wb_selfcheck == Canary({"card", "reviews", "search_goods", "search_v9", "root_basket"},
  selfcheck_card \o selfcheck_reviews \o selfcheck_search_goods \o selfcheck_search_v9 \o selfcheck_root_basket)

wb_selfcheck_of_pages == Canary({"card", "reviews", "search_goods", "search_v9", "root_basket"},
  wb_dom_selfcheck("card") \o selfcheck_reviews \o selfcheck_search_goods \o wb_dom_selfcheck("search_v9")
  \o selfcheck_root_basket)
=============================================================================
