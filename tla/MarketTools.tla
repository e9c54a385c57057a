----------------------------- MODULE MarketTools -----------------------------
(***************************************************************************)
(* The tools of Ozon and Yandex Market.                                    *)
(***************************************************************************)
EXTENDS ToolSteps

LOCAL Pause == Fail("busy", "rate_limited")
LOCAL Drift == {"parser_drift"}

-----------------------------------------------------------------------------
(* Ozon: its page API, by a worker process over HTTPS, then in Chrome.  The *)
(* pacer is told nothing; the status goes back to the tool.                *)

ozon_canonical_product_path == {On("fine"), Fail("bad", "bad_request")}

\* A JSON body, or whatever else came: Chrome is asked then.
ozon_sync_call_in_process == {Skip(1, "kept"), Skip(1, "fine"), On("none")}

\* Whatever came, the caller judges it.
ozon_cdp_fetch_json == {On("fine"), Pause}

ozon_fetch_composer == <<ozon_sync_call_in_process, ozon_cdp_fetch_json>>

\* The status and the body as a tool reads them; the last answer counts.
ozon_page ==
  {On("fine")} \cup Fails({"refused", "limited", "gone", "down", "late"}, "transport_down")
  \cup Fails({"garbled", "odd"}, "parser_drift")

\* A widget that does not parse is passed over.
ozon_parse_widgets == Ons({"fine", "none", "off"})

ozon_blocked_error == {Fail("refused", "transport_down")}

ozon_card == Tool(
  <<ozon_canonical_product_path>>
  \o ozon_fetch_composer
  \o << ozon_page \cup ozon_blocked_error, Warning({"off"}, ozon_parse_widgets) >>)

\* Reviews as they are; one already had is dropped.
ozon_parse_review_item == Ons({"fine", "none", "off"})

\* lost: the next page's button leads elsewhere, or ten pages were not enough.
ozon_safe_review_page_path == Ons({"fine", "lost"})

\* The first page's errors are the tool's.  Those of a later one stop the
\* reading: stop_reason and last_error tell of it, and no warning.
ozon_reviews == Tool(
  <<ozon_canonical_product_path>>
  \o ozon_fetch_composer
  \o << ozon_page \cup ozon_blocked_error,
        Warning({"off"}, ozon_parse_review_item),
        ozon_safe_review_page_path \cup {On("none")} >>
  \o ozon_fetch_composer
  \o << Ons({"fine", "none", "refused", "limited", "gone", "down", "late", "garbled", "odd"}) >>)

\* A price, a title or a rating that is not where it was is left out.
ozon_parse_search_tile == Ons({"fine", "off"})

\* The tiles that have a title and an id; odd: those of too many lost a field.
ozon_search_items_from_payload == ozon_parse_search_tile \cup Ons({"none", "odd"})

ozon_search == Tool(
  <<{On("fine"), Fail("bad", "bad_request")}>>
  \o ozon_fetch_composer
  \o << ozon_page \cup ozon_blocked_error, Warning({"none", "off", "odd"}, ozon_search_items_from_payload) >>)

\* One of the four checks: a status is not judged, nor is a body that is not
\* an object; a smoke test that raises or finds nothing is a drift.
LOCAL OzonCheck(name) ==
  Probe(name, {},
        ozon_fetch_composer
        \o << {On("fine")} \cup All({"refused", "limited", "gone", "down", "late", "garbled"}, "inconclusive"),
              {Is("fine", "healthy")} \cup All({"odd", "none", "off"}, "drift") >>)

ozon_selfcheck == Canary({"search", "card", "reviews", "reviews_sort"},
  OzonCheck("search") \o OzonCheck("card") \o OzonCheck("reviews") \o OzonCheck("reviews_sort"))

-----------------------------------------------------------------------------
(* Yandex Market: the page as the server renders it                        *)

yandex_fetch_html ==
  {On("kept"), On("fine"), Fail("limited", "rate_limited"), Fail("gone", "not_found")}
  \cup Fails({"down"}, "transport_down")

\* A captcha is Yandex's way to say that there were too many requests.
looks_like_captcha == {On("fine"), Fail("limited", "rate_limited")}

\* The result's collections, else the payloads of the first screen, else the
\* structured data, which is poorer; else the notice that nothing was found,
\* without which the page is not understood.
find_search_collections == {Skip(2, "fine"), On("none")}
parse_zone_items        == {Skip(1, "fine"), On("none")}
ldjson_item_list        == {Doubt("lost"), On("none"), Fail("odd", "parser_drift")}

parse_search == <<find_search_collections, parse_zone_items, ldjson_item_list>>

guard_values_drift == {On("fine"), Fail("odd", "parser_drift")}

\* A price that does not read as one is left out, and told.
refused_price_warnings == {On("fine"), Doubt("off")}

yandex_search == Tool(
  << {On("fine"), Fail("bad", "bad_request")}, yandex_fetch_html, looks_like_captcha >>
  \o parse_search
  \o << guard_values_drift, refused_price_warnings >>)

\* A frame with no product in it is a page served in part.
empty_product_shell == {On("fine"), Fail("down", "transport_down")}

\* Each entity's fullest copy among the patches of the page.
merge_card_collections == {On("fine"), Fail("odd", "parser_drift")}

\* The rating and the prices; either may be wanting.
parse_card == {On("fine"), Doubt("off"), Doubt("none")}

parse_reviews == Ons({"fine", "none"})

yandex_card == Tool(<<
  {On("fine"), Fail("bad", "bad_request")}, yandex_fetch_html, looks_like_captcha,
  empty_product_shell, merge_card_collections, parse_card, parse_reviews >>)

\* The search's result, degraded or priced; then the card of its first item,
\* of whatever verdict the search was.
yandex_selfcheck == Canary({"search", "card"},
  Probe("search", Drift,
    [yandex_search.steps EXCEPT ![6] = Judging({"lost"}, "inconclusive", @)]
    \o << {Is("fine", "healthy")} \cup All({"none", "odd"}, "drift") >>)
  \o ProbeAfter({"healthy", "drift", "inconclusive"}, "card", Drift,
    yandex_card.steps \o << {Is("fine", "healthy"), Is("odd", "drift")} >>))
=============================================================================
