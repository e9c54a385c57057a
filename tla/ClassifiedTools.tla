--------------------------- MODULE ClassifiedTools ---------------------------
(***************************************************************************)
(* The tools of the classifieds: Avito, Drom and Cian.                     *)
(***************************************************************************)
EXTENDS ToolSteps

LOCAL Pause == Fail("busy", "rate_limited")
LOCAL Drift == {"parser_drift"}

-----------------------------------------------------------------------------
(* Avito *)

avito_fetch == {On("kept"), Glad(On("fine")), On("fine"), Pause}

avito_fetch_item_page == {On("fine"), Pause}

avito_raise_for_fetch_failure ==
  Telling({"refused", "limited"}, Fails({"refused", "limited", "down"}, "transport_down"))
  \cup {Fail("gone", "not_found")}

avito_check_rendered_page == avito_fetch_item_page \cup avito_raise_for_fetch_failure

avito_raise_for_search_error ==
  {Fail("refused", "challenge_required"), Fail("limited", "rate_limited"), Fail("down", "transport_down")}

avito_parse_search_items ==
  avito_raise_for_search_error \cup {Fail("odd", "parser_drift")} \cup Ons({"fine", "odd", "off", "none"})

avito_search == Tool(<<
  {On("fine"), Fail("bad", "bad_request")},
  avito_fetch \cup avito_raise_for_fetch_failure \cup {Fail("garbled", "parser_drift")},
  Telling({"refused", "limited"}, Warning({"odd", "off"}, avito_parse_search_items)) >>)

avito_parse_item_dom == {On("fine"), Fail("garbled", "parser_drift")}

\* Another product than the one asked for, or one without a name and a price.
parse_item_page == {On("fine"), Fail("gone", "not_found"), Fail("odd", "parser_drift")} \cup avito_parse_item_dom

parse_item_seller == Ons({"fine", "none"})

parse_seller_profile == {On("fine"), On("off"), Fail("gone", "not_found"), Fail("garbled", "parser_drift")}

avito_card == Tool(<<
  {On("fine"), Fail("bad", "bad_request")},
  avito_check_rendered_page,
  parse_item_page,
  {Glad(b) : b \in parse_item_seller},
  {On("fine"), Doubt("off")} >>)

avito_seller == Tool(<<
  {On("fine"), Fail("bad", "bad_request")},
  avito_check_rendered_page,
  Warning({"off"}, {IF b.code = "none" THEN Glad(b) ELSE b : b \in parse_seller_profile}) >>)

avito_selfcheck == Canary({"search", "card", "seller"},
  Probe("search", Drift, <<
    avito_fetch \cup All({"late", "down", "refused", "limited", "gone", "garbled"}, "inconclusive"),
    Telling({"refused", "limited"},
            Judging({"fine", "off"}, "healthy", Judging({"odd", "none"}, "drift", avito_parse_search_items))) >>)
  \o ProbeAfter({"healthy"}, "card", Drift,
       avito_card.steps \o << {Is("fine", "healthy"), Is("odd", "drift"), Is("late", "inconclusive")} >>)
  \o ProbeAfter({"healthy", "drift"}, "seller", Drift,
       avito_seller.steps \o << {Is("fine", "healthy"), Is("odd", "drift"), Is("late", "inconclusive")} >>))

-----------------------------------------------------------------------------
(* Drom *)

\* A status other than 200 that is not a refusal goes back to the tool.
drom_fetch ==
  {On("kept"), Glad(On("fine")), Pause, Fail("refused", "transport_down"), Fail("down", "transport_down")}
  \cup Telling({"refused", "limited"}, Fails({"refused", "limited"}, "transport_down"))

\* The rows there are; a page of another kind has none.
drom_parse_search_html == Ons({"fine", "odd", "none", "garbled"})

drom_parse_card_html == Ons({"fine", "odd", "garbled"})

\* The name falls back to the seller's id.
drom_parse_seller_html == Ons({"fine", "garbled"})

\* Warns only of a count that says there should have been rows.
drom_search == Tool(<<
  drom_fetch \cup Fails({"gone"}, "transport_down"),
  drom_parse_search_html \cup {Doubt("garbled")} >>)

drom_card == Tool(<<
  {On("fine"), Fail("bad", "bad_request")},
  drom_fetch \cup {Fail("gone", "not_found")},
  Warning({"odd", "garbled"}, drom_parse_card_html) >>)

\* The original or the large picture, from the network or from Chrome.
drom_download_photo == {On("fine"), On("lost")}

\* What is not had is told in the answer's first lines.
drom_card_photos == Tool(<<
  {On("fine"), Fail("bad", "bad_request"), Skip(3, "fine"), Fail("lost", "transport_down")},
  drom_fetch \cup {Fail("gone", "not_found")},
  {On("fine"), Skip(1, "none"), Skip(1, "garbled")},
  Warning({"lost"}, drom_download_photo) \cup {Fail("lost", "transport_down")} >>)

\* Without the feedbacks when their page cannot be had.
drom_seller == Tool(<<
  {On("fine"), Fail("bad", "bad_request")},
  drom_fetch \cup {Fail("gone", "not_found")},
  {On("kept"), Glad(On("fine")), On("lost")},
  drom_parse_seller_html >>)

drom_selfcheck == Canary({"search", "card"},
  Probe("search", {}, <<
    drom_fetch \cup {Is("gone", "inconclusive")},
    Judging({"fine"}, "healthy", Judging({"odd", "none", "garbled"}, "drift", drom_parse_search_html)) >>)
  \o Probe("card", {}, <<
    drom_fetch \cup {Is("gone", "inconclusive")},
    Judging({"fine"}, "healthy", Judging({"odd", "garbled"}, "drift", drom_parse_card_html)) >>))

-----------------------------------------------------------------------------
(* Cian *)

\* _fetch_search() and _fetch_card(): Chrome's refusal is told at once, the
\* one in a status or a page when the tool fails on it.
cian_fetch_search == {On("kept"), Glad(On("fine")), Pause}
cian_fetch_card   == cian_fetch_search

cian_raise_for_fetch_failure ==
  Telling({"refused", "limited"}, Fails({"refused", "limited", "down"}, "transport_down"))
  \cup {Fail("gone", "not_found")}

cian_parse_offers == Ons({"fine", "none"}) \cup {Fail("odd", "parser_drift")}

cian_offer_row == Ons({"fine", "off"})

cian_parse_card == cian_offer_row \cup {Fail("odd", "parser_drift")}

cian_search == Tool(<<
  {On("fine"), Fail("bad", "bad_request")},
  cian_fetch_search \cup cian_raise_for_fetch_failure \cup {Fail("garbled", "parser_drift")},
  cian_parse_offers \cup {Doubt("odd")},
  Warning({"off"}, cian_offer_row) >>)

\* The page's own state says what kind of page it is.
cian_card == Tool(<<
  {On("fine"), Fail("bad", "bad_request")},
  cian_fetch_card \cup cian_raise_for_fetch_failure \cup Fails({"garbled", "odd"}, "parser_drift"),
  Warning({"off"}, cian_parse_card) \cup {Doubt("odd")} >>)

\* The card's smoke test counts every kind of page but an offer's as drift.
cian_selfcheck == Canary({"search", "card"},
  Probe("search", {}, <<
    Telling({"refused"}, {Is("refused", "inconclusive")}) \cup cian_fetch_search
      \cup All({"late", "down", "refused", "limited", "gone", "garbled"}, "inconclusive"),
    {Is("fine", "healthy"), Is("odd", "drift"), Is("none", "drift")} >>)
  \o ProbeAfter({"healthy"}, "card", {}, <<
    Telling({"refused"}, {Is("refused", "inconclusive")}) \cup cian_fetch_card
      \cup All({"late", "down", "refused", "limited", "garbled"}, "inconclusive"),
    {Is("fine", "healthy")} \cup All({"odd", "gone", "refused", "down"}, "drift") >>))
=============================================================================
