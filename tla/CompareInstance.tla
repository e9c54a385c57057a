---------------------------- MODULE CompareInstance ----------------------------
(***************************************************************************)
(* Comparisons over one or two sources at a time, the seven kinds of       *)
(* source among them: conditional prices, variants, yuan, stock, rows      *)
(* without an id.                                                          *)
(***************************************************************************)
EXTENDS Integers, Sequences

Row(id, variant, price, kind, stock, apt) ==
  [id |-> id, variant |-> variant, price |-> price, kind |-> kind, stock |-> stock, apt |-> apt]

MCKnown == {"wildberries", "yandex_market", "ozon", "avito", "taobao", "megamarket", "lamoda", "dns",
            "citilink", "aliexpress", "drom"}

MCInstalled == MCKnown \ {"citilink"}
MCChosen    == MCKnown \ {"drom"}

Plain == {Row("a", "", 2, "regular", "untold", TRUE), Row("", "", 1, "regular", "untold", TRUE)}

MCRows == [s \in MCKnown |->
  CASE s = "wildberries"   -> {Row("a", "", 2, "regular", "in", TRUE), Row("a", "", 1, "wallet", "in", TRUE),
                               Row("b", "", 1, "regular", "untold", FALSE)}
    [] s = "yandex_market" -> {Row("a", "x", 2, "regular", "in", TRUE), Row("a", "y", 1, "subscription", "in", TRUE),
                               Row("c", "", 1, "regular", "out", FALSE)}
    [] s = "ozon"          -> {Row("a", "", 1, "regular", "out", TRUE), Row("b", "", 3, "regular", "in", TRUE)}
    [] s = "megamarket"    -> {Row("a", "", 1, "regular", "in", TRUE), Row("b", "", 0, "regular", "in", TRUE)}
    [] OTHER               -> Plain]

Request(sources, limit, in_stock_only) == [sources |-> sources, limit |-> limit, in_stock_only |-> in_stock_only]

MCSearchable == <<"wildberries", "taobao", "drom">>

MCRequests ==
  {Request(s, 2, stock) : s \in {<<>>, <<"wildberries", "yandex_market">>, <<"ozon", "megamarket">>}, stock \in BOOLEAN}
  \cup {Request(s, 1, FALSE) : s \in {<<"wildberries", "wildberries">>, <<"avito", "lamoda">>, <<"dns", "aliexpress">>}}
  \cup {Request(s, 2, FALSE) : s \in {<<"citilink">>, <<"ozon", "citilink">>, <<"drom">>, <<"amazon", "ozon">>}}

MCIdentities ==
  [brand : {"", "a", "b"}, gtin : {"", "a", "b", "invalid"}, mpn : {"", "a", "b"}, model : {"", "a"},
   variant : {"", "a", "b"}]
=============================================================================
