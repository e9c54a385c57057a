---------------------------- MODULE MCSourceTools ----------------------------
(***************************************************************************)
(* The tools of every connector.                                           *)
(***************************************************************************)
EXTENDS SourceTools

C == INSTANCE ClassifiedTools
R == INSTANCE RetailTools
A == INSTANCE AsiaTools
M == INSTANCE MarketTools
W == INSTANCE WildberriesTools

MCTable ==
  [avito_search |-> C!avito_search, avito_card |-> C!avito_card, avito_seller |-> C!avito_seller,
   avito_selfcheck |-> C!avito_selfcheck, drom_search |-> C!drom_search, drom_card |-> C!drom_card,
   drom_card_photos |-> C!drom_card_photos, drom_seller |-> C!drom_seller,
   drom_selfcheck |-> C!drom_selfcheck, cian_search |-> C!cian_search, cian_card |-> C!cian_card,
   cian_selfcheck |-> C!cian_selfcheck, dns_search |-> R!dns_search, dns_card |-> R!dns_card,
   dns_selfcheck |-> R!dns_selfcheck, citilink_search |-> R!citilink_search,
   citilink_card |-> R!citilink_card, citilink_selfcheck |-> R!citilink_selfcheck,
   lamoda_search |-> R!lamoda_search, lamoda_card |-> R!lamoda_card,
   lamoda_selfcheck |-> R!lamoda_selfcheck, detmir_card |-> R!detmir_card,
   detmir_category |-> R!detmir_category, detmir_categories |-> R!detmir_categories,
   detmir_selfcheck |-> R!detmir_selfcheck, megamarket_search |-> R!megamarket_search,
   megamarket_card |-> R!megamarket_card, megamarket_selfcheck |-> R!megamarket_selfcheck,
   taobao_search |-> A!taobao_search, taobao_card |-> A!taobao_card,
   taobao_selfcheck |-> A!taobao_selfcheck, aliexpress_search |-> A!aliexpress_search,
   aliexpress_card |-> A!aliexpress_card, aliexpress_selfcheck |-> A!aliexpress_selfcheck,
   mpstats_item |-> A!mpstats_item, mpstats_warehouses |-> A!mpstats_warehouses,
   mpstats_selfcheck |-> A!mpstats_selfcheck, ozon_card |-> M!ozon_card,
   ozon_reviews |-> M!ozon_reviews, ozon_search |-> M!ozon_search,
   ozon_selfcheck |-> M!ozon_selfcheck, yandex_search |-> M!yandex_search,
   yandex_card |-> M!yandex_card, yandex_selfcheck |-> M!yandex_selfcheck, wb_card |-> W!wb_card,
   wb_card_from_page |-> W!wb_card_from_page, wb_root_info |-> W!wb_root_info,
   wb_reviews |-> W!wb_reviews, wb_questions |-> W!wb_questions, wb_search |-> W!wb_search,
   wb_search_from_page |-> W!wb_search_from_page, wb_seller |-> W!wb_seller,
   wb_categories |-> W!wb_categories, wb_category_products |-> W!wb_category_products,
   wb_selfcheck |-> W!wb_selfcheck, wb_selfcheck_of_pages |-> W!wb_selfcheck_of_pages]

MCTools == DOMAIN MCTable
=============================================================================
