SPECIFICATION Spec
CONSTANTS
  Calls = {c1, c2}
  Keys = {k1}
  None = None
  Sources = {"cian", "ozon", "drom", "drom_proxied", "wb_gated", "wb_open", "lamoda_card", "lamoda_search", "megamarket", "dns", "taobao", "aliexpress_search", "aliexpress_card", "mpstats"}
  MinGap = 1
  ErrorDelay = 2
  TTL = 2
  Retries = 1
INVARIANTS AnswersCurrent BestTold
PROPERTIES PenaltyEarned CallsAnswered
