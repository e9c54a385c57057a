SPECIFICATION AgentSpec
CONSTANTS
  Tools <- MCTools
  Table <- MCTable
  Silent = {"drom_search", "drom_seller", "drom_card_photos", "megamarket_search", "detmir_categories", "ozon_reviews", "wb_search"}
  Hasty = {"cian_selfcheck", "megamarket_selfcheck"}
  Stale = {"avito_selfcheck", "drom_selfcheck", "cian_selfcheck", "megamarket_selfcheck", "lamoda_selfcheck", "detmir_selfcheck", "ozon_selfcheck", "yandex_selfcheck", "mpstats_selfcheck", "wb_selfcheck_of_pages"}
  Blind = {"lamoda_selfcheck"}
  Requests <- MCRequests
  Searchable <- MCSearchable
  Known <- MCKnown
  Chosen <- MCChosen
  Installed <- MCInstalled
  Rows <- MCRows
  Excused = {"wildberries", "megamarket", "drom"}
  Identities <- MCIdentities
  Popup = "popup"
  Promos = {"promo"}
  Foreign = {"foreign"}
  Comes <- MCComes
  Rounds = 1
  Results = {"page", "refusal"}
  MaxText = 5
  Installs = {"first", "second"}
  Orders <- MCOrders
  MaxChanges = 1
  MaxSecond = 1
INVARIANTS HealthTrue CodeFits VerdictEarned PacerToldTrue CheapestReal NothingLost CompleteTrue VerifiedTrue TabsSettled WorkerSettled 
PROPERTIES ComparisonsEnd ConfigKept
