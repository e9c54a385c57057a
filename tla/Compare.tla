------------------------------- MODULE Compare -------------------------------
(***************************************************************************)
(* compare_connector/server.py: one comparison.  compare_prices() asks the *)
(* search of every requested source at once, each under a timeout of its   *)
(* own, and makes one answer of whatever came: offers ranked by price, the *)
(* cheapest, and whether the comparison is complete.  A client may then    *)
(* have an offer of the answer verified on the source's card, or compare   *)
(* two product identities.                                                 *)
(*                                                                         *)
(* A row is what a source's search lists: an id (Blank: it had none) and   *)
(* the variant of the product, a price (NoPrice: none) of some kind, the   *)
(* stock, and whether it is what the query asks for rather than an         *)
(* accessory, a used one or another size.                                  *)
(***************************************************************************)
EXTENDS Integers, FiniteSets, Sequences

CONSTANTS
  Requests,    \* what callers ask: [sources, limit, in_stock_only]
  Searchable,  \* SEARCHABLE: the sources asked when the caller names none
  Known,       \* _SEARCH_IMPLS
  Chosen,      \* MARKETPLACE_SOURCES, or every source
  Installed,   \* SOURCES
  Rows,        \* a function from sources to the rows they may list
  Silent,      \* sources whose search may call itself healthy over a doubt
  Excused,     \* sources CompleteTrue does not speak of
  Identities   \* the product identities compared

VARIABLES
  request,   \* what is asked now, or Idle
  calls,     \* for each active place of the request: Asking, or what became of it
  answer,    \* the CompareResponse, or none
  checked    \* the last verification or identity match, or none

vars == <<request, calls, answer, checked>>

Blank   == ""
NoPrice == 0
Idle    == [limit |-> 0]
None    == [status |-> "none"]
Asking  == [status |-> "asking"]

-----------------------------------------------------------------------------
(* What a source's rows become *)

Offer(s, r, rub, kind, currency, stock) ==
  [source |-> s, id |-> r.id, variant |-> r.variant, rub |-> rub, kind |-> kind, currency |-> currency, stock |-> stock, apt |-> r.apt]

Everyday(r) == IF r.kind = "regular" THEN r.price ELSE NoPrice

search_wildberries(r) == Offer("wildberries", r, Everyday(r), r.kind, "rub", r.stock)
search_yandex(r)      == Offer("yandex_market", r, Everyday(r), r.kind, "rub", r.stock)
search_ozon(r)        == Offer("ozon", r, r.price, "", "rub", r.stock)
search_megamarket(r)  == Offer("megamarket", r, r.price, "", "rub", r.stock)
search_taobao(r)      == Offer("taobao", r, NoPrice, "", "cny", "untold")
search_avito(r)       == Offer("avito", r, r.price, "", "rub", "untold")
search_lamoda(r)      == Offer("lamoda", r, r.price, "", "rub", "untold")
search_dns(r)         == Offer("dns", r, r.price, "", "rub", "untold")
search_citilink(r)    == Offer("citilink", r, r.price, "", "rub", "untold")
search_aliexpress(r)  == Offer("aliexpress", r, r.price, "", "rub", "untold")
search_drom(r)        == Offer("drom", r, r.price, "", "rub", "untold")

OfferOf(s, r) ==
  CASE s = "wildberries"   -> search_wildberries(r)
    [] s = "yandex_market" -> search_yandex(r)
    [] s = "ozon"          -> search_ozon(r)
    [] s = "megamarket"    -> search_megamarket(r)
    [] s = "taobao"        -> search_taobao(r)
    [] s = "avito"         -> search_avito(r)
    [] s = "lamoda"        -> search_lamoda(r)
    [] s = "dns"           -> search_dns(r)
    [] s = "citilink"      -> search_citilink(r)
    [] s = "aliexpress"    -> search_aliexpress(r)
    [] s = "drom"          -> search_drom(r)

FirstOf(seq, n) == SubSeq(seq, 1, IF Len(seq) < n THEN Len(seq) ELSE n)

\* What a source may answer: rows, the verdict and the warnings of its _meta,
\* and (ghost) whether all it was asked for is there and in order.  A verdict
\* "yes" over a doubt is what SourceTools.HealthTrue rules out but for some, and
\* Wildberries' answer of no results has no _meta at all.
Meta(s) ==
  {[healthy |-> "yes", warned |-> w, whole |-> TRUE] : w \in BOOLEAN}
  \cup {[healthy |-> "no", warned |-> w, whole |-> FALSE] : w \in BOOLEAN}
  \cup {[healthy |-> "yes", warned |-> FALSE, whole |-> FALSE] : t \in Silent \cap {s}}

Response(s) ==
  {[rows |-> rows, meta |-> m] : rows \in UNION {[1..n -> Rows[s]] : n \in 0..2}, m \in Meta(s)}
  \cup {[rows |-> <<>>, meta |-> [healthy |-> "untold", warned |-> FALSE, whole |-> w]] :
          w \in {u \in BOOLEAN : s = "wildberries"}}

\* Fault: an unhealthy answer is told only by its own warnings.
OfferBatchAsTold(s, m, limit) ==
  [offers |-> [i \in DOMAIN FirstOf(m.rows, limit) |-> OfferOf(s, m.rows[i])],
   healthy |-> m.meta.healthy,
   warned |-> m.meta.warned]

\* OfferBatch: a verdict of unhealthy without a warning becomes one.
OfferBatch(s, m, limit) ==
  [offers |-> [i \in DOMAIN FirstOf(m.rows, limit) |-> OfferOf(s, m.rows[i])],
   healthy |-> m.meta.healthy,
   warned |-> m.meta.warned \/ m.meta.healthy = "no"]

-----------------------------------------------------------------------------
(* One source *)

\* given (ghost): the rows asked for, and whether they were all there was.
Outcome(s, status, offers, warned, given, whole) ==
  [source |-> s, status |-> status, offers |-> offers, warned |-> warned, given |-> given, whole |-> whole]

Failed(s, status) == Outcome(s, status, <<>>, FALSE, <<>>, FALSE)

\* The errors of a source: the codes of mcp_core, or an exception of another kind.
Errors == {"challenge_required", "rate_limited", "transport_down", "timeout", "parser_drift", "untyped"}

source_error(code) ==
  CASE code \in {"challenge_required", "rate_limited", "transport_down"} -> "blocked"
    [] code = "timeout" -> "timeout"
    [] OTHER            -> "error"

run_source(s, m, limit) ==
  LET batch == OfferBatch(s, m, limit)
  IN  Outcome(s, IF batch.offers = <<>> /\ batch.healthy = "no" THEN "unhealthy" ELSE "ok",
              batch.offers, batch.warned, FirstOf(m.rows, limit), m.meta.whole)

-----------------------------------------------------------------------------
(* The comparison *)

\* What is asked for, in the order it was named, of which the places asked at
\* all and those of them that can be.
asked(r)     == IF r.sources = <<>> THEN Searchable ELSE r.sources
requested(r) == {i \in DOMAIN asked(r) : r.sources = <<>> => asked(r)[i] \in Chosen}
active(r)    == {i \in requested(r) : asked(r)[i] \in Installed}
missing(r)   == {asked(r)[i] : i \in requested(r) \ active(r)}

BadRequest(r) ==
  \/ \E i \in DOMAIN r.sources : r.sources[i] \notin Known \cap Chosen
  \/ active(r) = {}

\* The offers there are: place p is the p[2]th offer of the p[1]th source, and
\* they come in that order.
Places      == UNION {{i} \X DOMAIN calls[i].offers : i \in DOMAIN calls}
OfferAt(p)  == calls[p[1]].offers[p[2]]
Earlier(p, q) == p[1] < q[1] \/ (p[1] = q[1] /\ p[2] < q[2])

Repeats(p, q) ==
  /\ Earlier(q, p)
  /\ OfferAt(q).source = OfferAt(p).source /\ OfferAt(q).id = OfferAt(p).id
  /\ OfferAt(q).variant = OfferAt(p).variant

\* Fault: rows without an id are taken for one listing.
DedupeBlank == {p \in Places : \A q \in Places : ~Repeats(p, q)}

\* The first offer of each listing; one without an id is never a repetition.
dedupe == {p \in Places : OfferAt(p).id = Blank \/ \A q \in Places : ~Repeats(p, q)}

ranks_in_rubles(o) == o.rub # NoPrice /\ o.currency = "rub" /\ o.kind \in {"", "regular"}

\* Fault: stock nobody tells of counts as stock.
PricesUntold(o, stock) == ranks_in_rubles(o) /\ (stock => o.stock # "out")

Prices(o, stock) == ranks_in_rubles(o) /\ (stock => o.stock = "in")

\* What is priced comes first, by price, and as it came where prices are equal,
\* since sorted() is stable; then the rest as it came.
Outranks(p, q, stock) ==
  LET a == OfferAt(p)
      b == OfferAt(q)
  IN  \/ Prices(a, stock) /\ ~Prices(b, stock)
      \/ Prices(a, stock) /\ Prices(b, stock) /\ a.rub < b.rub
      \/ (Prices(a, stock) <=> Prices(b, stock)) /\ (Prices(a, stock) => a.rub = b.rub) /\ Earlier(p, q)

\* The offers at the places of S in that order: each comes after those that
\* outrank it.
ranked(S, stock) ==
  [n \in 1..Cardinality(S) |-> OfferAt(CHOOSE p \in S : Cardinality({q \in S : Outranks(q, p, stock)}) = n - 1)]

FirstOrNone(offers) == IF offers = <<>> THEN None ELSE offers[1]

\* What is made of the offers there are.
CompareResponse(r) ==
  LET failed == {calls[i].source : i \in {i \in DOMAIN calls : calls[i].status # "ok"}} \cup missing(r)
      all    == dedupe
      priced == {p \in all : Prices(OfferAt(p), r.in_stock_only)}
  IN  [status     |-> "answered",
       offers     |-> ranked(all, r.in_stock_only),
       cheapest   |-> FirstOrNone(ranked(priced, r.in_stock_only)),
       comparable |-> FirstOrNone(ranked({p \in priced : OfferAt(p).apt}, r.in_stock_only)),
       complete   |-> failed = {},
       warned     |-> {calls[i].source : i \in {i \in DOMAIN calls : calls[i].warned}}]

Ask(r) ==
  /\ request = Idle
  /\ checked = None
  /\ request' = r
  /\ IF BadRequest(r)
     THEN answer' = [status |-> "bad_request"] /\ calls' = <<>>
     ELSE answer' = None /\ calls' = [i \in active(r) |-> Asking]
  /\ UNCHANGED checked

Settle(i, outcome) ==
  /\ calls' = [calls EXCEPT ![i] = outcome]
  /\ UNCHANGED <<request, answer, checked>>

SourceAnswers(i) ==
  /\ calls[i] = Asking
  /\ \E m \in Response(asked(request)[i]) : Settle(i, run_source(asked(request)[i], m, request.limit))

SourceFails(i) ==
  /\ calls[i] = Asking
  /\ \E code \in Errors : Settle(i, Failed(asked(request)[i], source_error(code)))

\* Fault: the timeout cancels the search and nobody is told.
TimesOutQuietly(i) == calls[i] = Asking /\ UNCHANGED vars

\* wait_for(): whatever the source is at is cancelled.
SourceTimesOut(i) ==
  /\ calls[i] = Asking
  /\ Settle(i, Failed(asked(request)[i], "timeout"))

Finish ==
  /\ request # Idle
  /\ answer = None
  /\ \A i \in DOMAIN calls : calls[i] # Asking
  /\ answer' = CompareResponse(request)
  /\ UNCHANGED <<request, calls, checked>>

-----------------------------------------------------------------------------
(* Verification of one offer on its card *)

\* Fault: the first record of the card is taken, whatever it is of.
FirstRecord(s, id, rows) == FirstOf(rows, 1)

\* The records of the card that speak of the product asked for: those with its
\* id where the card lists several, and any other source's one record.
record(s, id, rows) ==
  IF s = "wildberries"
  THEN LET own == {k \in DOMAIN rows : rows[k].id = id}
       IN  IF \E k \in own : own = {k} THEN <<rows[CHOOSE k \in own : TRUE]>> ELSE <<>>
  ELSE FirstOf(rows, 1)

\* matches: the card's price is within a ruble; untold without one that
\* everybody pays.
price_verification(expected, own) ==
  IF own = <<>> THEN "untold"
  ELSE IF own[1].kind # "regular" \/ own[1].price = NoPrice THEN "untold"
  ELSE IF own[1].price = expected THEN "matches" ELSE "differs"

\* A variant may be insisted on with yandex_market only, and the card must be of it.
compare_verify_offer(s, id, variant, expected, rows) ==
  IF variant # Blank /\ (s # "yandex_market" \/ rows = <<>> \/ rows[1].variant # variant)
  THEN [status |-> "bad_request"]
  ELSE [status |-> "verified", source |-> s, id |-> id, variant |-> variant, expected |-> expected, card |-> rows,
        verdict |-> price_verification(expected, record(s, id, rows))]

VerifyOffer ==
  /\ answer.status = "answered"
  /\ answer.cheapest # None
  /\ \E rows \in {<<>>} \cup [1..1 -> Rows[answer.cheapest.source]] \cup [1..2 -> Rows[answer.cheapest.source]],
        variant \in {Blank, answer.cheapest.variant} :
       checked' = compare_verify_offer(answer.cheapest.source, answer.cheapest.id, variant, answer.cheapest.rub, rows)
  /\ request' = Idle
  /\ calls' = <<>>
  /\ answer' = None

-----------------------------------------------------------------------------
(* identity.py *)

Untold == ""

Conflict(a, b, field) == a[field] # Untold /\ b[field] # Untold /\ a[field] # b[field]
Shared(a, b, field)   == a[field] # Untold /\ a[field] = b[field]

\* A code whose check digit is wrong is no code.
normalize_gtin(g) == IF g = "invalid" THEN Untold ELSE g
Normal(p)         == [p EXCEPT !.gtin = normalize_gtin(@)]

\* Fault: a shared code is believed before anything is held against it.
MatchByCode(expected, observed) ==
  LET a == Normal(expected)
      b == Normal(observed)
  IN  IF Shared(a, b, "gtin") THEN "exact"
      ELSE IF \E f \in {"variant", "brand", "gtin", "mpn"} : Conflict(a, b, f) THEN "mismatch" ELSE "unknown"

match_product_identity(expected, observed) ==
  LET a == Normal(expected)
      b == Normal(observed)
  IN  IF \E f \in {"variant", "brand", "gtin", "mpn"} : Conflict(a, b, f) THEN "mismatch"
      ELSE IF "invalid" \in {expected.gtin, observed.gtin} \/ a.variant # b.variant THEN "unknown"
      ELSE IF Shared(a, b, "gtin") \/ (Shared(a, b, "mpn") /\ Shared(a, b, "brand")) THEN "exact"
      ELSE IF Shared(a, b, "model") /\ ~Shared(a, b, "mpn") THEN "likely"
      ELSE "unknown"

MatchIdentity ==
  /\ request = Idle
  /\ checked = None
  /\ \E a, b \in Identities :
       checked' = [status |-> "matched", expected |-> a, observed |-> b, verdict |-> match_product_identity(a, b)]
  /\ UNCHANGED <<request, calls, answer>>

-----------------------------------------------------------------------------
Init ==
  /\ request = Idle
  /\ calls = <<>>
  /\ answer = None
  /\ checked = None

\* The client has read the answer.
Return ==
  /\ answer # None \/ checked # None
  /\ request' = Idle
  /\ calls' = <<>>
  /\ answer' = None
  /\ checked' = None

SourceStep == \E i \in DOMAIN calls : SourceAnswers(i) \/ SourceFails(i)

TimeOut == \E i \in DOMAIN calls : SourceTimesOut(i)

Next ==
  \/ \E r \in Requests : Ask(r)
  \/ SourceStep
  \/ TimeOut
  \/ Finish
  \/ VerifyOffer
  \/ MatchIdentity
  \/ Return

\* Nothing obliges a source to answer: only the timers and the event loop run.
Spec == Init /\ [][Next]_vars /\ WF_vars(TimeOut) /\ WF_vars(Finish)
-----------------------------------------------------------------------------
(* Properties *)

Answered == answer.status = "answered"

\* What was listed: place l is the l[2]th row of the l[1]th source, and tells
\* which listing it is of.
Listed       == UNION {{i} \X DOMAIN calls[i].given : i \in DOMAIN calls}
RowAt(l)     == calls[l[1]].given[l[2]]
SourceAt(l)  == calls[l[1]].source
ListingAt(l) == <<SourceAt(l), RowAt(l).id, RowAt(l).variant>>

\* Nobody told of the listing before.
News(l) == RowAt(l).id = Blank \/ \A m \in Listed : Earlier(m, l) => ListingAt(m) # ListingAt(l)

(***************************************************************************)
(* "A conditional price never wins a ranking of everyday prices": the      *)
(* cheapest offer is a row some source listed in rubles, at a price that   *)
(* everybody pays, in stock when the caller insists, and no such row of    *)
(* any source that answered is cheaper, however many failed or how late    *)
(* they came.  A listing told of twice is what it was the first time.      *)
(***************************************************************************)
Payable(s, r) ==
  /\ s # "taobao" /\ r.kind = "regular" /\ r.price # NoPrice
  /\ request.in_stock_only => r.stock = "in" /\ OfferOf(s, r).stock = "in"

CheapestReal ==
  Answered =>
    LET payable == {l \in Listed : News(l) /\ Payable(SourceAt(l), RowAt(l))}
    IN  IF payable = {} THEN answer.cheapest = None
        ELSE \E l \in payable :
               /\ answer.cheapest.source = SourceAt(l) /\ answer.cheapest.id = RowAt(l).id
               /\ answer.cheapest.rub = RowAt(l).price
               /\ \A m \in payable : RowAt(l).price <= RowAt(m).price

(***************************************************************************)
(* Nothing a source listed is lost or told twice because of what became of *)
(* the other sources: each listing with an id is in the answer exactly     *)
(* once, each one without an id as often as it was listed, and nothing     *)
(* else is.                                                                *)
(***************************************************************************)
NothingLost ==
  Answered =>
    LET told == DOMAIN answer.offers
    IN  /\ \A l \in Listed : RowAt(l).id # Blank =>
             Cardinality({k \in told : /\ answer.offers[k].source = SourceAt(l) /\ answer.offers[k].id = RowAt(l).id
                                       /\ answer.offers[k].variant = RowAt(l).variant}) = 1
        /\ \A s \in Installed :
             Cardinality({k \in told : answer.offers[k].source = s /\ answer.offers[k].id = Blank}) =
               Cardinality({l \in Listed : SourceAt(l) = s /\ RowAt(l).id = Blank})
        /\ \A k \in told : \E l \in Listed : answer.offers[k] = OfferOf(SourceAt(l), RowAt(l))

(***************************************************************************)
(* _run_source(): "calling that "ok" is what let `complete` claim a        *)
(* comparison over a source that had silently contributed nothing".  A     *)
(* comparison is complete only when every source asked for answered, and   *)
(* each gave all it had or is named by a warning.                          *)
(***************************************************************************)
CompleteTrue ==
  Answered /\ answer.complete =>
    \A i \in requested(request) :
      /\ i \in DOMAIN calls
      /\ asked(request)[i] \notin Excused => calls[i].whole \/ asked(request)[i] \in answer.warned

(***************************************************************************)
(* compare_verify_offer(): a price is confirmed only by the one record of  *)
(* the very product, and of the variant where the client insists on one,   *)
(* at a price that everybody pays, and denied only by such a record too.   *)
(***************************************************************************)
VerifiedTrue ==
  checked.status = "verified" /\ checked.verdict # "untold" =>
    LET own == {k \in DOMAIN checked.card : checked.source = "wildberries" => checked.card[k].id = checked.id}
    IN  \E k \in own :
          /\ checked.source = "wildberries" => own = {k}
          /\ checked.variant # Blank => checked.card[k].variant = checked.variant
          /\ checked.card[k].kind = "regular"
          /\ (checked.card[k].price = checked.expected) <=> (checked.verdict = "matches")

(***************************************************************************)
(* match_product_identity(): two products are the same only on a shared    *)
(* identifier and nothing stated differently, and evidence against beats   *)
(* any evidence for, in whichever order the two are given.                 *)
(***************************************************************************)
Against(a, b) ==
  \/ \E f \in {"variant", "brand", "mpn"} : a[f] # Untold /\ b[f] # Untold /\ a[f] # b[f]
  \/ {a.gtin, b.gtin} \cap {Untold, "invalid"} = {} /\ a.gtin # b.gtin

IdentityTrue ==
  checked.status = "matched" =>
    LET a == checked.expected
        b == checked.observed
    IN  /\ checked.verdict = "mismatch" <=> Against(a, b)
        /\ checked.verdict = "exact" =>
             /\ a.variant = b.variant
             /\ \/ a.gtin = b.gtin /\ a.gtin \notin {Untold, "invalid"}
                \/ a.mpn = b.mpn /\ a.mpn # Untold /\ a.brand = b.brand /\ a.brand # Untold
        /\ checked.verdict = match_product_identity(b, a)

(***************************************************************************)
(* "A slow source must not hold the whole comparison hostage": a           *)
(* comparison that was begun ends, though no source need ever answer.      *)
(***************************************************************************)
ComparisonsEnd == request # Idle ~> answer # None
=============================================================================
