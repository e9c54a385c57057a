-------------------------------- MODULE MCAgent --------------------------------
(***************************************************************************)
(* What an agent asks for: a tool of a connector, or a comparison; and the *)
(* steps of a tool with an inside of their own: AliExpress' item tab, the  *)
(* process of Ozon's GET, the reading of a number; and, before all that,   *)
(* the client's configuration that names the program.  part is the one an  *)
(* execution exercises, since they share no state.  What the first shows   *)
(* the second assumes: a comparison takes the word of a source whose       *)
(* search is not among Silent.                                             *)
(***************************************************************************)
EXTENDS MCSourceTools

CONSTANTS Requests, Searchable, Known, Chosen, Installed, Rows, Identities, Excused,
          Popup, Promos, Foreign, Comes, Rounds, Results, MaxText,
          Installs, Orders, MaxChanges, MaxSecond

I == INSTANCE CompareInstance

MCRequests   == I!MCRequests
MCSearchable == I!MCSearchable
MCKnown      == I!MCKnown
MCChosen     == I!MCChosen
MCInstalled  == I!MCInstalled
MCRows       == I!MCRows
MCIdentities == I!MCIdentities

\* What a tab may show as it comes.
MCComes == [popup |-> {"blank", "item", "another", "punish"}, promo |-> {"another", "shop"}, foreign |-> {"blank", "item"}]

\* What install --write is asked.
MCOrders ==
  {[asked |-> "none", force |-> FALSE, dry |-> FALSE], [asked |-> "full", force |-> FALSE, dry |-> FALSE],
   [asked |-> "full", force |-> TRUE, dry |-> FALSE], [asked |-> "none", force |-> TRUE, dry |-> TRUE]}

\* The search each source is compared by, where it can be silent.
SearchOf == [drom |-> "drom_search", megamarket |-> "megamarket_search", wildberries |-> "wb_search"]

SilentSources == {s \in DOMAIN SearchOf : SearchOf[s] \in Silent}

VARIABLES part, request, calls, answer, checked,
          phase, tab, before, owned, toAsk, round, target, closing, tried, strange,
          stage, worker, result, file, ended, spared,
          text,
          config, backups, second, clash, changes, install

P == INSTANCE Compare WITH Silent <- SilentSources
Tab == INSTANCE ItemPopups
Worker == INSTANCE SyncWorker WITH phase <- stage
Display == INSTANCE DisplayNumbers
Client == INSTANCE ClientConfig

\* What the theorems about these steps assume.
ASSUME StepsAssumption == Tab!TabsApart /\ Worker!ResultsDistinct

\* What those about comparisons do: a source that may be silent is excused, and so
\* is Wildberries, whose answer of no results has no _meta; an identity has every
\* field, if only empty; the sources are those of _SEARCH_IMPLS; and only two of
\* them tell a price with a condition from one that everybody pays.
ASSUME CompareAssumption ==
  /\ SilentSources \cup {"wildberries"} \subseteq Excused
  /\ Identities \subseteq [brand : STRING, gtin : STRING, mpn : STRING, model : STRING, variant : STRING]
  /\ Requests \subseteq [sources : Seq(STRING), limit : Nat, in_stock_only : BOOLEAN]
  /\ Searchable \in Seq(Known)
  /\ Known \subseteq {"wildberries", "yandex_market", "ozon", "avito", "taobao", "megamarket", "lamoda", "dns",
                      "citilink", "aliexpress", "drom"}
  /\ \A s \in Known : \A r \in Rows[s] :
       r.price \in Nat /\ (s \notin {"wildberries", "yandex_market"} => r.kind = "regular")

comparing == <<request, calls, answer, checked>>
tabs      == <<phase, tab, before, owned, toAsk, round, target, closing, tried, strange>>
working   == <<stage, worker, result, file, ended, spared>>
configuring == <<config, backups, second, clash, changes, install>>

\* The parts that are not exercised stand still, at their beginning.
AgentInit ==
  /\ Init /\ P!Init /\ Tab!Init /\ Worker!Init /\ Display!Init /\ Client!Init
  /\ part \in {"tools", "compare", "tabs", "worker", "numbers", "config"}
  /\ part # "tools" => tool = "wb_search"
  /\ part # "config" => config = Client!NoFile

AgentNext ==
  /\ UNCHANGED part
  /\ \/ part = "tools" /\ Next /\ UNCHANGED <<comparing, tabs, working, text, configuring>>
     \/ part = "compare" /\ P!Next /\ UNCHANGED <<vars, tabs, working, text, configuring>>
     \/ part = "tabs" /\ Tab!Next /\ UNCHANGED <<vars, comparing, working, text, configuring>>
     \/ part = "worker" /\ Worker!Next /\ UNCHANGED <<vars, comparing, tabs, text, configuring>>
     \/ part = "numbers" /\ Display!Next /\ UNCHANGED <<vars, comparing, tabs, working, configuring>>
     \/ part = "config" /\ Client!Next /\ UNCHANGED <<vars, comparing, tabs, working, text>>

AgentSpec ==
  /\ AgentInit /\ [][AgentNext]_<<part, vars, comparing, tabs, working, text, configuring>>
  /\ WF_comparing(part = "compare" /\ P!TimeOut) /\ WF_comparing(part = "compare" /\ P!Finish)

\* "A conditional price never wins a ranking of everyday prices".
CheapestReal == P!CheapestReal

\* What a source listed is neither lost nor told twice.
NothingLost == P!NothingLost

\* complete is said only of sources that all gave all they had, or say so.
CompleteTrue == P!CompleteTrue

\* A price is confirmed or denied only by the record of the very product, and
\* evidence against its identity beats any evidence for it.
VerifiedTrue == P!VerifiedTrue /\ P!IdentityTrue

\* "A slow source must not hold the whole comparison hostage".
ComparisonsEnd == P!ComparisonsEnd

\* "AliExpress closes only its own popup", and leaves none it was told of.
TabsSettled == part = "tabs" => Tab!TabsSettled

\* A call of a worker leaves no process and no file, and tells no torn answer.
WorkerSettled == part = "worker" => Worker!WorkerSettled

\* A display text is read as the one number it names, or not at all.
NumbersRight == part = "numbers" => Display!NumbersRight

\* "The file belongs to the operator": an install keeps what is not its own, and
\* no change is made before the file is backed up, nor is a backup lost.
ConfigKept == [][Client!ConfigStep]_configuring
=============================================================================
