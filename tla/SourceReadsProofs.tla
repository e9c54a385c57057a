--------------------------- MODULE SourceReadsProofs ---------------------------
(***************************************************************************)
(* Theorems about the reads of a source, for any number of calls and of    *)
(* pages, any gaps, lifetime and number of retries.                        *)
(*                                                                         *)
(* What a connector does with an outcome is its profile, so a first part   *)
(* says what every profile has in common; the rest follows from that.  The *)
(* inductive invariant: what is kept of a page is what the connector       *)
(* keeps; and a call that has not been answered has met no more than       *)
(* faults and what its first client came to, which was not a page.         *)
(***************************************************************************)
EXTENDS SourceReads, WellFoundedInduction, TLAPS

-----------------------------------------------------------------------------
(* The profiles *)

Refusing == {"soft", "wall", "refused", "limited", "blocked", "strayed"}
Giving   == {"content", "hollow", "odd"}
Met      == {"refusal", "content", "data", "missing", "paused", "fault", "overlong"}

LEMMA Kinds ==
  ASSUME NEW o \in Outcomes
  PROVE  /\ Kind(o) = "refusal" <=> o \in Refusing
         /\ Kind(o) \in {"content", "data"} <=> o \in Giving
         /\ Kind(o) = "content" <=> o = "content"
         /\ Kind(o) = "fault" <=> o = "fault"
         /\ Kind("fault") = "fault"
         /\ Kind(o) \in Met
<1> USE DEF Met, Outcomes, Shaped, Other, Statuses, Chrome, Kind, Refusing, Giving
<1>1. CASE o \in Refusing
  BY <1>1
<1>2. CASE o \in {"hollow", "odd"}
  BY <1>2
<1>3. CASE o \in {"content", "missing", "paused", "fault", "overlong"}
  BY <1>3
<1> QED BY <1>1, <1>2, <1>3

\* What every connector keeps to: a client that finds a page looks no further and
\* the caller gets that page; what is told as a refusal, or told the pacer as one,
\* is one, and only a body is told the pacer as a success.  With two HTTP clients,
\* whatever refuses is told so.
Sensible(p) ==
  /\ "content" \in p.pages /\ "content" \notin p.blocks
  /\ p.kept \cup p.answers \cup p.answers2 \subseteq Outcomes
  /\ p.second # "none" => "content" \notin p.answers \ p.enough
  /\ p.blocks \cup p.ill \cup p.illSeen \subseteq Refusing
  /\ (p.good1 \cup p.good2) \ p.illSeen \subseteq Giving
  /\ p.second = "http" =>
       /\ (p.answers \cup p.answers2) \cap Refusing \subseteq p.blocks
       /\ p.enough = Giving /\ p.good2 \subseteq p.enough
       /\ p.pages \cap p.blocks = {}

LEMMA ProfilesSensible == ASSUME NEW s \in Names PROVE Sensible(Profile(s))
<1> USE DEF Shaped, Other, Statuses, Chrome, Outcomes, Fetched, InPage, Rendered, Refusing, Giving, Sensible
<1>1. CASE s = "avito"
  BY <1>1 DEF Profile, Avito
<1>2. CASE s = "cian"
  BY <1>2 DEF Profile, Cian
<1>3. CASE s = "ozon"
  BY <1>3 DEF Profile, Ozon
<1>4. CASE s = "drom"
  BY <1>4 DEF Profile, DromInChrome
<1>5. CASE s = "drom_proxied"
  BY <1>5 DEF Profile, DromProxied, DromInChrome
<1>6. CASE s = "wb_gated"
  BY <1>6 DEF Profile, WbGated
<1>7. CASE s = "wb_open"
  BY <1>7 DEF Profile, WbOpen, WbGated
<1>8. CASE s = "lamoda_card"
  BY <1>8 DEF Profile, LamodaCard
<1>9. CASE s = "lamoda_search"
  BY <1>9 DEF Profile, LamodaSearch
<1>10. CASE s = "megamarket"
  BY <1>10 DEF Profile, Megamarket
<1>11. CASE s = "dns"
  BY <1>11 DEF Profile, Dns
<1>12. CASE s = "taobao"
  BY <1>12 DEF Profile, Taobao, Dns
<1>13. CASE s = "aliexpress_search"
  BY <1>13 DEF Profile, AliexpressSearch, Dns
<1>14. CASE s = "aliexpress_card"
  BY <1>14 DEF Profile, AliexpressCard, AliexpressSearch, Dns
<1>15. CASE s = "mpstats"
  BY <1>15 DEF Profile, Mpstats
<1> QED
  BY <1>1, <1>2, <1>3, <1>4, <1>5, <1>6, <1>7, <1>8, <1>9, <1>10, <1>11, <1>12, <1>13, <1>14, <1>15 DEF Names

\* All but Avito keep nothing that they would tell as a refusal, or the pacer.
LEMMA RefusalsForgotten ==
  ASSUME NEW s \in Names, s # "avito"
  PROVE  Profile(s).kept \cap (Profile(s).blocks \cup Profile(s).illSeen) = {}
<1> USE DEF Shaped, Other
<1>1. CASE s \in {"cian", "ozon", "drom", "drom_proxied"}
  BY <1>1 DEF Profile, Cian, Ozon, DromInChrome, DromProxied
<1>2. CASE s \in {"wb_gated", "wb_open", "lamoda_card", "lamoda_search", "megamarket", "mpstats"}
  BY <1>2 DEF Profile, WbGated, WbOpen, LamodaCard, LamodaSearch, Megamarket, Mpstats
<1>3. CASE s \in {"dns", "taobao", "aliexpress_search", "aliexpress_card"}
  BY <1>3 DEF Profile, Dns, Taobao, AliexpressSearch, AliexpressCard
<1> QED BY <1>1, <1>2, <1>3 DEF Names

-----------------------------------------------------------------------------
(* The queues *)

LEMMA FirstPlace ==
  ASSUME NEW I \in SUBSET Nat, I # {}
  PROVE  Min(I) \in I
<1> DEFINE below == {ss \in Nat \X Nat : ss[1] < ss[2]}
<1>1. IsWellFoundedOn(below, Nat)
  BY NatLessThanWellFounded DEF OpToRel
<1> HIDE DEF below
<1>2. \E x \in I : \A y \in I : <<y, x>> \notin below
  BY <1>1, WFMin
<1>3. \A x, y \in I : y < x => <<y, x>> \in below
  BY DEF below
<1>4. \A x, y \in I : x <= y \/ y < x
  OBVIOUS
<1>5. \E x \in I : \A y \in I : x <= y
  BY <1>2, <1>3, <1>4
<1> QED BY <1>5 DEF Min

\* Whoever leaves a queue, a queue remains.
LEMMA QueueRemains ==
  ASSUME NEW q \in Seq(Calls), NEW c
  PROVE  RemoveFirst(q, c) \in Seq(Calls)
<1> DEFINE I == {i \in 1..Len(q) : q[i] = c}
<1>1. CASE I = {}
  BY <1>1 DEF RemoveFirst
<1>2. CASE I # {}
  <2> HIDE DEF I
  <2>0. I \in SUBSET Nat
    BY DEF I
  <2>1. Min(I) \in I
    BY <1>2, <2>0, FirstPlace
  <2>2. PICK n : n = Min(I)
    OBVIOUS
  <2>3. RemoveFirst(q, c) = SubSeq(q, 1, n - 1) \o SubSeq(q, n + 1, Len(q))
    BY <1>2, <2>2 DEF RemoveFirst, RemoveAt, SelectInSeq, I
  <2>4. n \in 1..Len(q)
    BY <2>1, <2>2 DEF I
  <2>5. SubSeq(q, 1, n - 1) \in Seq(Calls) /\ SubSeq(q, n + 1, Len(q)) \in Seq(Calls)
    BY <2>4
  <2> QED BY <2>3, <2>5
<1> QED BY <1>1, <1>2
-----------------------------------------------------------------------------
(* The invariant *)

Places  == {"idle", "gate", "first", "second", "again", "queued", "ready", "open", "done"}
Ways    == {"plain", "fresh", "resumed"}
Answers == {"nothing", "page", "refusal", "failure"}
Origins == {"nobody", "cache", "site"}

CallType ==
  [pc : Places, key : Keys \cup {None}, way : Ways, gap : Nat, retries : Int, leg : {"first", "second"},
   one : Outcomes \cup {None}, got : SUBSET Met, told : Answers, by : Origins]

TypeOK ==
  /\ source \in Sources
  /\ cache \in [Keys -> [body : Outcomes \cup {None}, left : Nat]]
  /\ since \in Nat
  /\ penalised \in BOOLEAN
  /\ turns \in Seq(Calls) /\ tab \in Seq(Calls)
  /\ call \in [Calls -> CallType]

\* What is kept is what the connector keeps.
CacheFit == \A k \in Keys : cache[k].left > 0 => cache[k].body \in S.kept

\* What a call of s has met before its last read.
MetFit(s, r) ==
  /\ r.told = "nothing" /\ r.by = "nobody"
  /\ r.pc \in {"idle", "gate"} /\ Profile(s).first # "none" => r.leg = "first"
  /\ r.pc = "first" => r.leg = "first"
  /\ r.leg = "first" => r.one = None
  /\ r.one = None => r.got \subseteq {"fault"}
  /\ r.one # None =>
       /\ r.one \in Profile(s).answers \ Profile(s).enough /\ Profile(s).second # "none"
       /\ r.got \subseteq {"fault", Kind(r.one)} /\ Kind(r.one) \in r.got

\* What it was answered.
ToldFit(s, r) ==
  /\ s # "avito" /\ r.told = "refusal" => r.by = "site" /\ "refusal" \in r.got
  /\ r.way # "plain" => r.by # "cache"
  /\ r.by = "site" =>
       /\ "content" \in r.got => r.told = "page"
       /\ Profile(s).second = "http" /\ "refusal" \in r.got /\ r.got \subseteq {"refusal", "fault"}
            => r.told = "refusal"

CallFit(s, r) ==
  /\ r.pc # "idle" => r.key \in Keys
  /\ r.pc # "done" => MetFit(s, r)
  /\ ToldFit(s, r)

CallsFit == \A c \in Calls : CallFit(source, call[c])

IInv == TypeOK /\ CacheFit /\ CallsFit

\* The profile of the source there is.
LEMMA ProfileKnown ==
  ASSUME TypeOK
  PROVE  /\ S = Profile(source) /\ Sensible(S)
         /\ source # "avito" => S.kept \cap (S.blocks \cup S.illSeen) = {}
  BY ProfilesSensible, RefusalsForgotten, SourceReadsAssumption DEF TypeOK, S

-----------------------------------------------------------------------------
(* One call *)

LEMMA CallNew ==
  ASSUME NEW pc \in Places, NEW k \in Keys \cup {None}, NEW way \in Ways
  PROVE  /\ Call(pc, k, way) \in CallType
         /\ pc \notin {"done", "first"} /\ (pc # "idle" => k \in Keys) => CallFit(source, Call(pc, k, way))
<1>1. Call(pc, k, way) \in CallType
  <2>1. PICK leg \in {"first", "second"} : leg = IF S.first = "none" THEN "second" ELSE "first"
    OBVIOUS
  <2>2. Retries \in Int /\ {} \in SUBSET Met /\ "nothing" \in Answers /\ "nobody" \in Origins
    BY SourceReadsAssumption DEF Answers, Origins
  <2> QED BY <2>1, <2>2 DEF Call, CallType
<1>2. PICK r : r = Call(pc, k, way)
  OBVIOUS
<1>3. /\ r.pc = pc /\ r.key = k /\ r.one = None /\ r.got = {} /\ r.told = "nothing" /\ r.by = "nobody"
      /\ Profile(source).first # "none" => r.leg = "first"
  BY <1>2 DEF Call, S
<1> QED BY <1>1, <1>2, <1>3 DEF CallFit, MetFit, ToldFit

\* A call goes on.
LEMMA CallGoes ==
  ASSUME NEW r \in CallType, CallFit(source, r), r.pc # "done", r.key \in Keys,
         NEW pc \in Places \ {"idle", "done"}, pc = "first" => r.leg = "first", pc = "gate" => r.pc = "idle", NEW gap \in Nat,
         NEW q, q = [r EXCEPT !.pc = pc, !.gap = gap]
  PROVE  q \in CallType /\ CallFit(source, q)
<1>1. q \in CallType
  BY DEF CallType
<1>2. /\ q.pc = pc /\ q.key = r.key /\ q.way = r.way /\ q.leg = r.leg /\ q.one = r.one
      /\ q.got = r.got /\ q.told = r.told /\ q.by = r.by
  BY DEF CallType
<1> QED BY <1>1, <1>2 DEF CallFit, MetFit, ToldFit

\* What a call is when it has been answered.
LEMMA AnswerRecord ==
  ASSUME NEW r \in CallType, r.key \in Keys
  PROVE  /\ Call("done", r.key, r.way) \in CallType
         /\ Call("done", r.key, r.way).pc = "done" /\ Call("done", r.key, r.way).key = r.key
         /\ Call("done", r.key, r.way).way = r.way
<1>1. r.way \in Ways /\ r.key \in Keys \cup {None} /\ "done" \in Places
  BY DEF CallType, Places
<1>2. Call("done", r.key, r.way) \in CallType
  BY <1>1, CallNew
<1> QED BY <1>2 DEF Call

\* A read that ends the call: of its first client, or of the fallback, or one that
\* was given up.
Ending(r, read) ==
  \/ read = "fault"
  \/ read \in S.answers2
  \/ read \in S.answers /\ (read \in S.enough \/ S.second = "none")

\* What is told of the reads of a call is what the better one met.
LEMMA BetterMet ==
  ASSUME TypeOK, NEW r \in CallType, MetFit(source, r), NEW read \in Outcomes, Ending(r, read),
         NEW o, o = Better(r.one, read)
  PROVE  /\ o \in Outcomes
         /\ Kind(o) \in r.got \cup {Kind(read)}
         /\ o # read => o = r.one /\ o # None /\ S.second = "http" /\ o \notin S.enough /\ r.leg # "first"
         /\ "content" \in r.got \cup {Kind(read)} => o = "content"
         /\ /\ S.second = "http"
            /\ "refusal" \in r.got \cup {Kind(read)}
            /\ r.got \cup {Kind(read)} \subseteq {"refusal", "fault"}
            => o \in S.blocks
<1>1. S = Profile(source) /\ Sensible(S)
  BY ProfileKnown
<1>2. r.one # None => r.one \in Outcomes
  BY DEF CallType
<1>3. o # read => o = r.one /\ r.one \notin {"fault", None} /\ S.second = "http" /\ read \notin S.enough
  BY DEF Better
<1>4. "content" \notin r.got
  BY <1>1, <1>2, Kinds DEF MetFit, Sensible
<1>5. "content" \in r.got \cup {Kind(read)} => o = "content"
  <2>1. SUFFICES ASSUME read = "content", o # read
                 PROVE  FALSE
    BY <1>4, Kinds
  <2> QED BY <1>1, <1>3, <2>1 DEF Sensible, Giving
<1>6. o # read => o \notin S.enough /\ Kind(o) \in r.got /\ r.leg # "first"
  BY <1>1, <1>3 DEF MetFit
<1>7. ASSUME S.second = "http", "refusal" \in r.got \cup {Kind(read)}, 
             r.got \cup {Kind(read)} \subseteq {"refusal", "fault"}
      PROVE  o \in S.blocks
  <2>1. CASE o # read
    <3>1. Kind(o) = "refusal"
      BY <1>2, <1>3, <1>6, <1>7, <2>1, Kinds
    <3>2. o \in Refusing /\ o \in S.answers
      BY <1>1, <1>2, <1>3, <2>1, <3>1, Kinds DEF MetFit
    <3> QED BY <1>1, <1>7, <3>2 DEF Sensible
  <2>2. CASE o = read /\ read \in Refusing
    <3>1. read \in S.answers \cup S.answers2
      BY <2>2 DEF Ending, Refusing
    <3> QED BY <1>1, <1>7, <2>2, <3>1 DEF Sensible
  <2>3. CASE o = read /\ read \notin Refusing
    <3>1. read = "fault" /\ "refusal" \in r.got
      BY <1>7, <2>3, Kinds
    <3>2. r.one # None /\ Kind(r.one) = "refusal"
      BY <3>1 DEF MetFit
    <3>3. r.one # "fault" /\ read \notin S.enough
      BY <1>1, <1>2, <1>7, <3>1, <3>2, Kinds DEF Sensible, Giving
    <3> QED BY <1>7, <2>3, <3>1, <3>2, <3>3 DEF Better
  <2> QED BY <2>1, <2>2, <2>3
<1> QED BY <1>2, <1>3, <1>5, <1>6, <1>7

\* The call is answered of what was read at the site.
LEMMA SiteAnswers ==
  ASSUME TypeOK, NEW r \in CallType, CallFit(source, r), r.pc \notin {"idle", "done"},
         NEW read \in Outcomes, Ending(r, read), NEW o, o = Better(r.one, read),
         NEW q, q = [Call("done", r.key, r.way) EXCEPT !.got = r.got \cup {Kind(read)}, !.told = Told(o), !.by = "site"]
  PROVE  q \in CallType /\ CallFit(source, q)
<1>1. S = Profile(source) /\ Sensible(S)
  BY ProfileKnown
<1>2. PICK got : got = r.got \cup {Kind(read)}
  OBVIOUS
<1>3. got \in SUBSET Met
  <2>1. Kind(read) \in Met
    BY Kinds
  <2> QED BY <1>2, <2>1 DEF CallType
<1>4. r.key \in Keys /\ MetFit(source, r)
  BY DEF CallFit
<1>5. /\ q \in CallType /\ q.pc = "done" /\ q.key = r.key /\ q.way = r.way
      /\ q.got = got /\ q.told = Told(o) /\ q.by = "site"
  <2>1. "site" \in Origins
    BY DEF Origins
  <2>2. PICK told \in Answers : told = Told(o)
    BY DEF Told, Answers
  <2>3. q = [Call("done", r.key, r.way) EXCEPT !.got = got, !.told = told, !.by = "site"]
    BY <1>2, <2>2
  <2>4. PICK d : d = Call("done", r.key, r.way)
    OBVIOUS
  <2>5. d \in CallType /\ d.pc = "done" /\ d.key = r.key /\ d.way = r.way
    BY <1>4, <2>4, AnswerRecord
  <2>6. q = [d EXCEPT !.got = got, !.told = told, !.by = "site"]
    BY <2>3, <2>4
  <2> QED BY <1>3, <2>1, <2>2, <2>5, <2>6 DEF CallType
<1>6. /\ o \in Outcomes /\ Kind(o) \in got
      /\ "content" \in got => o = "content"
      /\ S.second = "http" /\ "refusal" \in got /\ got \subseteq {"refusal", "fault"} => o \in S.blocks
  BY <1>2, <1>4, BetterMet
<1>7. Told(o) = "refusal" => "refusal" \in got
  <2>1. Told(o) = "refusal" => o \in S.blocks
    BY DEF Told
  <2> QED BY <1>1, <1>6, <2>1, Kinds DEF Sensible
<1>8. "content" \in got => Told(o) = "page"
  BY <1>1, <1>6 DEF Told, Sensible
<1>9. S.second = "http" /\ "refusal" \in got /\ got \subseteq {"refusal", "fault"} => Told(o) = "refusal"
  <2>1. S.second = "http" /\ o \in S.blocks => o \notin S.pages
    BY <1>1 DEF Sensible
  <2> QED BY <1>6, <2>1 DEF Told
<1> QED BY <1>1, <1>4, <1>5, <1>7, <1>8, <1>9 DEF CallFit, ToldFit

\* The call is answered from the cache.
LEMMA CacheAnswers ==
  ASSUME TypeOK, NEW r \in CallType, r.key \in Keys, r.way = "plain", NEW body \in S.kept,
         NEW q, q = [Call("done", r.key, r.way) EXCEPT !.got = r.got, !.told = Told(body), !.by = "cache"]
  PROVE  q \in CallType /\ CallFit(source, q)
<1>1. source # "avito" => body \notin S.blocks
  BY ProfileKnown
<1>2. source # "avito" => Told(body) # "refusal"
  BY <1>1 DEF Told
<1>3. r.got \in SUBSET Met
  BY DEF CallType
<1>4. /\ q \in CallType /\ q.pc = "done" /\ q.key = r.key /\ q.way = r.way
      /\ q.told = Told(body) /\ q.by = "cache"
  <2>1. "cache" \in Origins
    BY DEF Origins
  <2>2. PICK told \in Answers : told = Told(body)
    BY DEF Told, Answers
  <2>3. q = [Call("done", r.key, r.way) EXCEPT !.got = r.got, !.told = told, !.by = "cache"]
    BY <2>2
  <2>4. PICK d : d = Call("done", r.key, r.way)
    OBVIOUS
  <2>5. d \in CallType /\ d.pc = "done" /\ d.key = r.key /\ d.way = r.way
    BY <2>4, AnswerRecord
  <2>6. q = [d EXCEPT !.got = r.got, !.told = told, !.by = "cache"]
    BY <2>3, <2>4
  <2> QED BY <1>3, <2>1, <2>2, <2>5, <2>6 DEF CallType
<1> QED BY <1>2, <1>4 DEF CallFit, ToldFit
\* The first client's outcome is kept for the fallback to better.
LEMMA CallFalls ==
  ASSUME TypeOK, NEW r \in CallType, CallFit(source, r), r.pc = "first",
         NEW o \in S.answers \ S.enough, S.second # "none", NEW pc \in {"queued", "second"},
         NEW q, q = [r EXCEPT !.pc = pc, !.leg = "second", !.one = o, !.got = @ \cup {Kind(o)}]
  PROVE  q \in CallType /\ CallFit(source, q)
<1>1. S = Profile(source) /\ o \in Outcomes
  BY ProfileKnown DEF Sensible
<1>2. Kind(o) \in Met /\ pc \in Places
  BY <1>1, Kinds DEF Places
<1>3. /\ q \in CallType /\ q.pc = pc /\ q.key = r.key /\ q.way = r.way /\ q.leg = "second" /\ q.one = o
      /\ q.got = r.got \cup {Kind(o)} /\ q.told = r.told /\ q.by = r.by
  BY <1>1, <1>2 DEF CallType
<1>4. r.key \in Keys /\ MetFit(source, r) /\ ToldFit(source, r)
  BY DEF CallFit
<1>5. r.got \subseteq {"fault"}
  BY <1>4 DEF MetFit
<1>6. o # None
  BY <1>1, SourceReadsAssumption
<1>7. MetFit(source, q)
  BY <1>1, <1>3, <1>4, <1>5, <1>6 DEF MetFit
<1>8. ToldFit(source, q)
  BY <1>3, <1>4 DEF ToldFit, MetFit
<1> QED BY <1>3, <1>4, <1>7, <1>8 DEF CallFit

\* A read that is to be repeated met a fault.
LEMMA CallFaults ==
  ASSUME NEW r \in CallType, CallFit(source, r), r.pc \in {"first", "second"},
         NEW q, q = [r EXCEPT !.retries = @ - 1, !.got = @ \cup {"fault"}]
  PROVE  q \in CallType /\ CallFit(source, q) /\ q.pc = r.pc /\ q.key = r.key /\ q.leg = r.leg
<1>1. "fault" \in Met
  BY DEF Met
<1>2. /\ q \in CallType /\ q.pc = r.pc /\ q.key = r.key /\ q.way = r.way /\ q.leg = r.leg /\ q.one = r.one
      /\ q.got = r.got \cup {"fault"} /\ q.told = r.told /\ q.by = r.by
  <2>1. PICK n : n = r.retries - 1
    OBVIOUS
  <2>2. n \in Int
    BY <2>1 DEF CallType
  <2>3. PICK got : got = r.got \cup {"fault"}
    OBVIOUS
  <2>4. got \in SUBSET Met
    BY <1>1, <2>3 DEF CallType
  <2>5. q = [r EXCEPT !.retries = n, !.got = got]
    BY <2>1, <2>3
  <2> QED BY <2>2, <2>3, <2>4, <2>5 DEF CallType
<1>3. r.key \in Keys /\ MetFit(source, r) /\ ToldFit(source, r)
  BY DEF CallFit
<1>4. MetFit(source, q)
  BY <1>2, <1>3 DEF MetFit
<1>5. ToldFit(source, q)
  BY <1>2, <1>3 DEF ToldFit, MetFit
<1> QED BY <1>2, <1>3, <1>4, <1>5 DEF CallFit

-----------------------------------------------------------------------------
(* The steps *)

\* One call changes, and the rest is as it should be.
LEMMA CallsKeep ==
  ASSUME IInv, UNCHANGED source, NEW c \in Calls, NEW q \in CallType, CallFit(source, q),
         call' = [call EXCEPT ![c] = q],
         cache' \in [Keys -> [body : Outcomes \cup {None}, left : Nat]], CacheFit',
         penalised' \in BOOLEAN, since' \in Nat, turns' \in Seq(Calls), tab' \in Seq(Calls)
  PROVE  IInv'
<1>1. TypeOK'
  BY DEF IInv, TypeOK
<1>2. CallsFit'
  BY DEF IInv, TypeOK, CallsFit
<1> QED BY <1>1, <1>2 DEF IInv

LEMMA CacheStays ==
  ASSUME IInv, UNCHANGED <<source, cache>>
  PROVE  cache' \in [Keys -> [body : Outcomes \cup {None}, left : Nat]] /\ CacheFit'
<1>1. S' = S
  BY DEF S
<1> QED BY <1>1 DEF IInv, TypeOK, CacheFit

LEMMA CacheKept ==
  ASSUME IInv, UNCHANGED source, NEW k, NEW o \in Outcomes, cache' = Kept(k, o) \/ cache' = [cache EXCEPT ![k] = Nothing]
  PROVE  cache' \in [Keys -> [body : Outcomes \cup {None}, left : Nat]] /\ CacheFit'
<1>1. S' = S
  BY DEF S
<1>2. TTL \in Nat
  BY SourceReadsAssumption
<1>3. Entry(o, TTL) \in [body : Outcomes \cup {None}, left : Nat] /\ Entry(o, TTL).body = o
  BY <1>2 DEF Entry
<1>4. Nothing \in [body : Outcomes \cup {None}, left : Nat] /\ Nothing.left = 0
  BY DEF Nothing, Entry
<1>5. PICK e : /\ e \in [body : Outcomes \cup {None}, left : Nat] /\ (e.left > 0 => e.body \in S.kept)
               /\ cache' = [cache EXCEPT ![k] = e] \/ cache' = cache
  BY <1>3, <1>4 DEF Kept
<1> QED BY <1>1, <1>5 DEF IInv, TypeOK, CacheFit

\* A call asks for its turn.
LEMMA TurnAsked ==
  ASSUME IInv, UNCHANGED <<source, cache, since, penalised, tab>>, NEW c \in Calls,
         NEW r \in CallType, CallFit(source, r), r.pc # "done", r.key \in Keys,
         NEW pc \in {"gate", "again", "ready"}, pc = "gate" => r.pc = "idle", AskTurn(c, r, pc)
  PROVE  IInv'
<1>1. PICK gap : gap = IF penalised THEN ErrorDelay ELSE MinGap
  OBVIOUS
<1>2. gap \in Nat
  BY <1>1, SourceReadsAssumption
<1>3. PICK q : q = [r EXCEPT !.pc = pc, !.gap = gap]
  OBVIOUS
<1>4. q \in CallType /\ CallFit(source, q)
  <2>1. pc \in Places \ {"idle", "done"} /\ pc # "first"
    BY DEF Places
  <2> QED BY <1>2, <1>3, <2>1, CallGoes
<1>5. call' = [call EXCEPT ![c] = q]
  BY <1>1, <1>3 DEF AskTurn
<1>6. turns' \in Seq(Calls) /\ tab' \in Seq(Calls) /\ penalised' \in BOOLEAN /\ since' \in Nat
  BY DEF IInv, TypeOK, AskTurn
<1> QED BY <1>4, <1>5, <1>6, CacheStays, CallsKeep

\* A call moves on.
LEMMA CallMoved ==
  ASSUME IInv, UNCHANGED source, NEW c \in Calls,
         NEW r \in CallType, CallFit(source, r), r.pc # "done", r.key \in Keys,
         NEW pc \in Places \ {"idle", "gate", "done"}, pc = "first" => r.leg = "first", call' = Moved(c, r, pc),
         cache' \in [Keys -> [body : Outcomes \cup {None}, left : Nat]], CacheFit',
         penalised' \in BOOLEAN, since' \in Nat, turns' \in Seq(Calls), tab' \in Seq(Calls)
  PROVE  IInv'
<1>1. PICK q : q = [r EXCEPT !.pc = pc, !.gap = 0]
  OBVIOUS
<1>2. q \in CallType /\ CallFit(source, q)
  BY <1>1, CallGoes
<1>3. call' = [call EXCEPT ![c] = q]
  BY <1>1 DEF Moved
<1> QED BY <1>2, <1>3, CallsKeep

\* A call is replayed a page.
LEMMA CallReplayed ==
  ASSUME IInv, UNCHANGED source, NEW c \in Calls,
         NEW r \in CallType, r.key \in Keys, Hit(r), call' = Answered(c, r, cache[r.key].body, "cache"),
         cache' \in [Keys -> [body : Outcomes \cup {None}, left : Nat]], CacheFit',
         penalised' \in BOOLEAN, since' \in Nat, turns' \in Seq(Calls), tab' \in Seq(Calls)
  PROVE  IInv'
<1>1. r.way = "plain" /\ cache[r.key].body \in S.kept
  BY DEF Hit, IInv, CacheFit
<1>2. PICK q : q = [Call("done", r.key, r.way) EXCEPT !.got = r.got, !.told = Told(cache[r.key].body), !.by = "cache"]
  OBVIOUS
<1>3. q \in CallType /\ CallFit(source, q)
  BY <1>1, <1>2, CacheAnswers DEF IInv
<1>4. call' = [call EXCEPT ![c] = q]
  BY <1>2 DEF Answered
<1> QED BY <1>3, <1>4, CallsKeep

\* A call is answered of what was read.
LEMMA CallSettled ==
  ASSUME IInv, UNCHANGED <<source, since>>, NEW c \in Calls, call[c].pc \notin {"idle", "done"},
         NEW read \in Outcomes, Ending(call[c], read), NEW o, o = Better(call[c].one, read),
         Settle(c, o, read), turns' \in Seq(Calls), tab' \in Seq(Calls)
  PROVE  IInv'
<1>1. call[c] \in CallType /\ CallFit(source, call[c]) /\ TypeOK
  BY DEF IInv, TypeOK, CallsFit
<1>2. MetFit(source, call[c])
  BY <1>1 DEF CallFit
<1>3. o \in Outcomes
  BY <1>1, <1>2, BetterMet
<1>4. cache' \in [Keys -> [body : Outcomes \cup {None}, left : Nat]] /\ CacheFit'
  BY <1>3, CacheKept DEF Settle
<1>5. PICK r : r = call[c]
  OBVIOUS
<1>6. PICK q : q = [Call("done", r.key, r.way) EXCEPT !.got = r.got \cup {Kind(read)}, !.told = Told(o), !.by = "site"]
  OBVIOUS
<1>7. q \in CallType /\ CallFit(source, q)
  BY <1>1, <1>5, <1>6, SiteAnswers
<1>8. call' = [call EXCEPT ![c] = q]
  <2>1. PICK m : m = [r EXCEPT !.got = @ \cup {Kind(read)}]
    OBVIOUS
  <2>2. m.key = r.key /\ m.way = r.way /\ m.got = r.got \cup {Kind(read)}
    BY <1>1, <1>5, <2>1 DEF CallType
  <2>3. call' = Answered(c, m, o, "site")
    BY <1>5, <2>1 DEF Settle
  <2> QED BY <1>6, <2>2, <2>3 DEF Answered
<1>9. penalised' \in BOOLEAN
  BY DEF Settle, Penalty, IInv, TypeOK
<1>10. since' \in Nat
  BY DEF IInv, TypeOK
<1> QED BY <1>4, <1>7, <1>8, <1>9, <1>10, CallsKeep
LEMMA ReadsBegin == Init => IInv
<1> SUFFICES ASSUME Init PROVE IInv
  OBVIOUS
<1>1. NoCall \in CallType /\ CallFit(source, NoCall)
  <2>1. "idle" \in Places /\ "plain" \in Ways
    BY DEF Places, Ways
  <2> QED BY <2>1, CallNew DEF NoCall
<1>2. Nothing \in [body : Outcomes \cup {None}, left : Nat] /\ Nothing.left = 0
  BY DEF Nothing, Entry
<1>3. TypeOK
  <2>1. source \in Sources /\ since \in Nat
    BY SourceReadsAssumption DEF Init
  <2>2. penalised \in BOOLEAN
    BY DEF Init
  <2>3. turns \in Seq(Calls) /\ tab \in Seq(Calls)
    BY DEF Init
  <2> QED BY <1>1, <1>2, <2>1, <2>2, <2>3 DEF Init, TypeOK
<1> QED BY <1>1, <1>2, <1>3 DEF Init, IInv, CacheFit, CallsFit

\* A call of its own.
LEMMA CallKnown ==
  ASSUME IInv, NEW c \in Calls
  PROVE  /\ call[c] \in CallType /\ CallFit(source, call[c]) /\ TypeOK
         /\ call[c].pc # "idle" => call[c].key \in Keys
         /\ call[c].pc = "first" => call[c].leg = "first" /\ call[c].one = None
         /\ penalised \in BOOLEAN /\ since \in Nat /\ turns \in Seq(Calls) /\ tab \in Seq(Calls)
  BY DEF IInv, TypeOK, CallsFit, CallFit, MetFit

LEMMA StartsKeep ==
  ASSUME IInv, NEW c \in Calls, NEW k \in Keys, NEW way \in Ways,
         StartPaced(c, k, way) \/ StartOnHit(c, k, way) \/ StartOnMiss(c, k, way) \/ StartForTab(c, k, way)
  PROVE  IInv'
<1>1. PICK r : r = Call("idle", k, way)
  OBVIOUS
<1>2. r \in CallType /\ CallFit(source, r) /\ r.key = k /\ r.pc = "idle"
  <2>1. "idle" \in Places
    BY DEF Places
  <2> QED BY <1>1, <2>1, CallNew DEF Call
<1>3. "queued" \in Places \ {"idle", "gate", "done"}
  BY DEF Places
<1>4. CASE StartPaced(c, k, way) \/ StartOnMiss(c, k, way)
  <2>1. AskTurn(c, r, "gate") /\ UNCHANGED <<source, cache, since, penalised, tab>>
    BY <1>1, <1>4 DEF StartPaced, StartOnMiss
  <2> QED BY <1>2, <2>1, TurnAsked
<1>5. CASE StartOnHit(c, k, way)
  <2>1. /\ Hit(r) /\ call' = Answered(c, r, cache[r.key].body, "cache")
        /\ UNCHANGED <<source, since, turns, tab>>
        /\ penalised' = (penalised \/ cache[k].body \in S.illSeen)
        /\ cache' = IF source \in Renewing THEN [cache EXCEPT ![k].left = TTL] ELSE cache
    BY <1>1, <1>2, <1>5 DEF StartOnHit
  <2>2. penalised' \in BOOLEAN /\ since' \in Nat /\ turns' \in Seq(Calls) /\ tab' \in Seq(Calls)
    BY <2>1, CallKnown
  <2>3. cache[k].body \in S.kept
    BY <1>2, <2>1 DEF Hit, IInv, CacheFit
  <2>4. TTL \in Nat /\ S' = S
    BY <2>1, SourceReadsAssumption DEF S
  <2>5. cache' \in [Keys -> [body : Outcomes \cup {None}, left : Nat]] /\ CacheFit'
    <3>1. PICK e : e = [cache[k] EXCEPT !.left = TTL]
      OBVIOUS
    <3>2. e \in [body : Outcomes \cup {None}, left : Nat] /\ e.body = cache[k].body
      BY <2>4, <3>1 DEF IInv, TypeOK
    <3>3. cache' = [cache EXCEPT ![k] = e] \/ cache' = cache
      BY <2>1, <3>1
    <3> QED BY <2>3, <2>4, <3>2, <3>3 DEF IInv, TypeOK, CacheFit
  <2> QED BY <1>2, <2>1, <2>2, <2>5, CallReplayed
<1>6. CASE StartForTab(c, k, way)
  <2>1. call' = Moved(c, r, "queued") /\ tab' = Append(tab, c) /\ UNCHANGED <<source, cache, since, penalised, turns>>
    BY <1>1, <1>6 DEF StartForTab
  <2>2. penalised' \in BOOLEAN /\ since' \in Nat /\ turns' \in Seq(Calls) /\ tab' \in Seq(Calls)
    BY <2>1, CallKnown
  <2> QED BY <1>2, <1>3, <2>1, <2>2, CacheStays, CallMoved
<1> QED BY <1>4, <1>5, <1>6

LEMMA TurnsKeep == ASSUME IInv, NEW c \in Calls, Turn(c) PROVE IInv'
<1>1. /\ turns # <<>> /\ turns' = Tail(turns) /\ since' = 0 /\ penalised' = FALSE /\ UNCHANGED source
      /\ call[c].pc \in {"gate", "again", "ready"}
  BY DEF Turn, TakeTurn, TurnToReplay, TurnToRead, TurnToQueue, TurnToRepeat, TurnToOpen
<1>2. turns' \in Seq(Calls) /\ since' \in Nat /\ penalised' \in BOOLEAN
  <2>1. turns \in Seq(Calls)
    BY CallKnown
  <2>2. turns' \in Seq(Calls)
    BY <1>1, <2>1
  <2> QED BY <1>1, <2>2
<1>3. call[c] \in CallType /\ CallFit(source, call[c]) /\ call[c].key \in Keys
  BY <1>1, CallKnown
<1>4. {"first", "second", "queued", "open"} \subseteq Places \ {"idle", "gate", "done"}
  BY DEF Places
<1>5. tab \in Seq(Calls) /\ Append(tab, c) \in Seq(Calls)
  BY CallKnown
<1>6. CASE TurnToReplay(c)
  <2>1. Hit(call[c]) /\ call' = Answered(c, call[c], cache[call[c].key].body, "cache") /\ UNCHANGED <<cache, tab>>
    BY <1>6 DEF TurnToReplay
  <2> QED BY <1>1, <1>2, <1>3, <1>5, <2>1, CacheStays, CallReplayed
<1>7. CASE TurnToRead(c)
  <2>1. /\ S.first # "none" /\ call' = Moved(c, call[c], "first") /\ UNCHANGED tab
        /\ cache' = cache \/ cache' = [cache EXCEPT ![call[c].key] = Nothing]
    BY <1>7 DEF TurnToRead
  <2>2. cache' \in [Keys -> [body : Outcomes \cup {None}, left : Nat]] /\ CacheFit'
    <3>1. "fault" \in Outcomes
      BY DEF Outcomes
    <3> QED BY <1>1, <2>1, <3>1, CacheStays, CacheKept
  <2>3. call[c].leg = "first"
    BY <1>3, <1>7, <2>1, CallKnown, ProfileKnown DEF TurnToRead, TakeTurn, CallFit, MetFit
  <2> QED BY <1>1, <1>2, <1>3, <1>4, <1>5, <2>1, <2>2, <2>3, CallMoved
<1>8. CASE TurnToQueue(c)
  <2>1. call' = Moved(c, call[c], "queued") /\ tab' = Append(tab, c) /\ UNCHANGED cache
    BY <1>8 DEF TurnToQueue
  <2> QED BY <1>1, <1>2, <1>3, <1>4, <1>5, <2>1, CacheStays, CallMoved
<1>9. CASE TurnToRepeat(c)
  <2>1. call' = Moved(c, call[c], call[c].leg) /\ UNCHANGED <<cache, tab>>
    BY <1>9 DEF TurnToRepeat
  <2>2. call[c].leg \in Places \ {"idle", "gate", "done"}
    BY <1>3, <1>4 DEF CallType
  <2> QED BY <1>1, <1>2, <1>3, <1>5, <2>1, <2>2, CacheStays, CallMoved
<1>10. CASE TurnToOpen(c)
  <2>1. call' = Moved(c, call[c], "open") /\ UNCHANGED <<cache, tab>>
    BY <1>10 DEF TurnToOpen
  <2> QED BY <1>1, <1>2, <1>3, <1>4, <1>5, <2>1, CacheStays, CallMoved
<1> QED BY <1>6, <1>7, <1>8, <1>9, <1>10 DEF Turn
LEMMA ReadsKeep == ASSUME IInv, NEW c \in Calls, Reads(c) PROVE IInv'
<1>1. PICK o \in Outcomes :
        FirstEnds(c, o) \/ FallBackToTab(c, o) \/ FallBackToHttp(c, o) \/ SecondEnds(c, o)
  BY DEF Reads
<1>2. /\ call[c] \in CallType /\ CallFit(source, call[c]) /\ TypeOK
      /\ tab \in Seq(Calls) /\ turns \in Seq(Calls) /\ since \in Nat /\ penalised \in BOOLEAN
  BY CallKnown
<1>3. RemoveFirst(tab, c) \in Seq(Calls) /\ Append(tab, c) \in Seq(Calls)
  BY <1>2, QueueRemains
<1>4. CASE FirstEnds(c, o)
  <2>1. /\ call[c].pc = "first" /\ Ending(call[c], o) /\ Settle(c, o, o)
        /\ UNCHANGED <<source, since, turns, tab>>
    BY <1>4 DEF FirstEnds, Ending
  <2>2. o = Better(call[c].one, o)
    BY <2>1, CallKnown DEF Better
  <2> QED BY <1>2, <2>1, <2>2, CallSettled
<1>5. CASE SecondEnds(c, o)
  <2>1. /\ call[c].pc \notin {"idle", "done"} /\ Ending(call[c], o) /\ Settle(c, Better(call[c].one, o), o)
        /\ tab' = RemoveFirst(tab, c) /\ UNCHANGED <<source, since, turns>>
    BY <1>5 DEF SecondEnds, Ending
  <2> QED BY <1>2, <1>3, <2>1, CallSettled
<1>6. CASE FallBackToTab(c, o) \/ FallBackToHttp(c, o)
  <2>1. PICK pc \in {"queued", "second"} : call' = Fallen(c, o, pc)
    BY <1>6 DEF FallBackToTab, FallBackToHttp
  <2>2. /\ call[c].pc = "first" /\ o \in S.answers \ S.enough /\ S.second # "none"
        /\ UNCHANGED <<source, cache, since, penalised, turns>>
        /\ tab' = Append(tab, c) \/ UNCHANGED tab
    BY <1>6 DEF FallBackToTab, FallBackToHttp
  <2>3. PICK q : q = [call[c] EXCEPT !.pc = pc, !.leg = "second", !.one = o, !.got = @ \cup {Kind(o)}]
    OBVIOUS
  <2>4. q \in CallType /\ CallFit(source, q)
    BY <1>2, <2>2, <2>3, CallFalls
  <2>5. call' = [call EXCEPT ![c] = q]
    BY <2>1, <2>3 DEF Fallen
  <2>6. tab' \in Seq(Calls) /\ turns' \in Seq(Calls) /\ since' \in Nat /\ penalised' \in BOOLEAN
    BY <1>2, <1>3, <2>2
  <2> QED BY <2>2, <2>4, <2>5, <2>6, CacheStays, CallsKeep
<1> QED BY <1>1, <1>4, <1>5, <1>6

LEMMA CallsStep ==
  ASSUME IInv, NEW c \in Calls,
         OpenTab(c) \/ AskInTab(c) \/ Repeat(c) \/ TimeOut(c) \/ Cancel(c) \/ Return(c)
  PROVE  IInv'
<1>1. /\ call[c] \in CallType /\ CallFit(source, call[c])
      /\ call[c].pc # "idle" => call[c].key \in Keys
      /\ tab \in Seq(Calls) /\ turns \in Seq(Calls) /\ since \in Nat /\ penalised \in BOOLEAN
  BY CallKnown
<1>2. RemoveFirst(tab, c) \in Seq(Calls) /\ RemoveFirst(turns, c) \in Seq(Calls)
  BY <1>1, QueueRemains
<1>3. CASE OpenTab(c)
  <2>1. /\ call[c].pc = "queued" /\ call' = Moved(c, call[c], "open")
        /\ UNCHANGED <<source, cache, since, penalised, turns, tab>>
    BY <1>3 DEF OpenTab, HasTab
  <2>2. "open" \in Places \ {"idle", "gate", "done"}
    BY DEF Places
  <2> QED BY <1>1, <2>1, <2>2, CacheStays, CallMoved
<1>4. CASE AskInTab(c)
  <2>1. /\ call[c].pc = "queued" /\ AskTurn(c, call[c], "ready")
        /\ UNCHANGED <<source, cache, since, penalised, tab>>
    BY <1>4 DEF AskInTab, HasTab
  <2> QED BY <1>1, <2>1, TurnAsked
<1>5. CASE Repeat(c)
  <2>1. PICK r : r = [call[c] EXCEPT !.retries = @ - 1, !.got = @ \cup {"fault"}]
    OBVIOUS
  <2>2. /\ call[c].pc \in {"first", "second"} /\ AskTurn(c, r, "again")
        /\ UNCHANGED <<source, cache, since, penalised, tab>>
    BY <1>5, <2>1 DEF Repeat
  <2>3. r \in CallType /\ CallFit(source, r) /\ r.pc = call[c].pc /\ r.key = call[c].key
    BY <1>1, <2>1, <2>2, CallFaults
  <2> QED BY <1>1, <2>2, <2>3, TurnAsked
<1>6. CASE TimeOut(c)
  <2>1. /\ call[c].pc \notin {"idle", "done"} /\ Settle(c, Better(call[c].one, "fault"), "fault")
        /\ turns' = RemoveFirst(turns, c) /\ tab' = RemoveFirst(tab, c) /\ UNCHANGED <<source, since>>
    BY <1>6 DEF TimeOut
  <2>2. "fault" \in Outcomes /\ Ending(call[c], "fault")
    BY DEF Outcomes, Ending
  <2> QED BY <1>2, <2>1, <2>2, CallSettled
<1>7. CASE Cancel(c) \/ Return(c)
  <2>1. /\ call' = [call EXCEPT ![c] = NoCall]
        /\ UNCHANGED <<source, cache, since, penalised>>
        /\ turns' \in {turns, RemoveFirst(turns, c)} /\ tab' \in {tab, RemoveFirst(tab, c)}
    BY <1>7 DEF Cancel, Return
  <2>2. NoCall \in CallType /\ CallFit(source, NoCall)
    <3>1. "idle" \in Places /\ "plain" \in Ways
      BY DEF Places, Ways
    <3> QED BY <3>1, CallNew DEF NoCall
  <2>3. turns' \in Seq(Calls) /\ tab' \in Seq(Calls) /\ since' \in Nat /\ penalised' \in BOOLEAN
    BY <1>1, <1>2, <2>1
  <2> QED BY <2>1, <2>2, <2>3, CacheStays, CallsKeep
<1> QED BY <1>3, <1>4, <1>5, <1>6, <1>7

\* A page grows older.
LEMMA TickKeeps == ASSUME IInv, Tick PROVE IInv'
<1>1. /\ UNCHANGED <<source, penalised, turns, tab, call>> /\ cache' = [k \in Keys |-> Aged(cache[k])]
      /\ since' \in {since, since + 1}
  BY DEF Tick
<1>2. S' = S
  BY <1>1 DEF S
<1>3. ASSUME NEW k \in Keys
      PROVE  /\ Aged(cache[k]) \in [body : Outcomes \cup {None}, left : Nat]
             /\ Aged(cache[k]).left > 0 => Aged(cache[k]).body = cache[k].body /\ cache[k].left > 0
  <2>1. cache[k].body \in Outcomes \cup {None} /\ cache[k].left \in Nat
    BY DEF IInv, TypeOK
  <2> QED BY <2>1 DEF Aged, Nothing, Entry
<1>4. cache' \in [Keys -> [body : Outcomes \cup {None}, left : Nat]] /\ CacheFit'
  BY <1>1, <1>2, <1>3 DEF IInv, CacheFit
<1>5. since' \in Nat
  BY <1>1 DEF IInv, TypeOK
<1>6. TypeOK'
  BY <1>1, <1>4, <1>5 DEF IInv, TypeOK
<1> QED BY <1>1, <1>4, <1>6 DEF IInv, CallsFit

LEMMA NextKeeps == ASSUME IInv, [Next]_vars PROVE IInv'
<1>1. CASE \E c \in Calls, k \in Keys, way \in {"plain", "fresh", "resumed"} :
             StartPaced(c, k, way) \/ StartOnHit(c, k, way) \/ StartOnMiss(c, k, way) \/ StartForTab(c, k, way)
  BY <1>1, StartsKeep DEF Ways
<1>2. CASE \E c \in Calls : Turn(c) \/ OpenTab(c) \/ AskInTab(c) \/ Reads(c) \/ Repeat(c)
                              \/ TimeOut(c) \/ Cancel(c) \/ Return(c)
  BY <1>2, TurnsKeep, CallsStep, ReadsKeep
<1>3. CASE Tick
  BY <1>3, TickKeeps
<1>4. CASE UNCHANGED vars
  <2>1. S' = S
    BY <1>4 DEF S, vars
  <2>2. TypeOK'
    BY <1>4 DEF IInv, TypeOK, vars
  <2> QED BY <1>4, <2>1, <2>2 DEF IInv, CacheFit, CallsFit, vars
<1> QED BY <1>1, <1>2, <1>3, <1>4 DEF Next

-----------------------------------------------------------------------------
(* The theorems *)

\* A call of any connector stands where a call may, and what is cached, queued and
\* told is of its kind.
THEOREM TypeCorrect == Spec => []TypeOK
<1>1. IInv => TypeOK
  BY DEF IInv
<1> QED BY <1>1, ReadsBegin, NextKeeps, PTL DEF Spec

\* A page that any client got is what the caller is answered, and between two HTTP
\* clients no refusal is hidden: of every source, Avito too.
THEOREM BestAlwaysTold == Spec => []BestTold
<1>1. IInv => BestTold
  <2>1. TypeOK => S = Profile(source)
    BY ProfileKnown
  <2> QED BY <2>1 DEF IInv, CallsFit, CallFit, ToldFit, BestTold
<1> QED BY <1>1, ReadsBegin, NextKeeps, PTL DEF Spec

\* A refusal told is a new one, and a health check is answered by the site: of
\* every source but Avito, which keeps what it then tells as a refusal.
THEOREM AnswersAlwaysCurrent ==
  ASSUME "avito" \notin Sources
  PROVE  Spec => []AnswersCurrent
<1>1. IInv => AnswersCurrent
  BY DEF IInv, TypeOK, CallsFit, CallFit, ToldFit, AnswersCurrent
<1> QED BY <1>1, ReadsBegin, NextKeeps, PTL DEF Spec

\* What a step may tell the pacer.
PenaltyStep ==
  /\ ~penalised /\ penalised' =>
       \E c \in Calls : /\ call[c].pc # "done" /\ call'[c].pc = "done"
                        /\ call'[c].by = "site" /\ "refusal" \in call'[c].got
  /\ penalised /\ ~penalised' =>
       \/ turns' # turns /\ since' = 0
       \/ \E c \in Calls : /\ call[c].pc # "done" /\ call'[c].pc = "done"
                           /\ call'[c].by = "site" /\ call'[c].got \cap {"content", "data"} # {}

\* The pacer is told what the call met.
LEMMA PenaltyMet ==
  ASSUME IInv, NEW c \in Calls, call[c].pc \notin {"idle", "done"},
         NEW read \in Outcomes, Ending(call[c], read), NEW o, o = Better(call[c].one, read),
         Settle(c, o, read)
  PROVE  PenaltyStep
<1>1. call[c] \in CallType /\ CallFit(source, call[c]) /\ TypeOK /\ Sensible(S)
  BY CallKnown, ProfileKnown
<1>2. MetFit(source, call[c])
  BY <1>1 DEF CallFit
<1>3. PICK r : r = call[c]
  OBVIOUS
<1>4. /\ o \in Outcomes /\ Kind(o) \in r.got \cup {Kind(read)}
      /\ o # read => S.second = "http" /\ o \notin S.enough /\ r.leg # "first"
  BY <1>1, <1>2, <1>3, BetterMet
<1>5. /\ call'[c].pc = "done" /\ call'[c].by = "site" /\ call'[c].got = r.got \cup {Kind(read)}
  <2>1. PICK m : m = [r EXCEPT !.got = @ \cup {Kind(read)}]
    OBVIOUS
  <2>2. m.key = r.key /\ m.way = r.way /\ m.got = r.got \cup {Kind(read)}
    BY <1>1, <1>3, <2>1 DEF CallType
  <2>3. call' = [call EXCEPT ![c] = [Call("done", m.key, m.way) EXCEPT !.got = m.got, !.told = Told(o), !.by = "site"]]
    BY <1>3, <2>1 DEF Settle, Answered
  <2>4. Call("done", m.key, m.way) = Call("done", r.key, r.way)
    BY <2>2
  <2>5. r.key \in Keys /\ r \in CallType
    BY <1>1, <1>3 DEF CallFit
  <2>6. PICK d \in CallType : d = Call("done", m.key, m.way) /\ d.pc = "done"
    BY <2>4, <2>5, AnswerRecord
  <2>7. call'[c] = [d EXCEPT !.got = m.got, !.told = Told(o), !.by = "site"]
    BY <1>1, <2>3, <2>6 DEF TypeOK
  <2> QED BY <2>2, <2>6, <2>7 DEF CallType
<1>6. penalised' = (\/ o \in S.ill \cup S.illSeen
                    \/ penalised /\ o \notin Good(r.leg))
  BY <1>3 DEF Settle, Penalty
<1>7. ~penalised /\ penalised' => "refusal" \in call'[c].got
  BY <1>1, <1>4, <1>5, <1>6, Kinds DEF Sensible
<1>8. penalised /\ ~penalised' => call'[c].got \cap {"content", "data"} # {}
  <2>1. SUFFICES ASSUME o \in Good(r.leg), o \notin S.illSeen
                 PROVE  Kind(o) \in {"content", "data"}
    BY <1>4, <1>5, <1>6
  <2> QED BY <1>1, <1>4, <2>1, Kinds DEF Good, Sensible
<1> QED BY <1>5, <1>7, <1>8 DEF PenaltyStep

\* A turn taken is one less in the queue.
LEMMA TurnTaken ==
  ASSUME IInv, NEW c \in Calls, Turn(c)
  PROVE  turns' # turns /\ since' = 0 /\ penalised' = FALSE
<1>1. turns # <<>> /\ turns' = Tail(turns) /\ since' = 0 /\ penalised' = FALSE
  BY DEF Turn, TakeTurn, TurnToReplay, TurnToRead, TurnToQueue, TurnToRepeat, TurnToOpen
<1>2. turns \in Seq(Calls)
  BY CallKnown
<1>3. Len(turns') = Len(turns) - 1 /\ Len(turns) \in Nat
  BY <1>1, <1>2
<1>4. turns' # turns
  BY <1>3
<1> QED BY <1>1, <1>4

\* The pacer is told of a refusal only by a call that has just met one, of a success
\* only by one that was given something: of every source but Avito.
THEOREM PenaltyAlwaysEarned ==
  ASSUME "avito" \notin Sources
  PROVE  Spec => PenaltyEarned
<1>1. ASSUME IInv, Next
      PROVE  PenaltyStep
  <2>1. CASE \E c \in Calls, k \in Keys, way \in {"plain", "fresh", "resumed"} : StartOnHit(c, k, way)
    <3>1. PICK c \in Calls, k \in Keys, way \in {"plain", "fresh", "resumed"} : StartOnHit(c, k, way)
      BY <2>1
    <3>2. cache[k].body \in S.kept /\ penalised' = (penalised \/ cache[k].body \in S.illSeen)
      BY <1>1, <3>1 DEF StartOnHit, Hit, Call, IInv, CacheFit
    <3>3. cache[k].body \notin S.illSeen
      BY <1>1, <3>2, ProfileKnown DEF IInv, TypeOK
    <3> QED BY <3>2, <3>3 DEF PenaltyStep
  <2>2. CASE \E c \in Calls : Turn(c)
    BY <1>1, <2>2, TurnTaken DEF PenaltyStep
  <2>3. CASE \E c \in Calls : TimeOut(c)
    <3>1. PICK c \in Calls : TimeOut(c)
      BY <2>3
    <3>2. /\ call[c].pc \notin {"idle", "done"} /\ Settle(c, Better(call[c].one, "fault"), "fault")
          /\ "fault" \in Outcomes /\ Ending(call[c], "fault")
      BY <3>1 DEF TimeOut, Outcomes, Ending
    <3> QED BY <1>1, <3>2, PenaltyMet
  <2>4. CASE \E c \in Calls : Reads(c)
    <3>1. PICK c \in Calls, o \in Outcomes :
            FirstEnds(c, o) \/ FallBackToTab(c, o) \/ FallBackToHttp(c, o) \/ SecondEnds(c, o)
      BY <2>4 DEF Reads
    <3>2. CASE FirstEnds(c, o)
      <4>1. call[c].pc = "first" /\ Ending(call[c], o) /\ Settle(c, o, o)
        BY <3>2 DEF FirstEnds, Ending
      <4>2. o = Better(call[c].one, o)
        BY <1>1, <4>1, CallKnown DEF Better
      <4> QED BY <1>1, <4>1, <4>2, PenaltyMet
    <3>3. CASE SecondEnds(c, o)
      <4>1. call[c].pc \notin {"idle", "done"} /\ Ending(call[c], o) /\ Settle(c, Better(call[c].one, o), o)
        BY <3>3 DEF SecondEnds, Ending
      <4> QED BY <1>1, <4>1, PenaltyMet
    <3>4. CASE FallBackToTab(c, o) \/ FallBackToHttp(c, o)
      BY <3>4 DEF FallBackToTab, FallBackToHttp, PenaltyStep
    <3> QED BY <3>1, <3>2, <3>3, <3>4
  <2>5. ASSUME UNCHANGED penalised
        PROVE  PenaltyStep
    BY <2>5 DEF PenaltyStep
  <2> QED BY <1>1, <2>1, <2>2, <2>3, <2>4, <2>5
          DEF Next, StartPaced, StartOnMiss, StartForTab, AskTurn, OpenTab, AskInTab, Repeat, Cancel, Return, Tick
<1>2. IInv /\ [Next]_vars => [PenaltyStep]_vars
  BY <1>1
<1> QED BY <1>2, ReadsBegin, NextKeeps, PTL DEF Spec, PenaltyEarned, PenaltyStep
=============================================================================
