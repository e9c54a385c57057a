----------------------------- MODULE SourceReads -----------------------------
(***************************************************************************)
(* The read pipeline of the connectors: a tool call looks for its page in  *)
(* the cache, waits for the source's turn, reads over HTTP, falls back to  *)
(* another client or to the operator's Chrome, keeps what it may keep,     *)
(* tells the pacer what it met and answers the client.  The connectors     *)
(* compose these steps differently and judge a body differently: a Profile *)
(* says how one does, and a behaviour is that of one source.               *)
(*                                                                         *)
(* The pacer is the one of Pacer.tla seen from outside: calls get their    *)
(* turns in the order they asked, each once the gap it fixed when it asked *)
(* has passed since the last turn (jitter is left out).  _cdp_lock is the  *)
(* queue tab, whose head holds the lock.  A read by get_text_budgeted() or *)
(* its POST twin is a request, repeated after a transport fault; HttpTier  *)
(* has the rest of it.                                                     *)
(***************************************************************************)
EXTENDS Integers, SequencesExt

CONSTANTS
  Calls, Keys, None,
  Sources,      \* the sources a behaviour may be about
  MinGap,       \* the gap between two turns ...
  ErrorDelay,   \* ... and after a refusal
  TTL,          \* how long a page is kept
  Retries       \* of a transport fault, where the client retries

(***************************************************************************)
(* What a read may come to, as the connector sorts it.  With status 200:   *)
(* content; hollow, of the shape asked for but with nothing in it that the *)
(* parser accepts; soft, of that shape but saying the source refuses; wall,*)
(* another page, known to be a refusal; odd, another page.  With another   *)
(* status: refused, limited (429), missing.  fault: no answer.  overlong:  *)
(* a body over the cap, whose status is kept; told apart from a fault only *)
(* where that status is looked at.  In Chrome also NavBlocked with a       *)
(* refusing status (blocked) or for a foreign host (strayed), and the      *)
(* navigation budget's pause (paused).                                     *)
(***************************************************************************)
Shaped   == {"content", "hollow", "soft"}
Other    == {"wall", "odd"}
Statuses == {"refused", "limited", "missing"}
Chrome   == {"blocked", "strayed", "paused"}
Outcomes == Shaped \cup Other \cup Statuses \cup Chrome \cup {"fault", "overlong"}

\* What an outcome amounts to: the site refused, however it said so, or gave
\* something, or did not answer.
Kind(o) ==
  CASE o \in {"soft", "wall", "refused", "limited", "blocked", "strayed"} -> "refusal"
    [] o \in {"hollow", "odd"} -> "data"
    [] OTHER -> o

Fetched  == Outcomes \ (Chrome \cup {"overlong"})     \* of an HTTP client
InPage   == Outcomes \ {"overlong"}                  \* of a fetch() inside a page
Rendered == Shaped \cup Chrome \cup {"odd", "fault"} \* of a page's DOM

(***************************************************************************)
(* A profile.  first and second are the clients tried, in this order; the  *)
(* tab is opened under the lock.  paced is where polite_wait() stands:     *)
(* before the cache is looked at, before the first read, or in the lock.   *)
(* ways: some calls must not be answered from the cache, those that check  *)
(* the source's health (fresh) and those with a retained page (resumed).   *)
(* bounded: one timeout covers the queue for the tab and the read in it.   *)
(* enough: first's outcomes that end the read; kept, dropped: what is      *)
(* stored and what invalidates; good1, good2, ill: what is told the pacer  *)
(* of a read; illSeen: of a body whether read or replayed; pages, blocks:  *)
(* what the client gets as a page or as a refusal.                         *)
(***************************************************************************)
Avito ==
  [first |-> "thread", second |-> "tab", paced |-> "read", ways |-> {"plain"}, bounded |-> TRUE,
   answers |-> Fetched \ {"wall"}, answers2 |-> InPage \ {"wall"},
   enough |-> Shaped, kept |-> Shaped, dropped |-> {},
   good1 |-> Shaped, good2 |-> {}, ill |-> {"refused", "limited", "blocked"}, illSeen |-> {"soft"},
   pages |-> {"content"}, blocks |-> {"soft", "refused", "limited", "blocked"}]

Cian ==
  [first |-> "none", second |-> "tab", paced |-> "read", ways |-> {"plain"}, bounded |-> TRUE,
   answers |-> {}, answers2 |-> InPage \ {"soft"},
   enough |-> {}, kept |-> {"content", "hollow"}, dropped |-> {},
   good1 |-> {}, good2 |-> {"content", "hollow"},
   ill |-> {"wall", "refused", "limited", "blocked", "strayed"}, illSeen |-> {},
   pages |-> {"content"}, blocks |-> {"wall", "refused", "limited", "blocked"}]

Ozon ==
  [first |-> "thread", second |-> "tab", paced |-> "read", ways |-> {"plain"}, bounded |-> TRUE,
   answers |-> Fetched \ {"soft", "wall"}, answers2 |-> InPage \ {"soft", "wall"},
   enough |-> Shaped, kept |-> Shaped, dropped |-> {},
   good1 |-> {}, good2 |-> {}, ill |-> {}, illSeen |-> {},
   pages |-> {"content"}, blocks |-> {"refused", "blocked"}]

\* Whatever Chrome reads with status 200 is a page, an empty one if need be.
DromInChrome ==
  [first |-> "none", second |-> "tab", paced |-> "read", ways |-> {"plain"}, bounded |-> TRUE,
   answers |-> {}, answers2 |-> InPage \ {"soft", "wall"},
   enough |-> {}, kept |-> {"content", "hollow", "odd"}, dropped |-> {},
   good1 |-> {}, good2 |-> {"content", "hollow", "odd"}, ill |-> {"refused", "limited"}, illSeen |-> {},
   pages |-> {"content", "hollow", "odd"}, blocks |-> {"refused", "limited", "blocked", "strayed"}]

\* With a proxy configured it tries the impersonated client first.
DromProxied ==
  [DromInChrome EXCEPT !.first = "thread", !.answers = Fetched \ {"soft", "wall"},
                       !.enough = {"content", "hollow"}, !.good1 = {"content", "hollow"}]

\* A host that refuses the default client: impersonation, then the default.
\* The reads in Chrome that some of its tools try last are left out.
WbGated ==
  [first |-> "thread", second |-> "http", paced |-> "tool", ways |-> {"plain", "fresh"}, bounded |-> TRUE,
   answers |-> (Fetched \cup {"overlong"}) \ {"soft"}, answers2 |-> Fetched \ {"soft"},
   enough |-> {"content", "hollow", "odd"}, kept |-> {"content", "hollow", "odd"}, dropped |-> {},
   good1 |-> {"content", "hollow", "odd"}, good2 |-> {"content", "hollow", "odd"},
   ill |-> {"wall", "refused", "limited"}, illSeen |-> {},
   pages |-> {"content"}, blocks |-> {"wall", "refused", "limited"}]

\* Another host of the same source.
WbOpen == [WbGated EXCEPT !.first = "http", !.second = "none",
                          !.answers = Fetched \ {"soft"}, !.answers2 = {}]

LamodaCard ==
  [first |-> "thread", second |-> "tab", paced |-> "read", ways |-> {"plain"}, bounded |-> TRUE,
   answers |-> Fetched \ {"soft", "wall"}, answers2 |-> InPage \ {"wall"},
   enough |-> {"content", "hollow", "odd"}, kept |-> {"content"}, dropped |-> {},
   good1 |-> {}, good2 |-> {}, ill |-> {}, illSeen |-> {},
   pages |-> {"content"}, blocks |-> {"soft"}]

LamodaSearch ==
  [first |-> "none", second |-> "tab", paced |-> "tab", ways |-> {"plain", "resumed"}, bounded |-> TRUE,
   answers |-> {}, answers2 |-> Rendered,
   enough |-> {}, kept |-> {"content", "hollow"}, dropped |-> {},
   good1 |-> {}, good2 |-> {}, ill |-> {}, illSeen |-> {},
   pages |-> {"content"}, blocks |-> {"soft", "blocked", "strayed"}]

Megamarket ==
  [first |-> "none", second |-> "tab", paced |-> "tab", ways |-> {"plain"}, bounded |-> TRUE,
   answers |-> {}, answers2 |-> InPage \ {"wall"},
   enough |-> {}, kept |-> {"content", "hollow"}, dropped |-> {},
   good1 |-> {}, good2 |-> {"content", "hollow"}, ill |-> {"soft", "refused", "limited"}, illSeen |-> {},
   pages |-> {"content"}, blocks |-> {"soft", "refused", "limited", "blocked", "strayed"}]

\* A wall met also drops the page another call may have stored.  Citilink reads
\* in the same way.
Dns ==
  [first |-> "none", second |-> "tab", paced |-> "tab", ways |-> {"plain"}, bounded |-> FALSE,
   answers |-> {}, answers2 |-> Rendered,
   enough |-> {}, kept |-> {"content"}, dropped |-> {"soft"},
   good1 |-> {}, good2 |-> {}, ill |-> {}, illSeen |-> {},
   pages |-> {"content"}, blocks |-> {"soft", "blocked", "strayed"}]

Taobao == [Dns EXCEPT !.ways = {"plain", "resumed"}, !.dropped = {}]

\* The search keeps only a grid with tiles in it; the card keeps whatever is
\* not a challenge.
AliexpressSearch == [Dns EXCEPT !.dropped = {}, !.ill = {"soft"}]
AliexpressCard   == [AliexpressSearch EXCEPT !.kept = {"content", "hollow"}]

\* aliexpress_search() stores a page again when it was found in the cache.
Renewing == {"aliexpress_search"}

\* A body that says the token is refused is soft, another code in it hollow.
Mpstats ==
  [first |-> "http", second |-> "none", paced |-> "read", ways |-> {"plain"}, bounded |-> TRUE,
   answers |-> Fetched, answers2 |-> {},
   enough |-> {}, kept |-> {"content"}, dropped |-> {},
   good1 |-> {"content"}, good2 |-> {}, ill |-> {"soft", "wall", "limited"}, illSeen |-> {},
   pages |-> {"content"}, blocks |-> {"soft", "wall", "limited"}]

Profile(s) ==
  CASE s = "avito" -> Avito
    [] s = "cian" -> Cian
    [] s = "ozon" -> Ozon
    [] s = "drom" -> DromInChrome
    [] s = "drom_proxied" -> DromProxied
    [] s = "wb_gated" -> WbGated
    [] s = "wb_open" -> WbOpen
    [] s = "lamoda_card" -> LamodaCard
    [] s = "lamoda_search" -> LamodaSearch
    [] s = "megamarket" -> Megamarket
    [] s = "dns" -> Dns
    [] s = "taobao" -> Taobao
    [] s = "aliexpress_search" -> AliexpressSearch
    [] s = "aliexpress_card" -> AliexpressCard
    [] s = "mpstats" -> Mpstats

Names == {"avito", "cian", "ozon", "drom", "drom_proxied", "wb_gated", "wb_open",
          "lamoda_card", "lamoda_search", "megamarket", "dns", "taobao",
          "aliexpress_search", "aliexpress_card", "mpstats"}

ASSUME SourceReadsAssumption ==
  /\ None \notin Outcomes /\ None \notin Calls
  /\ Sources \subseteq Names
  /\ MinGap \in Nat /\ ErrorDelay \in Nat /\ MinGap <= ErrorDelay
  /\ TTL \in Nat \ {0}
  /\ Retries \in Nat

VARIABLES
  source,     \* the source this is about
  cache,      \* what is kept of each page, and for how long yet
  since,      \* the time since the last turn
  penalised,  \* the pacer's _penalised
  turns,      \* who waits for a turn, in order
  tab,        \* who holds _cdp_lock and who waits for it, in order
  call        \* where each tool call stands

vars == <<source, cache, since, penalised, turns, tab, call>>

S == Profile(source)

Entry(body, left) == [body |-> body, left |-> left]
Nothing == Entry(None, 0)

\* pc: waits before its first read (gate), reads (first, second), waits to
\* repeat it (again), waits for the tab (queued) and in it for its turn (ready),
\* reads there (open), has been answered (done).
\*
\* gap is fixed when a turn is asked for, leg is the client at work, one what
\* the first client came to.  Ghosts: got, what the reads of this call amounted
\* to; told and by, what it was answered and from where.
Call(pc, key, way) ==
  [pc |-> pc, key |-> key, way |-> way, gap |-> 0, retries |-> Retries,
   leg |-> IF S.first = "none" THEN "second" ELSE "first",
   one |-> None, got |-> {}, told |-> "nothing", by |-> "nobody"]

NoCall == Call("idle", None, "plain")

Init ==
  /\ source \in Sources
  /\ cache = [k \in Keys |-> Nothing]
  /\ since = ErrorDelay
  /\ penalised = FALSE
  /\ turns = <<>> /\ tab = <<>>
  /\ call = [c \in Calls |-> NoCall]

Told(o) == IF o \in S.pages THEN "page" ELSE IF o \in S.blocks THEN "refusal" ELSE "failure"

Moved(c, r, pc) == [call EXCEPT ![c] = [r EXCEPT !.pc = pc, !.gap = 0]]
Answered(c, r, o, by) ==
  [call EXCEPT ![c] = [Call("done", r.key, r.way) EXCEPT !.got = r.got, !.told = Told(o), !.by = by]]

\* The call queues for a turn.  Its gap is fixed before the pacer's lock.
AskTurn(c, r, pc) ==
  /\ turns' = Append(turns, c)
  /\ call' = [call EXCEPT ![c] = [r EXCEPT !.pc = pc, !.gap = IF penalised THEN ErrorDelay ELSE MinGap]]

Hit(r) == r.way = "plain" /\ cache[r.key].left > 0

\* A tool that waits before it looks at the cache.
StartPaced(c, k, way) ==
  /\ call[c].pc = "idle" /\ way \in S.ways
  /\ S.paced = "tool"
  /\ AskTurn(c, Call("idle", k, way), "gate")
  /\ UNCHANGED <<source, cache, since, penalised, tab>>

\* Fault: a page found in the cache counts as a success of the source.
HitForgives(c, k, way) ==
  /\ call[c].pc = "idle" /\ way \in S.ways
  /\ S.paced # "tool"
  /\ LET r == Call("idle", k, way) IN
     /\ Hit(r)
     /\ call' = Answered(c, r, cache[k].body, "cache")
  /\ penalised' = FALSE
  /\ UNCHANGED <<source, cache, since, turns, tab>>

\* One that looks first, and finds the page; it judges it as if it were read.
StartOnHit(c, k, way) ==
  /\ call[c].pc = "idle" /\ way \in S.ways
  /\ S.paced # "tool"
  /\ LET r == Call("idle", k, way) IN
     /\ Hit(r)
     /\ call' = Answered(c, r, cache[k].body, "cache")
  /\ penalised' = (penalised \/ cache[k].body \in S.illSeen)
  /\ cache' = IF source \in Renewing THEN [cache EXCEPT ![k].left = TTL] ELSE cache
  /\ UNCHANGED <<source, since, turns, tab>>

\* One that finds nothing waits for its turn ...
StartOnMiss(c, k, way) ==
  /\ call[c].pc = "idle" /\ way \in S.ways
  /\ S.paced = "read"
  /\ LET r == Call("idle", k, way) IN ~Hit(r) /\ AskTurn(c, r, "gate")
  /\ UNCHANGED <<source, cache, since, penalised, tab>>

\* ... or for the tab, where it will wait for its turn.
StartForTab(c, k, way) ==
  /\ call[c].pc = "idle" /\ way \in S.ways
  /\ S.paced = "tab"
  /\ LET r == Call("idle", k, way) IN ~Hit(r) /\ call' = Moved(c, r, "queued")
  /\ tab' = Append(tab, c)
  /\ UNCHANGED <<source, cache, since, penalised, turns>>

\* The pacer lets the next call go.
TakeTurn(c, pc) ==
  /\ turns # <<>> /\ c = Head(turns)
  /\ call[c].pc = pc /\ since >= call[c].gap
  /\ turns' = Tail(turns)
  /\ since' = 0
  /\ penalised' = FALSE
  /\ UNCHANGED source

\* With the wait before the cache, the page may be there by now.
TurnToReplay(c) ==
  /\ TakeTurn(c, "gate")
  /\ S.paced = "tool" /\ Hit(call[c])
  /\ call' = Answered(c, call[c], cache[call[c].key].body, "cache")
  /\ UNCHANGED <<cache, tab>>

\* A health check drops what is kept; then the first client reads.
TurnToRead(c) ==
  /\ TakeTurn(c, "gate")
  /\ S.first # "none"
  /\ S.paced = "tool" => ~Hit(call[c])
  /\ call' = Moved(c, call[c], "first")
  /\ cache' = IF call[c].way = "fresh" THEN [cache EXCEPT ![call[c].key] = Nothing] ELSE cache
  /\ UNCHANGED tab

\* A source with nothing but Chrome: the turn is taken, now for the tab.
TurnToQueue(c) ==
  /\ TakeTurn(c, "gate")
  /\ S.first = "none"
  /\ call' = Moved(c, call[c], "queued")
  /\ tab' = Append(tab, c)
  /\ UNCHANGED cache

TurnToRepeat(c) ==
  /\ TakeTurn(c, "again")
  /\ call' = Moved(c, call[c], call[c].leg)
  /\ UNCHANGED <<cache, tab>>

TurnToOpen(c) ==
  /\ TakeTurn(c, "ready")
  /\ call' = Moved(c, call[c], "open")
  /\ UNCHANGED <<cache, tab>>

HasTab(c) == tab # <<>> /\ c = Head(tab) /\ call[c].pc = "queued"

\* With the lock: the tab is opened, or the call waits there for its turn.
OpenTab(c) ==
  /\ HasTab(c) /\ S.paced # "tab"
  /\ call' = Moved(c, call[c], "open")
  /\ UNCHANGED <<source, cache, since, penalised, turns, tab>>

AskInTab(c) ==
  /\ HasTab(c) /\ S.paced = "tab"
  /\ AskTurn(c, call[c], "ready")
  /\ UNCHANGED <<source, cache, since, penalised, tab>>

\* Fault: whatever came with status 200 is stored.
KeptUnjudged(k, o) ==
  IF o \in Shaped \cup Other THEN [cache EXCEPT ![k] = Entry(o, TTL)] ELSE cache

\* What is stored after a read, and what the pacer is told.
Kept(k, o) ==
  CASE o \in S.kept -> [cache EXCEPT ![k] = Entry(o, TTL)]
    [] o \in S.dropped -> [cache EXCEPT ![k] = Nothing]
    [] OTHER -> cache

Good(leg) == IF leg = "first" THEN S.good1 ELSE S.good2

Penalty(leg, o) ==
  \/ o \in S.ill \cup S.illSeen
  \/ penalised /\ o \notin Good(leg)

\* The pipeline ends with o; this step's read came to read.
Settle(c, o, read) ==
  /\ cache' = Kept(call[c].key, o)
  /\ penalised' = Penalty(call[c].leg, o)
  /\ call' = Answered(c, [call[c] EXCEPT !.got = @ \cup {Kind(read)}], o, "site")

FirstEnds(c, o) ==
  /\ call[c].pc = "first" /\ o \in S.answers
  /\ o \in S.enough \/ S.second = "none"
  /\ Settle(c, o, o)
  /\ UNCHANGED <<source, since, turns, tab>>

Fallen(c, o, pc) ==
  [call EXCEPT ![c] = [call[c] EXCEPT !.pc = pc, !.leg = "second", !.one = o, !.got = @ \cup {Kind(o)}]]

\* The fallback is queued for, or asked at once.
FallBackToTab(c, o) ==
  /\ call[c].pc = "first" /\ o \in S.answers \ S.enough
  /\ S.second = "tab"
  /\ call' = Fallen(c, o, "queued")
  /\ tab' = Append(tab, c)
  /\ UNCHANGED <<source, cache, since, penalised, turns>>

FallBackToHttp(c, o) ==
  /\ call[c].pc = "first" /\ o \in S.answers \ S.enough
  /\ S.second = "http"
  /\ call' = Fallen(c, o, "second")
  /\ UNCHANGED <<source, cache, since, penalised, turns, tab>>

\* A client with retries waits for another turn after a transport fault.
Client(leg) == IF leg = "first" THEN S.first ELSE S.second

Repeat(c) ==
  /\ call[c].pc \in {"first", "second"}
  /\ Client(call[c].leg) = "http" /\ call[c].retries > 0
  /\ AskTurn(c, [call[c] EXCEPT !.retries = @ - 1, !.got = @ \cup {"fault"}], "again")
  /\ UNCHANGED <<source, cache, since, penalised, tab>>

\* Fault: the fallback's outcome always wins.
LastBetter(one, o) == o

\* Of two clients' outcomes the fallback's, unless it is of no use and the
\* first came with a status; of a client and Chrome, Chrome's.
Better(one, o) ==
  IF S.second = "http" /\ o \notin S.enough /\ one \notin {"fault", None} THEN one ELSE o

\* Fault: the lock is not released after a refusal.
SecondKeepsTab(c, o) ==
  /\ call[c].pc \in {"second", "open"} /\ o \in S.answers2
  /\ Settle(c, Better(call[c].one, o), o)
  /\ tab' = IF Kind(o) = "refusal" THEN tab ELSE RemoveFirst(tab, c)
  /\ UNCHANGED <<source, since, turns>>

\* The second client answers; a tab is closed and the lock released.
SecondEnds(c, o) ==
  /\ call[c].pc \in {"second", "open"} /\ o \in S.answers2
  /\ Settle(c, Better(call[c].one, o), o)
  /\ tab' = RemoveFirst(tab, c)
  /\ UNCHANGED <<source, since, turns>>

\* The timeout around the whole of it, queues included.
TimeOut(c) ==
  /\ call[c].pc \in {"again", "queued", "ready", "open"} /\ S.bounded
  /\ Settle(c, Better(call[c].one, "fault"), "fault")
  /\ turns' = RemoveFirst(turns, c)
  /\ tab' = RemoveFirst(tab, c)
  /\ UNCHANGED <<source, since>>

\* The client goes away at a suspension point: every queue is left.
Cancel(c) ==
  /\ call[c].pc \notin {"idle", "done"}
  /\ call' = [call EXCEPT ![c] = NoCall]
  /\ turns' = RemoveFirst(turns, c)
  /\ tab' = RemoveFirst(tab, c)
  /\ UNCHANGED <<source, cache, since, penalised>>

\* The client has its answer.
Return(c) ==
  /\ call[c].pc = "done"
  /\ call' = [call EXCEPT ![c] = NoCall]
  /\ UNCHANGED <<source, cache, since, penalised, turns, tab>>

Aged(e) == IF e.left <= 1 THEN Nothing ELSE Entry(e.body, e.left - 1)

Tick ==
  /\ since' = IF since < ErrorDelay THEN since + 1 ELSE since
  /\ cache' = [k \in Keys |-> Aged(cache[k])]
  /\ UNCHANGED <<source, penalised, turns, tab, call>>

Turn(c) == TurnToReplay(c) \/ TurnToRead(c) \/ TurnToQueue(c) \/ TurnToRepeat(c) \/ TurnToOpen(c)

Reads(c) ==
  \E o \in Outcomes : FirstEnds(c, o) \/ FallBackToTab(c, o) \/ FallBackToHttp(c, o) \/ SecondEnds(c, o)

Next ==
  \/ \E c \in Calls, k \in Keys, way \in {"plain", "fresh", "resumed"} :
       StartPaced(c, k, way) \/ StartOnHit(c, k, way) \/ StartOnMiss(c, k, way) \/ StartForTab(c, k, way)
  \/ \E c \in Calls : Turn(c) \/ OpenTab(c) \/ AskInTab(c) \/ Reads(c) \/ Repeat(c)
                        \/ TimeOut(c) \/ Cancel(c) \/ Return(c)
  \/ Tick

\* The loop runs a call that may go on, a request ends, time passes.
Fairness ==
  /\ WF_vars(Tick)
  /\ \A c \in Calls : WF_vars(Turn(c)) /\ WF_vars(OpenTab(c) \/ AskInTab(c)) /\ WF_vars(Reads(c))

Spec == Init /\ [][Next]_vars /\ Fairness

(***************************************************************************)
(* Properties                                                              *)
(***************************************************************************)

\* A client told that the source refuses was refused now, not a while ago; a
\* health check and a call that resumes a retained page are answered by the site.
AnswersCurrent ==
  \A c \in Calls :
    /\ call[c].told = "refusal" => call[c].by = "site" /\ "refusal" \in call[c].got
    /\ call[c].way # "plain" => call[c].by # "cache"

\* The pacer is told of a refusal, or of a success, by a call that has just
\* met one at the site; else only a turn taken clears the penalty.
PenaltyEarned ==
  [][/\ ~penalised /\ penalised' =>
          \E c \in Calls : /\ call[c].pc # "done" /\ call'[c].pc = "done"
                           /\ call'[c].by = "site" /\ "refusal" \in call'[c].got
     /\ penalised /\ ~penalised' =>
          \/ turns' # turns /\ since' = 0
          \/ \E c \in Calls : /\ call[c].pc # "done" /\ call'[c].pc = "done"
                              /\ call'[c].by = "site" /\ call'[c].got \cap {"content", "data"} # {}]_vars

\* A page that any client got is what the caller is answered; and between two
\* HTTP clients a refusal is not hidden by the other's missing answer.  (It is by
\* a first answer that was too long.)
BestTold ==
  \A c \in Calls : call[c].by = "site" =>
    /\ "content" \in call[c].got => call[c].told = "page"
    /\ S.second = "http" /\ "refusal" \in call[c].got /\ call[c].got \subseteq {"refusal", "fault"}
         => call[c].told = "refusal"

\* Whoever asked is answered or has gone: the queues for the turn and for the
\* tab move on whatever becomes of those in front.
CallsAnswered ==
  \A c \in Calls : call[c].pc \notin {"idle", "done"} ~> call[c].pc \in {"idle", "done"}

=============================================================================
