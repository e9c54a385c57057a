# A formal model of ru-marketplace-mcp

The repository is a set of read-only MCP servers for Russian and Chinese
marketplaces. Sixteen connector packages share one runtime, `mcp-core`; a
connector reads its site over plain HTTP, over an impersonated TLS client, or in
a Chrome the operator has signed in to. This directory holds TLA+ modules of the
parts where several tool calls, timers and failures meet, the TLC runs that check
them on small instances, and TLAPS proofs of what matters most for every
instance.

    tlc -workers 2 -config HttpTier.cfg HttpTier.tla     # a run: PROJECT.json names the module of each .cfg
    tlapm HttpTierProofs.tla                             # a proof

Everything runs on one asyncio loop per process, so in every module **an action
is the code between two suspension points** (`await`, `async with`, `yield`), and
a task may be cancelled at each of them. What another thread, another process,
Chrome, a site or the operator does is an action of its own.

## 1. Inventory

`core` stands for `packages/mcp-core/src/mcp_core`.

### Shared runtime

| Component | State | Operations | Who meets there | What makes it correct |
| --- | --- | --- | --- | --- |
| Navigation budget, `core/transport/cdp_budget.py` | two levels of `asyncio.Semaphore`, in-flight counters, a refusal breaker per host | `acquire`, `Slot.ok/refused/neutral`, `check`, release | every browser read of the process | no permit lost or doubled under cancellation; no slot while the host's breaker is open; every waiter is answered |
| Chrome transport, `core/transport/chrome_cdp.py` | autostart lock and failure memory, tabs, the main document of each page | `get_browser`, `_ensure_cdp_running`, `open_page`, raw CDP page | calls, other processes, Chrome itself | one start at a time, a failed start paid once per queue, no foreign tab driven or closed, no tab left behind, no page yielded unjudged, permits returned |
| Browser handoff, `core/transport/browser_handoff.py` | registry of leases, one worker task per retained page, a queue and two clocks each | `read_with_handoff`, `snapshot_handoff`, `_run`, `_stop`, `close_handoffs` | a tool call, its retry, a snapshot, shutdown | every request is answered once, one page per operation, the registry bound, pages close |
| Pacer, `core/pacing.py` | last request time, penalty flag, refusal count, a lock | `wait`, `record_success`, `record_refusal` | the concurrent calls of one source | gap kept, penalty served, no lost lock |
| TTL cache, `core/cache.py` | ordered map with expiry, one lock | `get`, `set`, `invalidate`, `get_or_fetch` | the concurrent calls of one source | bounded, least recently used evicted, one fetch per page, nothing but content kept |
| HTTP tier, `core/transport/http_tier.py` | limiter clock and lock, attempts and deadline of a call | `RateLimiter.wait`, `get_text_with_retries`, `get_text_budgeted` | concurrent GETs of one connector | gap kept, deadline kept, only transient failures retried, the answer is one that was given |
| Process helpers, `core/process.py` | child processes | spawn flags, `terminate_process_tree` | a worker and its parent's timeout | no child outlives its timeout |
| Errors, `core/errors.py` | none | nine codes, the retryable ones, challenge errors | connectors, compare | a code's retryability is right |
| Kit, `core/kit.py` | none | `polite_wait`, `sync_curl_get`, query building | connectors | body cap, redaction |
| Shaping, `core/resilience.py` | none | coercions, money and count parsing, `validate_*`, `shape_*`, `selfcheck` | every connector's parser | no digit string read as a larger number, no offer kept without what the schema asks |
| Runtime, `core/runtime.py` | lifespan, bearer auth, client scope | `run_server`, `browser_handoff_lifespan`, `current_client_scope` | the MCP client | retained pages closed on shutdown, no handoff shared between clients |
| Sources and selection, `core/sources.py`, `core/source_selection.py` | static catalogue, the mounted set | `select_sources` | marketplace, compare | only installed, requested sources are mounted |
| Models, output schemas, resources, redaction, logging, DOM helpers | none | data and text | all | out of scope: no state, wording |

### Connectors

A connector's `server.py` is a FastMCP server: tools validate their arguments,
call a `_fetch`-like pipeline, parse, shape, and map failures to error codes. The
pipelines combine the shared parts in the same few ways:

| Source | Pipeline | State of its own |
| --- | --- | --- |
| yandex | cache `get_or_fetch` over the HTTP tier; the parser drops the entry when the page was a wall | cache, limiter |
| detmir | cache `get_or_fetch` over the HTTP tier, status to error | cache, limiter |
| wb | cache get / set around a budgeted GET, an impersonated tier with one fallback, a DOM transport over Chrome | cache, pacer, CDN host table |
| ozon | cache get / set, a worker process with a timeout, then Chrome | cache, pacer, worker process |
| avito, cian, lamoda, megamarket, dns, citilink, drom | cache get / set, an impersonated GET in a thread, then Chrome (some only one of the two) | cache, pacer, a lock around Chrome |
| taobao, aliexpress | Chrome only, retained pages for challenges; aliexpress owns popups | cache, pacer |
| mpstats | one authenticated API with its own budgeted GET | cache, pacer |
| compare | calls the other connectors' searches in parallel, each under its own timeout, dedupes, ranks; verifies one offer; matches two identities | none between calls |
| marketplace | mounts the others into one server; install and setup write it into a client's configuration file | the mounted set; the client's file and its backups |

`scripts/`, `docs/`, `skills/`, `dsh/`, `examples/` and `work/` are tooling,
prose and captured pages, and have no state of the running system.

### How they interact

A tool call asks its pacer or limiter for its turn, its cache for the page, the
HTTP tier or `read_with_handoff` for the body. `read_with_handoff` keeps a page
when the site shows a challenge, else it is `open_page`; `open_page` takes a slot
of the navigation budget, brings Chrome up if nobody has, and attaches. Refusals
come back as errors: they settle the slot as refused (which opens the breaker),
penalise the pacer, and are never cached. Everything a call holds (a permit, a
lock, a tab, a lease, a place in a queue) it may have to give back because it is
cancelled, and FastMCP cancels a call whenever its client goes away.

What a tool then tells its agent is the other interface: an error code the agent
acts on, `_meta.healthy`, the verdicts of a selfcheck. `compare` reads exactly
these of the searches it calls, so a source that is silently wrong makes a
comparison that is silently wrong.

### What is hard here

Cancellation at any await with something in hand; state read before an await and
used after it (the penalty, the registry, a page's URL, the budget's breaker);
fair locks whose waiters disappear; timers that race the answers they guard;
Chrome dying, or being started by someone else, at any moment; a page that
answers twice, late or never; caches filled and dropped around an await; partial
failure of a fan-out; tabs of other clients that look like one's own; a worker
process that is anywhere when its timeout strikes; an operator's file rewritten
by several at once; and the many ways out of some fifty tools, each of which must
say the right thing. `PROJECT.json` lists them line by line.

## 2. The modules

### NavigationBudget (`cdp_budget.py`)

`hostSem`, `globalSem` are the two levels of semaphores with CPython 3.12's
algorithm: `release` hands its permit to the oldest waiter, which is *granted*
until its task resumes, and a cancelled waiter that was granted one passes it on.
`pc` is where a caller stands in `acquire()`; `outcome` is how it settled its
slot; `refusals`, `openUntil`, `now` are the breaker. `Acquire`, `ResumeHost`,
`ResumeGlobal`, the cancellations and `Release` are `acquire()` and `_release()`
cut at their awaits. `reset()` (tests only) and the diagnostics counters are left
out.

**NavigationAdmission** is the abstract promise: a set of navigating callers,
never more than the two limits, none admitted while its host is paused. Run
`budget` checks that NavigationBudget implements it (`ImplementsAdmission`).
`open_page` takes it as given: what it asks before a call begins (`Admitted`) are
the abstract bounds. That none of its other steps disturbs them is a theorem
(`PagesUseAdmission`) and not a property of a run, where two calls never meet one.

*Run `budget`*: four callers, three of them on one host, two permits on each
level, a breaker of two refusals, three clock values. Both semaphores have
queues at once, the breaker opens while callers queue, and grants are cancelled.
`PermitsBalanced` (permits = free + held, each waiter queued once);
`ImplementsAdmission`, which also says that the breaker is looked at again after
the waits, so that nobody gets a slot on a host that is refusing;
`OpenBreakerKept`: a breaker that is cooling down closes early only on a page that
loaded; `WaitersAnswered`: under weak fairness of resuming tasks and of
navigations ending, everybody in `acquire()` gets a slot or a refusal.

### BrowserHandoff (`browser_handoff.py`)

`registry` is `_leases`, `lease` a `_Lease` with the place of its `_run()` worker
in `pc`, `caller` a `read_with_handoff()` or `snapshot_handoff()`, `fut` the
future of its request. Clocks count down: `life` (the handoff duration), `idle`,
`wait` (a worker's `wait_for`). The page's own behaviour is nondeterministic: it
opens, fails, hangs, shows a challenge or data. Lease objects are reused once
nobody refers to them, a bound (`HasFresh`). The code path without handoff is
`open_page` alone and is modelled there.

*Run `handoff`*: two calls, two operations, room for one retained page, so that a
retry of an expired page competes with the other operation for its slot; all
interleavings of calls, cancellations, worker steps, both clocks and shutdown.
`RequestsAccounted` (an open future is held by exactly one running worker, and a
page has at most one request), `RegistrySound` (a registered lease is under its own
key and its worker runs; the registry keeps its bound); `CallsReturn` and `PagesClose` under weak fairness of the clock, of the steps
that end a worker, and of the loop resuming calls — none on the page, which may
hang for ever.

*Findings.* `handoff_duplicate`: after `await _stop(lease)` a retry does not look
at the registry again, so one operation can have two live pages. Not a finding of
a run: `_stop()` swallows its caller's cancellation, and the cancelled retry goes on and
takes the slot of a worker still cleaning up (browser_handoff.py:350). And a
read that arrives between a stop request and the worker's cancellation is queued
and then answered with `CancelledError` although nobody cancelled it; and the
read path, unlike the snapshot path, does not look at `cleaning`.

### CdpAutostart and OpenPage (`chrome_cdp.py`)

CdpAutostart is how a call comes to a running Chrome: probe, take
`_AUTOSTART_LOCK`, probe again, honour the memory of a recent failure, spawn in a
thread, wait for the port, one grace probe. Chrome can be started by others and
die at any time; `loopback` (the configured address) is chosen initially. The
failure memory does not run out while the lock is free and somebody waits for it:
the loop resumes that waiter long before 45 s pass. `burnt` is a ghost.

OpenPage extends it with `open_page()`: permit, attach with Playwright or, on its
timeout, raw CDP, create a tab, navigate, judge the document, give the permit
back, yield, close. Permits are those NavigationAdmission promises, their queues
are NavigationBudget's. A tab is named after the call that asked for it.

*Run `page`*: two calls, one host, Chrome and the page free to do anything.
`OneAttempt` (one spawn at a time), `FailurePaidOnce` (those who queued behind a
failed start do not each pay its timeout), `NoTabLeft`
(a call that ended left no tab it knew of), `PagesKept` (a call drives and closes
only its own tab), `YieldsJudged` (no page is yielded whose document was not
judged after it last changed, as far as the call was told), `BreakerEarned` (a
host is paused only by a refusal that stood: a 403 that reloads into the page, a
timeout or cancellation behind it and a page off policy are not counted, nor is
anything once the permit is given back), `PermitsReturn` (every wait before the
yield is bounded). `MaxConcurrent` and `PerHost` do not bind with two calls; run
`budget` covers them.

*Finding* `page_policy`: over raw CDP `page.url` is the URL of the last event
read, and nothing is read during the settle sleep, so a page that navigates away
while it settles is yielded although its host is off policy.

Two windows are in the model and have no property: a tab whose `createTarget` is
never answered cannot be closed (its id is unknown), and a call cancelled while
it closes a refused tab loses the refusal. Not modelled in this file: the raw
protocol's matching of answers to requests, screenshots, window visibility,
`open_tabs()`, `probe_session()`, start-up flags.

### Pacer (`pacing.py`)

`since` counts from `_last_request_at`, `left` is what remains of a sleep, the
lock is a holder and a queue. A call fixes its gap (with the penalty and some
jitter) before it asks for the lock, exactly as `wait()` does.

*Run `guards`*: MCPacerCache runs Pacer and TTLCache under one specification, of
which an execution exercises one (`part`): they share no state. Of the pacer: three
calls, gaps 0 and 2, a penalty of 3 with jitter 1, so that gaps and penalties
overlap. `GapKept` (two requests are a gap apart, and a call that saw the penalty
waits it out), `CallsAnswered`. *Finding* `pacer_refusal`: a call that queued before a refusal
keeps its short gap, sends right after it, and clears the penalty for everyone.

### TTLCache (`cache.py`)

`data` is the `OrderedDict`, oldest use first, with ages; `get_or_fetch` is cut at
the lock and at the fetch. The fetch is the Yandex connector's: store, parse, and
drop the page when it was a wall, with no await between. *Run `guards`*: three
calls, three pages, room for two, a lifetime of two ticks. `SingleFlight` (of the
calls that miss a page one goes upstream), `CacheKept` (whenever another call can
look, what is kept is content, within the bound, each page once, and the one
evicted is the one used longest ago, against a ghost order of use),
`CallsAnswered` (nobody waits for a lock that is never given back).

### HttpTier (`transport/http_tier.py`)

`call[c]` is one GET: the attempt it is at, the pause before the next one, the
rest of its deadline, whether a gateway status is kept (`last_result`), and two
ghosts, what its attempts came to (`seen`) and how it ended (`answer`). Calls in
`Budgeted` run `get_text_budgeted()`, the others `get_text_with_retries()`; both
go through one `RateLimiter`. The loop may be late with every timer.

*Run `http`*: two plain GETs and one with a deadline of 3, two retries, pauses of
1 and 2, a gap of 2: the deadline runs out in an attempt, in a backoff, in the
limiter's queue and in its sleep. `GapKept` (whatever is cancelled or times out
in the limiter), `DeadlineKept`, `AnswerIsReal` (the answer is one an attempt got; a transport error is raised
only if none was answered), `CallsReturn` (a call with a deadline does not depend
on the server; the others on httpx's own timeouts). That nothing but transport
faults and gateway statuses is retried, never a 429, is a theorem only.

### SourceReads (the connectors' `server.py`)

A tool call finds its page in the cache, or waits for the source's turn, reads
with one client, falls back to another or to Chrome under `_cdp_lock`, stores the
page, tells the pacer and answers. The connectors put the same steps in different
orders and judge a body differently, so the module has one set of actions and a
`Profile` per source: where `polite_wait()` stands, which clients in which order,
which outcomes end the read, are stored, are told the pacer, and are pages or
refusals for the client. A profile is read off the connector's pipeline line by
line. `source` is chosen initially, so a run covers every source in `Sources`.

The pacer is a queue `turns` with the time `since` the last turn, `tab` is the
queue for `_cdp_lock`; Pacer, HttpTier and OpenPage have what happens inside.
Bodies are one of a dozen outcomes, from `content` to a refusal with status 200
that has the shape of data (`soft`). The ghosts of a call are what its reads
amounted to (`got`) and what it was told, by the site or by the cache.

*Run `reads`*: two calls on one page, a gap of 1 and of 2 after a refusal, a
lifetime of 2, one retry, the fourteen profiles other
than avito's. `AnswersCurrent` (a refusal told is one this call met; what must not come from the cache does not), `BestTold`
(the better of two clients' answers is told; a refusal is not hidden by the other
client's missing answer - only by a first client's body over the cap, which keeps
its status and so counts as more than a refusal, `overlong`), `PenaltyEarned` (the pacer's penalty is set and cleared
by what was met at the site, never by a replayed page), `CallsAnswered` (both
queues move on after timeouts and cancellations). Two calls are a holder and a
waiter at each queue and a writer and a reader of the page; another key would
only add pages that do not meet.

*Finding* `reads_block`: avito stores a JSON challenge that came with status 200
before it is recognised as one, and replays it, each time as a new refusal to the
pacer, until the entry expires. Surprising but not contradicted by the
repository: cian takes its turn before it queues for the tab, so calls that
waited for the tab navigate back to back; Wildberries' second client makes its
first attempt without a turn; `aliexpress_search` stores a page again when it was
found in the cache, so a page in demand never expires, and `aliexpress_card`
stores a page before it is validated; drom takes any page Chrome reads with
status 200 for a page of the shop.

### ToolSteps, the tables, and SourceTools (every tool of every connector)

SourceReads is how a page is had. What a tool makes of it is here. A tool is a
sequence of steps, a step the set of its branches: what the step may meet (one of
fifteen facts, from `fine` to `lost`), and what the code then does: go on, skip,
warn in `_meta`, tell the pacer, end in an error code, record a verdict. The tables
**ClassifiedTools** (avito, drom, cian), **RetailTools** (dns, citilink, lamoda,
detmir, megamarket), **AsiaTools** (taobao, aliexpress, mpstats), **MarketTools**
(ozon, yandex) and **WildberriesTools** write the tools of the repository this
way, named as in the code, from its early returns, `except` clauses, warnings and
`record_*` calls in their order. **ToolSteps** has the words they are written in,
among them what selfchecks share (`Canary`, `Probe`, `ProbeAfter`). **SourceTools**
is the client that calls them one after the other. What a fact is made of (which
selector was missing) is abstracted; which branch it takes is not.

*Run `agent`, part `tools`* takes every path of every tool:

* `HealthTrue` (`attach_meta()`): an answer called healthy met nothing doubtful;
* `CodeFits` (`errors.py`): every error has a cause of its kind, so that a wall is
  not told as a change of the page nor an outage as a missing item;
* `PacerToldTrue` (`record_refusal()`): the pacer hears of a refusal only from a
  call that met one, of a success only from one that was given something;
* `VerdictEarned`: drift and health are judged only over a baseline that was
  reached, afresh, and the report of a selfcheck is what its checks say.

Four constants name the tools a clause does not hold of. They are what the code
does, listed for its maintainers, and the properties hold of all the others:

| Constant | Tools | Why |
| --- | --- | --- |
| `Silent` | `drom_search`, `drom_seller`, `drom_card_photos`, `megamarket_search`, `detmir_categories`, `ozon_reviews`, `wb_search` | they can answer healthy, or with no `_meta` at all, over a part that was lost or odd: a page of drom without rows and without a count is an empty answer, its seller's name falls back to an id and the feedbacks are left out, a page without photos it can find is an answer; megamarket goes on without the category's hints; categories without an alias are not remarked; reviews whose later page was refused tell it in `stop_reason` and `last_error`, not to `attach_meta()` (resilience.py:727-745); Wildberries answers an empty list after its new search drifted |
| `Hasty` | `cian_selfcheck`, `megamarket_selfcheck` | cian counts every kind of page but an offer's as drift of its card, a refusal and a removed offer too; megamarket calls a search healthy though the reads before it were refused |
| `Blind` | `lamoda_selfcheck` | it asks whether `"ParserDrift"` is in the name of the exception's type (lamoda server, 657-737); the exception is a ToolError, so a drifted card is inconclusive |
| `Stale` | ten selfchecks | they read through the cache; `_fresh_get_text()` of Wildberries says "a health signal has to describe the present" (wb server, 514-524), but its own check of rendered pages (2557-2656) reads the cache too |

### Compare (`compare_connector/server.py`)

`request` is what `compare_prices()` was asked, `calls` its `_run_source()` calls,
`answer` the response, `checked` what the last `compare_verify_offer()` or
`compare_product_identity()` came to. A row of a search is an id and a variant, a
price of a kind, the stock and whether it is apt. Sources answer, fail or time out
(`SourceAnswers`, `SourceFails`, `SourceTimesOut`) in any order; `Finish` is the
merge, `CompareResponse`: `_dedupe`, ranking, `cheapest`, `complete`, warnings. It is
said of places, which are a source's place in the request and an offer's place in
its list: `dedupe` is the set of those that repeat no earlier one (`Repeats`: source,
id and variant), and `ranked` puts the offers at a set of places in the order
`Outranks`, each after as many as outrank it. That is the stable `sorted()` of the
code without a fold, so that it can be proved about. **CompareInstance** has seven
kinds of sources between them: conditional prices, variants, yuan, unknown stock,
rows without an id, a price of zero, a source not installed and one not selected.

A verification may insist on a variant, which only Yandex Market accepts and whose
card is refused when it is of another.

*Run `agent`, part `compare`*: `CheapestReal`, `NothingLost`, `CompleteTrue`,
`VerifiedTrue` (with `IdentityTrue`) against reference definitions over what was
listed, `ComparisonsEnd`. The parts compose by assume-guarantee: a source may be
healthy over a doubt in a comparison only if its search is in `Silent` above, the
same constant. `Excused` are those sources, of which `CompleteTrue` does not speak.

*Finding* `compare_complete` (MCCompare, with Wildberries no longer excused): an
empty Wildberries answer after a drifted search carries no `_meta`, `_run_source()`
calls the source ok, and the comparison is reported complete.

### ItemPopups (aliexpress, `_cdp_card()`)

The call opens its item in a new tab from a landing page of a Chrome it shares
with the operator and other processes. `tab` is what each tab shows, `before` the
tabs there were when it began to listen, `owned` those whose opener is the landing
page, `toAsk` those whose opener is not known yet, `round` the looks for the tab.
Tabs appear, turn into other pages and close at any moment, and the call is
cancelled at each of its awaits, in its cleanup too.

*Part `tabs`*: a popup, a promotion the landing page opens, a tab of someone
else, one look. `TabsSettled`: only a tab this landing page opened since the call
listens is read or closed, and when the lock is given back the call's own tab is
closed or its close was tried. What is excluded is the code's: a popup that
arrives after the cleanup looked, or shows another item when it arrives
(`strange`), is left open.

### SyncWorker (ozon `_sync_call_in_process()`, `process.py`)

A thread spawns a process for one blocking GET, waits under a timeout, kills the
tree, and takes the answer from a temporary file; the worker is anywhere when the
timeout strikes, and may die by itself. *Part `worker`*: `WorkerSettled`: no torn
answer is told, and a call that ended left neither process nor file, unless the
system would not spawn or kill (`spared`). These exceptions are real: a failing
`Popen` leaves the temporary file; `taskkill` that exits non-zero is not degraded to
`proc.kill()` although `process.py` says "Every failure mode degrades to
proc.kill()"; and a worker that survived writes the removed file again.

### DisplayNumbers (`resilience.py`)

`coerce_price()`, `coerce_count()` and `coerce_int()` on texts of up to five symbols:
runs of one or two, three, or more digits, separators, signs, currencies,
multipliers and words: `Labels` are those that `_COUNT_LABEL_RE` strips from a count,
`Decoys` those of `DECOY_MARKERS`, and only one ("otzyv...") is both. What is read is a number: where in the text the groups of its whole part
stand, and its decimal tail; the digits and their order are the text's. *Part
`numbers`* reads every such text. `NumbersRight`: what shops write is read as the
number it is, whatever is read has all the digits of the text in the groups of one
number, and a delta, a rounded sum, a range or a sum whose word is in
`DECOY_MARKERS` is never read as a price.

Two things the code does that `NumbersRight` does not speak of. `coerce_int()` reads
"1 999 2 999" as 19992999, where the other two refuse. And a word that is not in
`DECOY_MARKERS` is passed over, a count's label included: `coerce_price()` reads
"24 reviews" and "24 оценки" as 24.0, and refuses "24 отзыва". The comment over the
list (resilience.py:298-301) says that it covers ratings; no word of it does.

### ClientConfig (`marketplace_connector/cli.py`)

`install --write` and `setup` merge one entry into the configuration file of an
MCP client, which the client rewrites too. `config` is the file, `backups` what
`_backup_path()` named, `second` the clock it names them by, `install` where each
process is in `_write_client_config()`: profile, conflict, dry run, backup, draft,
replace, with every failure and a kill between any two.

*Part `config`*: two installs, any entry, one change by the client meanwhile, two
seconds. `ConfigKept`: the rest of the file stays as the install read it, an entry
is replaced only by `--force`, nothing is replaced before a whole copy of it is
there, and a copy is never lost. Beyond it, and real: two installs that both ask
for a name before either has copied get the same one, and the later copy
overwrites the earlier (`clash`; the docstring's "keep every backup" holds of
installs one after the other); what the client writes between the copy and
`os.replace()` is lost without a backup; half a temporary file stays when
`json.dump()` fails, since its name is noted after it is written.

### MCAgent

Puts tools, comparisons, the three steps and the installs side by side; `part`
is chosen initially, since they share no state: six models in one run, each
complete. The assumptions of the proofs below are checked there on the instance
(`StepsAssumption`, `CompareAssumption`).

## 3. Bounds and fairness

Time is counted in ticks and every deadline is a small count-down or a capped
clock (`MaxTime`, `Far`, `Lifetime`, `Idle`, `ReadyWait`, `FailureTTL`, `TTL`,
`MinGap`, `ErrorDelay`, `Budget`, `MaxSecond`): two or three ticks suffice to have a
timer due before, with and after each event it races. Two or three calls suffice
for a holder, a waiter and a newcomer at each lock; four for two levels of queues.
Counters that only matter against a threshold are capped there. Calls begin again
after they end, so histories are unbounded although states are not; only installs
happen once each (`Over`), with `MaxChanges` changes by others.

The tables are finite and taken whole: no bound cuts a path of a tool. A
comparison asks at most three sources at a time, two of them racing in every order;
each lists up to two rows, enough for a duplicate, a tie and a conditional price
below an everyday one. `Rounds` is 1 where the code looks twenty times: every look
is the same, and its proof is for any number. `MaxText` of 5 holds two grouped
numbers, or one with a sign, a tail and a word. The proof is for texts of
any length.

Fairness is always weak and only on what the process itself guarantees: the loop
runs a task that is ready, a timer fires, a thread or a subprocess call with a
timeout ends, a request with an httpx timeout ends, the code of a `finally` runs.
Nothing is assumed of a page, a site, Chrome, a client or the operator, except in
`budget`, where a navigation ends (`open_page` bounds every await in it, which
`PermitsReturn` checks), and in `reads`, where a read ends (each is under the
client's or the tab's timeout). Comparisons end by their own timers alone. No run
needs strong fairness: the locks are fair queues.

Deadlock is checked except in the `handoff` runs, where a process that has shut
down with no lease object free may really have nothing to do.

## 4. What is proved

Every safety property and every refinement the passing runs check is a theorem:
for any number of calls, hosts, permits, leases, pages, tabs, installs, tools or
rows, texts of any length and any timing, from
the named assumptions on the constants only. TLC evaluates these on the instances.
Each proof has an inductive invariant, which TLC checked on the instance before it
was proved.

* **NavigationBudgetProofs**: `TypeCorrect`, `PermitsAlwaysBalanced`,
  `OpenBreakerAlwaysKept`, `BudgetImplementsAdmission`. `PermitsBalanced` is
  inductive with `TypeOK`. The work is in the semaphores: each operator
  (`Released`, `Drained`, `Queued`, `Without`...) is proved once to keep `Good`,
  which says that the queue is exactly the waiting callers, each once, and that
  free permits and holders add up; each action then names the callers it moves.
  With that every step is one of NavigationAdmission or leaves its state alone:
  balance gives the two limits, the second look at the breaker gives the rest.
* **BrowserHandoffProofs**: `RequestsAlwaysAccounted`, `RegistryAlwaysSound`. The
  invariant says where a request can be: with the worker that serves it or in its
  queue, never twice, and only while that worker runs; and what each place of a
  worker implies of its queue, its stop request and its registry entry. It needs
  finitely many callers, as the code has.
* **OpenPageProofs** (of CdpAutostart too): `OneAttemptAlways`,
  `FailureAlwaysPaidOnce`, `NoTabEverLeft`, `PagesAlwaysKept`,
  `YieldsAlwaysJudged`, `BreakerAlwaysEarned`, `PagesUseAdmission`. The invariant joins the lock (its
  holder is the one caller in an attempt, its queue those that wait, each once),
  the memory of a failure (a caller it burnt finds it, since it does not run out
  while somebody waits), the tabs (a tab that is open has been asked for by a call
  that has not left) and the permits (a call with a refusal to report is on its way
  out, still holds its permit, and has seen that refusal last).
* **TTLCacheProofs**, and **GuardProofs** about the run's specification:
  `CacheSound`, `OneFlight`, `OldestEvicted`; `TypeCorrect`, `GapAlwaysKept`,
  `SingleFlightAlways`, `CacheAlwaysKept`. For the cache: the keys of `data` are in
  the order of the ghost `recent`, each once; the one caller that fetches holds the
  lock, and what it has stored and not yet judged is its own. For the pacer: a
  sleeper holds the lock, what is left of its sleep covers what is left of its
  gap, and the pacer's clock is the time since a request was sent. A cache has
  room for at least one page (`CacheAssumption`).
* **HttpTierProofs**: `TypeCorrect`, `NothingElseRetried`, `AnswersAreReal`,
  `GapAlwaysKept`, `DeadlineAlwaysKept`. The invariant adds to the types that a
  call's record is `Sound` (the kept status is among the outcomes seen, a backoff
  is shorter than the rest of the budget) and the same facts about the limiter.
  One lemma per way a record changes (it moves, passes, locks, enters, ends)
  keeps the invariant; the actions cite them.
* **SourceReadsProofs**: `TypeCorrect`, `BestAlwaysTold`, `AnswersAlwaysCurrent`,
  `PenaltyAlwaysEarned`. A first lemma says what the fifteen profiles have in
  common (`Sensible`); nothing else of them is used, so a new connector that keeps
  to it is covered. The invariant: what is cached is what the connector keeps, and
  a call not yet answered has met faults and what its first client came to, which
  was not a page. Avito is excluded by hypothesis where the finding `reads_block`
  refutes the property; `BestAlwaysTold` holds of it too.
* **AgentProofs**, about the run's specification, one part after the other:
  * the tools, for *any* table: `TypeCorrect`, `HealthTrueEverywhere`,
    `CodeFitsEverywhere`, `VerdictsEarned`, `PacerToldTrueEverywhere`,
    `ReportsEarned`. Each says which rule on the branches of a tool is enough for
    the whole call: a tool that warns wherever it goes on over a doubt (`Outspoken`) is
    never healthy over one; one whose branches name what they met, or are come to
    only over a cause (`Precise`), never ends in a code without a cause; one that
    judges by what it met (`Judicious`), or not at all (`NoJudge`), earns its
    verdicts; one that tells the pacer only of what its branch met (`Candid`) never
    tells it anything else. `ToolsAlwaysTrue` puts them together for a table that
    is `TableSound`, branch by branch. The repository's table is: TLC finds
    `ASSUME TableSound` true in a module that extends AgentProofs, with the
    constants of `Agent.cfg`. So what the tools meet, in whatever order, makes no
    difference to these four properties;
  * `TabsAlwaysSettled`, if the three kinds of tabs are apart (`TabsApart`): what is
    owned, targeted or tried was opened by the landing page since the call
    listens, and from the cleanup's look on the popup is among those to close, was
    tried, is strange or is not there;
  * `WorkerAlwaysSettled`, if what the function returns differs from the words for
    the absence of an answer (`ResultsDistinct`): once the thread has stopped
    waiting the worker is dead or was spared, and a file that is read holds what a
    worker that ended well wrote;
  * `ConfigAlwaysKept`: what an install read or saved is what it then writes from,
    its copy is whole from the copy to the end, and no two that hold a name hold
    the same unless they clashed. That `_backup_path()` finds a free name among
    finitely many is a lemma of its own;
  * comparisons, for any requests, sources and rows. `CompareInv`: a settled call is
    of its source, has one offer for each row the source gave (`Fits`) and is honest
    (ok only if whole, warned of or excused), and the answer is what
    `CompareResponse` makes of the calls. `CompleteAlwaysTrue`: the answer's
    `complete` and `warned` are made of these. `CheapestAlwaysReal`,
    `NothingEverLost` and `AnswersAlwaysRanked` rest on one lemma about finite sets,
    `CountingNumbers`: where an order is total, to count what comes before an
    element numbers the elements from 0, one to one and onto. `Outranks` is such an
    order (`OutranksOrders`), so the answer has each place of `dedupe` once and in
    that order (`RankedOrders`); hence the first is the least, and as many answers
    have an id as places do. That a listing told of at all has a first telling,
    which `dedupe` keeps, is the well-foundedness of the order of places
    (`FirstTelling`). `VerifiedAlwaysTrue`, over the cases of
    `match_product_identity()`. They take `CompareAssumption`: sources that may be
    silent are excused, an identity has all its fields, a request names its sources
    in order, prices are numbers, the sources are the eleven of `_SEARCH_IMPLS`, and
    only Wildberries and Yandex tell a conditional price from an everyday one (what
    the other nine list is taken at its price, having no kind);
  * `NumbersAlwaysRight`, for a text of any length, from nothing but that it is a
    sequence of symbols (`TextInv`). Runs have a first and a last (`FirstAndLast`); a
    text written as shops write a number begins with its first run, ends with its
    last run and a sign, and has no other tail (`PriceOfWritten`); and for what is
    read, a sign with only spaces between it and the digits would have been met by
    `Before` or `After` (`NothingBetween`).

Only model-checked: liveness (`WaitersAnswered`, `CallsReturn`, `PagesClose`,
`PermitsReturn`, `CallsAnswered`, `ComparisonsEnd`), since fairness is about ENABLED,
out of the prover's reach.

## 5. Plan

What is left, the most consequential first.

1. **Raw CDP**: matching of answers to requests, events during an evaluation.
2. **Compare**: the vision policy, `compare_sources()` and the decision server.
3. **Chrome's windows** and `unblock`: who shows and hides the window when several
   retained pages want it.

## 6. Not modelled, and why

Schemas, guide texts, redaction, logging, DOM scripts and the shapes of payloads
transform data and keep no state; so do ratings and the trimming of text. Mounting
happens once, in order, before the server listens; `doctor`, `sources`, `status` and
the printed plugin rows only read. Authentication, lifespan and process start flags
are configuration; the one step of shutdown that meets others is BrowserHandoff's.
Wildberries' table of image hosts is a cache of names that a wrong entry costs one
probe. The scripts, docs, skills and examples are no part of the running system.
FastMCP, httpx, curl_cffi, Playwright, asyncio and the operating system are modelled
as the code uses them (`external` in the map).
