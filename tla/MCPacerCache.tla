----------------------------- MODULE MCPacerCache -----------------------------
(***************************************************************************)
(* The two guards a connector puts before its source, side by side: part   *)
(* is the one an execution exercises.  They share no state, and so no      *)
(* execution needs both.                                                   *)
(***************************************************************************)
EXTENDS Pacer

CONSTANTS Keys, Pages, Content, TTL, MaxEntries

VARIABLES part, data, fetcher, line, reader, recent

C == INSTANCE TTLCache WITH holder <- fetcher, queue <- line, caller <- reader

ASSUME CacheAssumed == C!CacheAssumption

kept == <<data, fetcher, line, reader, recent>>

GuardInit == part \in {"pacer", "cache"} /\ Init /\ C!Init

GuardNext ==
  \/ part = "pacer" /\ Next /\ UNCHANGED <<part, kept>>
  \/ part = "cache" /\ C!Next /\ UNCHANGED <<part, vars>>

GuardSpec == GuardInit /\ [][GuardNext]_<<part, vars, kept>> /\ Fairness /\ C!Fairness

\* "Collapses concurrent misses into one upstream call" (get_or_fetch).
SingleFlight == C!SingleFlight

\* "Keep unusable pages out of the cache" (_fetch_parsed): while another call can
\* look, all it finds is content, each page once and no more than max_entries;
\* and a live page is pushed out only of a full cache, the one used longest ago.
CacheKept == [](C!TypeOK /\ C!ContentOnly) /\ C!EvictsLeastRecent

\* Nobody waits for a lock that is never given back: a call in wait() sends or is
\* cancelled, and a call that queues for the cache is answered.
CallsAnswered == WaitersSend /\ C!CallsAnswered
=============================================================================
