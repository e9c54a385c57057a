------------------------------- MODULE TTLCache -------------------------------
(***************************************************************************)
(* cache.py with the calls that use it as the Yandex connector does: look  *)
(* the page up, fetch it under the cache's lock on a miss, parse it, drop  *)
(* it again when it was no content (get_or_fetch(), _fetch_parsed()).      *)
(*                                                                         *)
(* data is the OrderedDict, least recently used first; left is expires_at  *)
(* - now.  All calls share one loop: an action runs from one await to the  *)
(* next, so parsing and dropping belong to the step that ends the fetch.   *)
(***************************************************************************)
EXTENDS Integers, SequencesExt

CONSTANTS
  Callers, Keys, None,
  Pages,        \* what upstream may answer
  Content,      \* the pages _is_usable_page() accepts
  TTL,          \* ttl_s; 0 disables the cache
  MaxEntries    \* max_entries

CacheAssumption ==
  /\ None \notin Callers \union Keys
  /\ Content \subseteq Pages
  /\ TTL \in Nat
  /\ MaxEntries \in Nat \ {0}

VARIABLES
  data,     \* _data
  holder,   \* who holds _lock, while it fetches
  queue,    \* who waits for it
  caller,   \* where each call stands, and the page it wants
  recent    \* ghost: the keys in the order they were last served or stored

vars == <<data, holder, queue, caller, recent>>

Entries == [key : Keys, page : Pages, left : 0..TTL]
NoCall == [pc |-> "idle", key |-> None]

Init ==
  /\ data = <<>>
  /\ holder = None
  /\ queue = <<>>
  /\ caller = [c \in Callers |-> NoCall]
  /\ recent = <<>>

Enabled == TTL > 0

Holds(d, k) == \E i \in 1..Len(d) : d[i].key = k
Live(d, k)  == \E i \in 1..Len(d) : d[i].key = k /\ d[i].left > 0
At(d, k)    == CHOOSE i \in 1..Len(d) : d[i].key = k

\* `del _data[key]`, invalidate(): the key is gone, if it was there.
Dropped(d, k) == IF Holds(d, k) THEN RemoveAt(d, At(d, k)) ELSE d

\* Fault: a hit does not count as a use.
LookedQuietly(d, k) == IF Live(d, k) THEN d ELSE Dropped(d, k)

\* get(): a live entry becomes the most recent, an expired one is deleted.
Looked(d, k) == IF Live(d, k) THEN Append(Dropped(d, k), d[At(d, k)]) ELSE Dropped(d, k)

\* Fault: room is made before the entry is stored, not after.
StoredLoosely(d, k, p) ==
  LET e == Dropped(d, k) IN
  Append(IF Len(e) > MaxEntries THEN Tail(e) ELSE e, [key |-> k, page |-> p, left |-> TTL])

\* set(): store as the most recent and evict from the other end.
Stored(d, k, p) ==
  LET e == Append(Dropped(d, k), [key |-> k, page |-> p, left |-> TTL]) IN
  IF Len(e) > MaxEntries THEN Tail(e) ELSE e

Used(k) == Append(RemoveFirst(recent, k), k)

LockFree == holder = None /\ queue = <<>>

-----------------------------------------------------------------------------

\* The page is in the cache: served, and content as when it was stored.
Hit(c, k) ==
  /\ caller[c].pc = "idle"
  /\ Enabled /\ Live(data, k)
  /\ data' = Looked(data, k)
  /\ recent' = Used(k)
  /\ UNCHANGED <<holder, queue, caller>>

\* A miss with the lock free goes on to fetch ...
MissAndFetch(c, k) ==
  /\ caller[c].pc = "idle"
  /\ ~(Enabled /\ Live(data, k))
  /\ LockFree
  /\ data' = Looked(data, k)
  /\ holder' = c
  /\ caller' = [caller EXCEPT ![c] = [pc |-> "fetching", key |-> k]]
  /\ UNCHANGED <<queue, recent>>

\* ... else it queues for the lock.
MissAndQueue(c, k) ==
  /\ caller[c].pc = "idle"
  /\ ~(Enabled /\ Live(data, k))
  /\ ~LockFree
  /\ data' = Looked(data, k)
  /\ queue' = Append(queue, c)
  /\ caller' = [caller EXCEPT ![c] = [pc |-> "queued", key |-> k]]
  /\ UNCHANGED <<holder, recent>>

\* With the lock a call looks again: somebody may have fetched the page.
TurnHit(c) ==
  /\ holder = None /\ queue # <<>> /\ c = Head(queue)
  /\ Enabled /\ Live(data, caller[c].key)
  /\ data' = Looked(data, caller[c].key)
  /\ queue' = Tail(queue)
  /\ caller' = [caller EXCEPT ![c] = NoCall]
  /\ recent' = Used(caller[c].key)
  /\ UNCHANGED holder

\* Fault: it does not look again.
TurnMissUnchecked(c) ==
  /\ holder = None /\ queue # <<>> /\ c = Head(queue)
  /\ data' = Looked(data, caller[c].key)
  /\ queue' = Tail(queue)
  /\ holder' = c
  /\ caller' = [caller EXCEPT ![c].pc = "fetching"]
  /\ UNCHANGED recent

TurnMiss(c) ==
  /\ holder = None /\ queue # <<>> /\ c = Head(queue)
  /\ ~(Enabled /\ Live(data, caller[c].key))
  /\ data' = Looked(data, caller[c].key)
  /\ queue' = Tail(queue)
  /\ holder' = c
  /\ caller' = [caller EXCEPT ![c].pc = "fetching"]
  /\ UNCHANGED recent

\* Fault: whatever was fetched is kept.
FetchedUnparsed(c, p) ==
  LET k == caller[c].key IN
  /\ caller[c].pc = "fetching"
  /\ data' = IF Enabled THEN Stored(data, k, p) ELSE data
  /\ holder' = None
  /\ caller' = [caller EXCEPT ![c] = NoCall]
  /\ recent' = IF Enabled THEN Used(k) ELSE recent
  /\ UNCHANGED queue

\* The page arrives: store it, give the lock back, parse, and drop it if it is
\* no content.
Fetched(c, p) ==
  LET k == caller[c].key
      stored == IF Enabled THEN Stored(data, k, p) ELSE data IN
  /\ caller[c].pc = "fetching"
  /\ data' = IF p \in Content THEN stored ELSE Dropped(stored, k)
  /\ holder' = None
  /\ caller' = [caller EXCEPT ![c] = NoCall]
  /\ recent' = IF Enabled /\ p \in Content THEN Used(k) ELSE recent
  /\ UNCHANGED queue

\* Fault: the lock is not given back.
FetchEndsLocked(c) ==
  /\ caller[c].pc = "fetching"
  /\ caller' = [caller EXCEPT ![c] = NoCall]
  /\ UNCHANGED <<data, holder, queue, recent>>

\* The factory raises, or the call is cancelled in it.
FetchEnds(c) ==
  /\ caller[c].pc = "fetching"
  /\ holder' = None
  /\ caller' = [caller EXCEPT ![c] = NoCall]
  /\ UNCHANGED <<data, queue, recent>>

\* Cancelled in the queue.
QueueLeft(c) ==
  /\ caller[c].pc = "queued"
  /\ queue' = RemoveFirst(queue, c)
  /\ caller' = [caller EXCEPT ![c] = NoCall]
  /\ UNCHANGED <<data, holder, recent>>

Tick ==
  /\ \E i \in 1..Len(data) : data[i].left > 0
  /\ data' = [i \in 1..Len(data) |-> [data[i] EXCEPT !.left = IF @ = 0 THEN 0 ELSE @ - 1]]
  /\ UNCHANGED <<holder, queue, caller, recent>>

FetchDone(c) == FetchEnds(c) \/ \E p \in Pages : Fetched(c, p)

Next ==
  \/ \E c \in Callers, k \in Keys : Hit(c, k) \/ MissAndFetch(c, k) \/ MissAndQueue(c, k)
  \/ \E c \in Callers : TurnHit(c) \/ TurnMiss(c) \/ FetchDone(c) \/ QueueLeft(c)
  \/ Tick

Spec == Init /\ [][Next]_vars

\* The loop resumes whoever has the lock, a fetch has a timeout.
Fairness == \A c \in Callers : WF_vars(TurnHit(c) \/ TurnMiss(c)) /\ WF_vars(FetchDone(c))

FairSpec == Spec /\ Fairness

-----------------------------------------------------------------------------
(* Properties.                                                              *)

\* The cache, its lock and the calls are well formed: the cache is bounded and
\* holds a key once, so that dropping a key drops it.
TypeOK ==
  /\ data \in Seq(Entries) /\ Len(data) <= MaxEntries
  /\ \A i, j \in 1..Len(data) : data[i].key = data[j].key => i = j
  /\ holder \in Callers \union {None}
  /\ queue \in Seq(Callers)
  /\ caller \in [Callers -> [pc : {"idle", "queued", "fetching"}, key : Keys \union {None}]]

\* Only content is ever in the cache while another call can look: "keep unusable
\* pages out of the cache" (_fetch_parsed), although it stores before it parses.
ContentOnly == \A i \in 1..Len(data) : data[i].page \in Content

Starts(c) == caller[c].pc # "fetching" /\ caller'[c].pc = "fetching"

\* "Collapses concurrent misses into one upstream call" (get_or_fetch): no call
\* goes upstream while another does, nor for a page that is in the cache by then.
SingleFlight ==
  [][\A c \in Callers : Starts(c) =>
       /\ \A d \in Callers : caller[d].pc # "fetching"
       /\ ~Live(data, caller'[c].key)]_vars

Rank(k) == CHOOSE i \in 1..Len(recent) : recent[i] = k

\* A live entry is only ever pushed out of a full cache, and then it is the one
\* whose last use is the longest ago.
EvictsLeastRecent ==
  [][\A k \in Keys : Live(data, k) /\ ~Holds(data', k) =>
       /\ Len(data) = MaxEntries
       /\ \A i \in 1..Len(data) : Rank(k) <= Rank(data[i].key)]_vars

\* Every call that queues is answered when fetches end.
CallsAnswered == \A c \in Callers : caller[c].pc # "idle" ~> caller[c].pc = "idle"
=============================================================================
