---------------------------- MODULE BrowserHandoff ----------------------------
(***************************************************************************)
(* transport/browser_handoff.py: browser pages that showed a challenge are *)
(* kept open for the client that owns them.  A lease is one page, its      *)
(* worker task _run() and a queue of requests; callers are tool calls in   *)
(* read_with_handoff() or snapshot_handoff().  All of them share one       *)
(* asyncio loop: an action is the code between two awaits.                 *)
(*                                                                         *)
(* Clocks count down: life is deadline - now, idle is last_used + _idle_s  *)
(* - now, wait is the worker's timeout_at in _next_request - now.  The     *)
(* worker's first step (take the first request, start open_page) is part   *)
(* of the action that creates its task: the loop runs it before any caller *)
(* that could cancel it.  Errors raised before anything changes            *)
(* (HandoffBusyError, NotFoundError) are stuttering steps.                 *)
(***************************************************************************)
EXTENDS Integers, Sequences, FiniteSets

CONSTANTS
  Callers,        \* tool calls, each usable again once nothing refers to it
  Keys,           \* (scope, operation, url, endpoint, profile)
  Leases,         \* lease objects, each usable again once nothing refers to it
  None,
  MaxLeases,      \* CHROME_CHALLENGE_HANDOFF_MAX
  Lifetime,       \* CHROME_CHALLENGE_HANDOFF_S
  Idle,           \* CHROME_CHALLENGE_HANDOFF_IDLE_S
  Stealth,        \* chrome_cdp.STEALTH: hide the windows after the last page
  CallersCancel   \* whether tool calls are cancelled

ASSUME HandoffAssumption ==
  /\ None \notin Callers \union Leases
  /\ IsFiniteSet(Callers)        \* the calls one process has in flight
  /\ MaxLeases \in Nat \ {0}
  /\ Lifetime \in Nat \ {0}
  /\ Idle \in 1..Lifetime        \* _idle_s clamps the idle bound to the lifetime
  /\ Stealth \in BOOLEAN /\ CallersCancel \in BOOLEAN

VARIABLES
  registry,   \* _leases
  lease,      \* the lease objects and their workers
  caller,     \* where each tool call stands, and the lease it talks to
  fut         \* _Request.result of each call's request

vars == <<registry, lease, caller, fut>>

\* A worker that runs holds a visibility guard; then it is hiding, then done.
Running == {"opening", "reading", "revealing", "waiting", "closing"}
Live    == {"reading", "revealing", "waiting", "closing"}   \* its tab is open

\* A call is out, awaits _stop() of an expired lease (retry), the future of its
\* request (result), the worker (task), or _stop() on its way out (stopping).

Min2(a, b) == IF a < b THEN a ELSE b

Expired(l) == lease[l].life = 0 \/ lease[l].idle = 0

Registered == {k \in Keys : registry[k] # None}

\* A request object is still in some queue or being served.
Referenced(c) == \E l \in Leases : lease[l].cur = c \/ \E i \in 1..Len(lease[l].queue) : lease[l].queue[i] = c

\* No running worker, registry entry or other call than c refers to l.
Unused(l, c) ==
  /\ lease[l].pc = "done"
  /\ \A k \in Keys : registry[k] # l
  /\ \A d \in Callers \ {c} : caller[d].pc # "out" => caller[d].lease # l

\* No worker: never used, or nobody reads its fields any more.
NoLease == [key |-> None, pc |-> "done", cur |-> None, queue |-> <<>>, busy |-> FALSE,
            cleaning |-> FALSE, cancel |-> FALSE, cancelled |-> FALSE,
            life |-> 0, idle |-> 0, wait |-> 0]

\* The object a new lease of call c gets: which one does not matter.
FreshLease(c) == CHOOSE l \in Leases : Unused(l, c)

\* Bound: a lease is created once one of the Leases is free.
HasFresh(c) == \E l \in Leases : Unused(l, c)

NoCall == [pc |-> "out", kind |-> "read", key |-> None, lease |-> None]

Init ==
  /\ registry = [k \in Keys |-> None]
  /\ lease = [l \in Leases |-> NoLease]
  /\ caller = [c \in Callers |-> NoCall]
  /\ fut = [c \in Callers |-> "none"]

-----------------------------------------------------------------------------
(* _stop(): ask the worker to end unless it is ending already, then wait.   *)

Stopped(l) ==
  IF lease[l].cleaning \/ lease[l].cancel \/ lease[l].pc = "done" THEN lease[l]
                                          ELSE [lease[l] EXCEPT !.cancel = TRUE]

\* _stop()'s finally clause once the task is done: forget that lease only, and
\* cancel what is still queued on it.
ForgetDone(l) ==
  IF lease[l].pc = "done" THEN [k \in Keys |-> IF registry[k] = l THEN None ELSE registry[k]]
                          ELSE registry

-----------------------------------------------------------------------------
(* read_with_handoff().                                                      *)

\* A new lease l for key k with c's request in hand: _run() is opening the page.
NewLease(k, c) ==
  [NoLease EXCEPT !.key = k, !.pc = "opening", !.cur = c, !.busy = TRUE,
                  !.life = Lifetime, !.idle = Idle]

CallAwaiting(kind, k, l) ==
  [pc |-> "result", kind |-> kind, key |-> k, lease |-> l]

\* No lease for the operation: create one, unless the registry is full.
ReadNew(c, k) ==
  LET l == FreshLease(c) IN
  /\ caller[c].pc = "out" /\ ~Referenced(c)
  /\ registry[k] = None
  /\ Cardinality(Registered) < MaxLeases
  /\ HasFresh(c)
  /\ registry' = [registry EXCEPT ![k] = l]
  /\ lease' = [lease EXCEPT ![l] = NewLease(k, c)]
  /\ caller' = [caller EXCEPT ![c] = CallAwaiting("read", k, l)]
  /\ fut' = [fut EXCEPT ![c] = "pending"]

\* A retained page that is neither busy nor expired: queue the request on it.
ReadResume(c, k) ==
  LET l == registry[k] IN
  /\ caller[c].pc = "out" /\ ~Referenced(c)
  /\ l # None
  /\ ~lease[l].busy
  /\ ~Expired(l)
  /\ lease' = [lease EXCEPT ![l].busy = TRUE, ![l].queue = Append(@, c)]
  /\ caller' = [caller EXCEPT ![c] = CallAwaiting("read", k, l)]
  /\ fut' = [fut EXCEPT ![c] = "pending"]
  /\ UNCHANGED registry

\* An expired one: mark it busy and wait until its worker is gone.
ReadExpired(c, k) ==
  LET l == registry[k] IN
  /\ caller[c].pc = "out" /\ ~Referenced(c)
  /\ l # None
  /\ ~lease[l].busy
  /\ Expired(l)
  /\ lease' = [lease EXCEPT ![l] = [Stopped(l) EXCEPT !.busy = TRUE]]
  /\ caller' = [caller EXCEPT ![c] = [pc |-> "retry", kind |-> "read", key |-> k, lease |-> l]]
  /\ fut' = [fut EXCEPT ![c] = "none"]
  /\ UNCHANGED registry

\* Fault: the capacity is not checked again after the wait.
ReplaceUnbounded(c, reg) ==
  LET k == caller[c].key
      l == FreshLease(c) IN
  /\ HasFresh(c)
  /\ registry' = [reg EXCEPT ![k] = l]
  /\ lease' = [lease EXCEPT ![l] = NewLease(k, c)]
  /\ caller' = [caller EXCEPT ![c] = CallAwaiting("read", k, l)]
  /\ fut' = [fut EXCEPT ![c] = "pending"]

\* What follows `await _stop(lease)`: a new lease is put under the key, whatever
\* the registry holds there by now, unless the registry is full.
Replace(c, reg) ==
  LET k == caller[c].key
      l == FreshLease(c) IN
  IF Cardinality({j \in Keys : reg[j] # None}) >= MaxLeases
  THEN /\ registry' = reg
       /\ caller' = [caller EXCEPT ![c] = NoCall]
       /\ UNCHANGED <<lease, fut>>
  ELSE /\ HasFresh(c)
       /\ registry' = [reg EXCEPT ![k] = l]
       /\ lease' = [lease EXCEPT ![l] = NewLease(k, c)]
       /\ caller' = [caller EXCEPT ![c] = CallAwaiting("read", k, l)]
       /\ fut' = [fut EXCEPT ![c] = "pending"]

RetryStopped(c) ==
  /\ caller[c].pc = "retry"
  /\ lease[caller[c].lease].pc = "done"
  /\ Replace(c, ForgetDone(caller[c].lease))

\* The call is cancelled while it waits there: _stop() swallows the
\* CancelledError and the call goes on, the tab of the old page still closing.
\* By then the loop has delivered the cancellation _stop() sent to a waiting
\* worker.
RetryCancelled(c) ==
  /\ CallersCancel
  /\ caller[c].pc = "retry"
  /\ lease[caller[c].lease].cancel => lease[caller[c].lease].pc # "waiting"
  /\ Replace(c, ForgetDone(caller[c].lease))

\* Fault: a snapshot does not look at the busy flag.
SnapshotOfBusy(c, k) ==
  LET l == registry[k] IN
  /\ caller[c].pc = "out" /\ ~Referenced(c)
  /\ l # None
  /\ ~lease[l].cleaning /\ ~Expired(l)
  /\ lease' = [lease EXCEPT ![l].busy = TRUE, ![l].idle = Idle, ![l].queue = Append(@, c)]
  /\ caller' = [caller EXCEPT ![c] = CallAwaiting("snapshot", k, l)]
  /\ fut' = [fut EXCEPT ![c] = "pending"]
  /\ UNCHANGED registry

\* snapshot_handoff() with the handle of a registered lease.
Snapshot(c, k) ==
  LET l == registry[k] IN
  /\ caller[c].pc = "out" /\ ~Referenced(c)
  /\ l # None
  /\ ~lease[l].cleaning /\ ~Expired(l)
  /\ ~lease[l].busy
  /\ lease' = [lease EXCEPT ![l].busy = TRUE, ![l].idle = Idle, ![l].queue = Append(@, c)]
  /\ caller' = [caller EXCEPT ![c] = CallAwaiting("snapshot", k, l)]
  /\ fut' = [fut EXCEPT ![c] = "pending"]
  /\ UNCHANGED registry

\* The future is answered: a challenge and a snapshot are returned at once, data
\* waits for the worker to close the page, an exception stops the worker.
ResultArrives(c) ==
  LET l == caller[c].lease IN
  /\ caller[c].pc = "result"
  /\ fut[c] # "pending"
  /\ \/ /\ fut[c] = "challenge" \/ (fut[c] = "data" /\ caller[c].kind = "snapshot")
        /\ caller' = [caller EXCEPT ![c] = NoCall]
        /\ fut' = [fut EXCEPT ![c] = "none"]
        /\ UNCHANGED lease
     \/ /\ fut[c] = "data" /\ caller[c].kind = "read"
        /\ caller' = [caller EXCEPT ![c].pc = "task"]
        /\ UNCHANGED <<lease, fut>>
     \/ /\ fut[c] \in {"error", "cancelled"}
        /\ caller' = [caller EXCEPT ![c].pc = "stopping"]
        /\ lease' = [lease EXCEPT ![l] = Stopped(l)]
        /\ UNCHANGED fut
  /\ UNCHANGED registry

TaskEnds(c) ==
  /\ caller[c].pc = "task"
  /\ lease[caller[c].lease].pc = "done"
  /\ caller' = [caller EXCEPT ![c] = NoCall]
  /\ fut' = [fut EXCEPT ![c] = "none"]
  /\ UNCHANGED <<registry, lease>>

\* The call is cancelled while it waits for its answer: the shielded worker is
\* stopped on its behalf.
CallCancelled(c) ==
  LET l == caller[c].lease IN
  /\ CallersCancel
  /\ caller[c].pc \in {"result", "task"}
  /\ lease' = [lease EXCEPT ![l] = Stopped(l)]
  /\ caller' = [caller EXCEPT ![c].pc = "stopping"]
  /\ UNCHANGED <<registry, fut>>

StopEnds(c) ==
  /\ caller[c].pc = "stopping"
  /\ lease[caller[c].lease].pc = "done"
  /\ registry' = ForgetDone(caller[c].lease)
  /\ caller' = [caller EXCEPT ![c] = NoCall]
  /\ fut' = [fut EXCEPT ![c] = "none"]
  /\ UNCHANGED lease

\* A second cancellation interrupts the wait, never the worker's cleanup.
StopCancelled(c) ==
  /\ CallersCancel
  /\ caller[c].pc = "stopping"
  /\ registry' = ForgetDone(caller[c].lease)
  /\ caller' = [caller EXCEPT ![c] = NoCall]
  /\ UNCHANGED <<lease, fut>>

-----------------------------------------------------------------------------
(* _run(): the worker of lease l.  A requested cancellation is thrown at its *)
(* next step, so the other steps need ~cancel.                              *)

PageOpens(l) ==
  /\ lease[l].pc = "opening" /\ ~lease[l].cancel
  /\ lease' = [lease EXCEPT ![l].pc = "reading"]
  /\ UNCHANGED <<registry, caller, fut>>

\* The read found data: answer, leave the loop, close the page.
ReadFinds(l) ==
  LET c == lease[l].cur IN
  /\ lease[l].pc = "reading" /\ ~lease[l].cancel
  /\ caller[c].kind = "read"
  /\ fut' = [fut EXCEPT ![c] = "data"]
  /\ lease' = [lease EXCEPT ![l].pc = "closing", ![l].cleaning = TRUE]
  /\ UNCHANGED <<registry, caller>>

\* The read found a challenge: bring the page to the front ...
ReadBlocked(l) ==
  /\ lease[l].pc = "reading" /\ ~lease[l].cancel
  /\ caller[lease[l].cur].kind = "read"
  /\ lease' = [lease EXCEPT ![l].pc = "revealing"]
  /\ UNCHANGED <<registry, caller, fut>>

\* Fault: an answer extends the lifetime.
AnswerExtendsLife(l, answer) ==
  /\ fut' = [fut EXCEPT ![lease[l].cur] = answer]
  /\ lease' = [lease EXCEPT ![l].pc = "waiting", ![l].busy = FALSE, ![l].cur = None,
                            ![l].life = Lifetime, ![l].idle = Idle, ![l].wait = Idle]
  /\ UNCHANGED <<registry, caller>>

\* The worker publishes its answer, refreshes the idle clock and waits for the
\* next request until the earlier of the two deadlines.
AnswerAndWait(l, answer) ==
  /\ fut' = [fut EXCEPT ![lease[l].cur] = answer]
  /\ lease' = [lease EXCEPT ![l].pc = "waiting", ![l].busy = FALSE, ![l].cur = None,
                            ![l].idle = Idle, ![l].wait = Min2(lease[l].life, Idle)]
  /\ UNCHANGED <<registry, caller>>

\* ... then tell the caller and retain it.
PageRevealed(l) ==
  /\ lease[l].pc = "revealing" /\ ~lease[l].cancel
  /\ AnswerAndWait(l, "challenge")

SnapshotTaken(l) ==
  /\ lease[l].pc = "reading" /\ ~lease[l].cancel
  /\ caller[lease[l].cur].kind = "snapshot"
  /\ AnswerAndWait(l, "data")

NextRequest(l) ==
  /\ lease[l].pc = "waiting" /\ ~lease[l].cancel
  /\ lease[l].queue # <<>>
  /\ lease' = [lease EXCEPT ![l].pc = "reading", ![l].cur = Head(lease[l].queue),
                            ![l].queue = Tail(@), ![l].wait = 0]
  /\ UNCHANGED <<registry, caller, fut>>

\* The page is left: cleaning is set before the tab's close is awaited.
Closing(l, cancelled) ==
  /\ lease' = [lease EXCEPT ![l].pc = "closing", ![l].cancelled = cancelled, ![l].cleaning = TRUE]
  /\ UNCHANGED <<registry, caller, fut>>

\* Host policy, a broken page, a failing extractor.
ReadFails(l) ==
  /\ lease[l].pc \in {"reading", "revealing"} /\ ~lease[l].cancel
  /\ Closing(l, FALSE)

\* timeout_at(deadline), or the wait's own timeout.
TimesOut(l) ==
  /\ ~lease[l].cancel
  /\ \/ lease[l].pc \in {"reading", "revealing"} /\ lease[l].life = 0
     \/ lease[l].pc = "waiting" /\ lease[l].wait = 0
  /\ Closing(l, FALSE)

CancelArrives(l) ==
  /\ lease[l].pc \in {"reading", "revealing", "waiting"} /\ lease[l].cancel
  /\ Closing(l, TRUE)

\* Fault: the queued requests are not settled.
LeaveRunForgetsQueue(l, cancelled) ==
  LET answer == IF cancelled THEN "cancelled" ELSE "error"
      others == {m \in Leases \ {l} : lease[m].pc \in Running} IN
  /\ fut' = [c \in Callers |-> IF c = lease[l].cur /\ fut[c] = "pending" THEN answer ELSE fut[c]]
  /\ registry' = [k \in Keys |-> IF registry[k] = l THEN None ELSE registry[k]]
  /\ lease' = [lease EXCEPT ![l] = IF Stealth /\ others = {} THEN [NoLease EXCEPT !.pc = "hiding", !.cleaning = TRUE]
                                                            ELSE NoLease]
  /\ UNCHANGED caller

\* After the page: settle the current request if it is open, drop the registry
\* entry if it is still this lease, settle everybody queued, then hide windows
\* when no other page needs them.
LeaveRun(l, cancelled) ==
  LET answer == IF cancelled THEN "cancelled" ELSE "error"
      waitedFor == {lease[l].cur} \union {lease[l].queue[i] : i \in 1..Len(lease[l].queue)}
      others == {m \in Leases \ {l} : lease[m].pc \in Running} IN
  /\ fut' = [c \in Callers |-> IF c \in waitedFor /\ fut[c] = "pending" THEN answer ELSE fut[c]]
  /\ registry' = [k \in Keys |-> IF registry[k] = l THEN None ELSE registry[k]]
  /\ lease' = [lease EXCEPT ![l] = IF Stealth /\ others = {} THEN [NoLease EXCEPT !.pc = "hiding", !.cleaning = TRUE]
                                                            ELSE NoLease]
  /\ UNCHANGED caller

TabClosed(l) ==
  /\ lease[l].pc = "closing"
  /\ LeaveRun(l, lease[l].cancelled)

\* open_page() never yielded a page.
OpenFails(l) ==
  /\ lease[l].pc = "opening" /\ ~lease[l].cancel
  /\ LeaveRun(l, FALSE)

OpenTimesOut(l) ==
  /\ lease[l].pc = "opening" /\ ~lease[l].cancel /\ lease[l].life = 0
  /\ LeaveRun(l, FALSE)

OpenCancelled(l) ==
  /\ lease[l].pc = "opening" /\ lease[l].cancel
  /\ LeaveRun(l, TRUE)

WindowsHidden(l) ==
  /\ lease[l].pc = "hiding"
  /\ lease' = [lease EXCEPT ![l] = NoLease]
  /\ UNCHANGED <<registry, caller, fut>>

-----------------------------------------------------------------------------
\* close_handoffs(): every registered lease is asked to stop.
CloseHandoffs ==
  /\ Registered # {}
  /\ lease' = [l \in Leases |-> IF \E k \in Keys : registry[k] = l THEN Stopped(l) ELSE lease[l]]
  /\ UNCHANGED <<registry, caller, fut>>

Down(n) == IF n = 0 THEN 0 ELSE n - 1

Tick ==
  /\ \E l \in Leases : lease[l].life > 0 \/ lease[l].idle > 0 \/ lease[l].wait > 0
  /\ lease' = [l \in Leases |-> [lease[l] EXCEPT !.life = Down(@), !.idle = Down(@), !.wait = Down(@)]]
  /\ UNCHANGED <<registry, caller, fut>>

CallerStep(c) ==
  ResultArrives(c) \/ TaskEnds(c) \/ StopEnds(c) \/ RetryStopped(c)

Call(c) ==
  \E k \in Keys : ReadNew(c, k) \/ ReadResume(c, k) \/ ReadExpired(c, k) \/ Snapshot(c, k)

Cancellation(c) ==
  CallCancelled(c) \/ StopCancelled(c) \/ RetryCancelled(c)

PageStep(l) ==
  PageOpens(l) \/ ReadFinds(l) \/ ReadBlocked(l) \/ PageRevealed(l) \/ SnapshotTaken(l) \/ ReadFails(l)

\* The steps of the worker that timers, the loop and bounded cleanup guarantee.
EndingStep(l) ==
  TimesOut(l) \/ CancelArrives(l) \/ TabClosed(l) \/ OpenTimesOut(l) \/ OpenCancelled(l) \/ WindowsHidden(l)

Next ==
  \/ \E c \in Callers : Call(c) \/ CallerStep(c) \/ Cancellation(c)
  \/ \E l \in Leases : PageStep(l) \/ NextRequest(l) \/ EndingStep(l) \/ OpenFails(l)
  \/ CloseHandoffs
  \/ Tick

Spec == Init /\ [][Next]_vars

\* Pages may hang for ever; timers, cancellation and cleanup do not, and the
\* loop resumes every call whose future or task is done.
Fairness ==
  /\ WF_vars(Tick)
  /\ \A l \in Leases : WF_vars(EndingStep(l)) /\ WF_vars(NextRequest(l))
  /\ \A c \in Callers : WF_vars(CallerStep(c))

FairSpec == Spec /\ Fairness

-----------------------------------------------------------------------------
(* Properties.                                                              *)

Places(c) ==
  {l \in Leases : lease[l].cur = c}
    \union {p \in Leases \X (1..Cardinality(Callers)) :
              p[2] <= Len(lease[p[1]].queue) /\ lease[p[1]].queue[p[2]] = c}

\* A future that is still open is held exactly once, as the request in service
\* or in the queue of one worker that is still running: _run() never drops a
\* request on any of its exits and never answers one twice.  And a page has at
\* most one request at any time, reads and snapshots together: what the busy
\* flag is for.
OneRequestPerPage ==
  \A l \in Leases : Len(lease[l].queue) + (IF lease[l].cur = None THEN 0 ELSE 1) <= 1

RequestsAccounted ==
  /\ OneRequestPerPage
  /\ \A c \in Callers : fut[c] = "pending" =>
       /\ Cardinality(Places(c)) = 1
       /\ \E l \in Leases : /\ lease[l].pc \in Running
                            /\ lease[l].cur = c \/ \E i \in 1..Len(lease[l].queue) : lease[l].queue[i] = c

\* The registry lists a lease under its own key, and only while its worker runs,
\* so that no retry is attached to a page whose worker will never serve it; and
\* CHROME_CHALLENGE_HANDOFF_MAX bounds it, replaced leases included.
RegistrySound ==
  /\ \A k \in Registered : lease[registry[k]].key = k /\ lease[registry[k]].pc \in Running
  /\ Cardinality(Registered) <= MaxLeases

\* "A concurrent retry must not open a duplicate" (read_with_handoff): an
\* operation never has two pages open.  The code breaks it: after its wait in
\* _stop() a retry does not look at the registry again.
OnePagePerOperation ==
  \A l, m \in Leases : l # m /\ lease[l].key = lease[m].key => ~(lease[l].pc \in Live /\ lease[m].pc \in Live)

\* Every tool call returns, whatever the page does: its request is answered,
\* fails, or is ended with the lifetime of the page.
CallsReturn == \A c \in Callers : caller[c].pc # "out" ~> caller[c].pc = "out"

\* Every page is closed in the end: retries never extend its lifetime.
PagesClose == \A l \in Leases : lease[l].pc \in Running ~> lease[l].pc \notin Running
=============================================================================
