--------------------------- MODULE NavigationBudget ---------------------------
(***************************************************************************)
(* transport/cdp_budget.py: the process-wide budget of CDP navigations.    *)
(* A navigation takes its host's permit, then a global one, and is turned  *)
(* away while its host's refusal breaker is open.  Everything runs on one  *)
(* asyncio loop, so an action is the code between two suspension points:   *)
(* acquire() is cut where a semaphore makes it wait, and a permit handed   *)
(* to a waiter by release() is "granted" until that waiter's task resumes. *)
(*                                                                         *)
(* A member of Navs is one caller that navigates to HostOf[n] again and    *)
(* again.  The diagnostics counters `waited` and `opens` are left out.     *)
(***************************************************************************)
EXTENDS Integers, Sequences, FiniteSets, SequencesExt

CONSTANTS
  Navs,              \* callers of acquire()
  Hosts,             \* host names after lower-casing and stripping the dot
  HostOf,            \* the host each caller navigates to
  MaxConcurrent,     \* CHROME_CDP_MAX_NAVIGATIONS
  PerHost,           \* CHROME_CDP_PER_HOST_NAVIGATIONS
  BreakerThreshold,  \* CHROME_CDP_BREAKER_4XX
  BreakerCooldown,   \* CHROME_CDP_BREAKER_COOLDOWN_S
  MaxTime            \* bound on the clock, for TLC

ASSUME NavsAssumption  == IsFiniteSet(Navs) /\ HostOf \in [Navs -> Hosts]
\* __init__ clamps the bounds to at least one and the cooldown to at least zero.
ASSUME LimitsAssumption ==
  /\ MaxConcurrent \in Nat \ {0}
  /\ PerHost \in Nat \ {0}
  /\ BreakerThreshold \in Nat \ {0}
  /\ BreakerCooldown \in Nat
  /\ MaxTime \in Nat

VARIABLES
  pc,          \* where each caller stands in acquire() / its navigation
  outcome,     \* what the slot a caller holds was settled with (Slot._settled)
  hostSem,     \* _host_locks: value and ungranted waiters, oldest first
  globalSem,   \* _global, the same
  inFlight,    \* _in_flight
  peak,        \* _peak_in_flight
  refusals,    \* _HostState.refusals
  openUntil,   \* _HostState.open_until (0: not open)
  now          \* the monotonic clock

vars == <<pc, outcome, hostSem, globalSem, inFlight, peak, refusals, openUntil, now>>

\* idle: not navigating; refused: acquire() raised HostRefusingError.
Outside == {"idle", "refused"}
Outcomes == {"none", "ok", "refused", "neutral"}
PCs == Outside \union {"hostQueue", "hostGranted", "globalQueue", "globalGranted", "navigating"}

HasHostPermit   == {"hostGranted", "globalQueue", "globalGranted", "navigating"}
HasGlobalPermit == {"globalGranted", "navigating"}

HostHolders(h) == {n \in Navs : HostOf[n] = h /\ pc[n] \in HasHostPermit}
GlobalHolders  == {n \in Navs : pc[n] \in HasGlobalPermit}
Navigating     == {n \in Navs : pc[n] = "navigating"}

-----------------------------------------------------------------------------
(* asyncio.Semaphore, as acquire() and _release() use it.                   *)

Sem(value, queue) == [value |-> value, queue |-> queue]

\* release() frees one permit, or hands it straight to the oldest waiter.
Released(s) == IF s.queue = <<>> THEN Sem(s.value + 1, s.queue)
                                 ELSE Sem(s.value, Tail(s.queue))

\* A task leaving Semaphore.acquire() wakes waiters while permits remain.
Drained(s) ==
  LET k == IF s.value < Len(s.queue) THEN s.value ELSE Len(s.queue)
  IN  Sem(s.value - k, SubSeq(s.queue, k + 1, Len(s.queue)))

Plus(s)       == Sem(s.value + 1, s.queue)
Minus(s)      == Sem(s.value - 1, s.queue)
Queued(s, n)  == Sem(s.value, Append(s.queue, n))
Place(q, n)   == CHOOSE i \in 1..Len(q) : q[i] = n
Without(s, n) == Sem(s.value, RemoveAt(s.queue, Place(s.queue, n)))

\* The waiters granted a permit by a step that turns semaphore s into t.
Woken(s, t) == {s.queue[i] : i \in 1..(Len(s.queue) - Len(t.queue))}

\* Semaphore.locked(): no permit, or somebody is already in line.
HostLocked(h) ==
  \/ hostSem[h].value = 0
  \/ hostSem[h].queue # <<>>
  \/ \E m \in Navs : HostOf[m] = h /\ pc[m] = "hostGranted"

GlobalLocked ==
  \/ globalSem.value = 0
  \/ globalSem.queue # <<>>
  \/ \E m \in Navs : pc[m] = "globalGranted"

\* n moves to `to` while the waiters a step woke receive their permits.
Move(n, to, hostWoken, globalWoken) ==
  pc' = [m \in Navs |-> IF m = n THEN to
                        ELSE IF m \in hostWoken THEN "hostGranted"
                        ELSE IF m \in globalWoken THEN "globalGranted"
                        ELSE pc[m]]

-----------------------------------------------------------------------------
(* The breaker: check().                                                     *)

Refusing(h) == openUntil[h] > 0 /\ now < openUntil[h]
Elapsed(h)  == openUntil[h] > 0 /\ openUntil[h] <= now

\* check() on a host whose cooldown is over gives it a fresh chance.
ForgetIfElapsed(h) ==
  /\ refusals'  = IF Elapsed(h) THEN [refusals EXCEPT ![h] = 0] ELSE refusals
  /\ openUntil' = IF Elapsed(h) THEN [openUntil EXCEPT ![h] = 0] ELSE openUntil

-----------------------------------------------------------------------------
Init ==
  /\ pc = [n \in Navs |-> "idle"]
  /\ outcome = [n \in Navs |-> "none"]
  /\ hostSem = [h \in Hosts |-> Sem(PerHost, <<>>)]
  /\ globalSem = Sem(MaxConcurrent, <<>>)
  /\ inFlight = 0
  /\ peak = 0
  /\ refusals = [h \in Hosts |-> 0]
  /\ openUntil = [h \in Hosts |-> 0]
  /\ now = 1

\* n has both permits and its host is not refusing: the slot is handed out.
HandOut(n) ==
  /\ inFlight' = inFlight + 1
  /\ peak' = IF inFlight + 1 > peak THEN inFlight + 1 ELSE peak
  /\ outcome' = [outcome EXCEPT ![n] = "none"]

\* acquire() on an open breaker raises before any waiting.
FailFast(n) ==
  /\ pc[n] \in Outside
  /\ Refusing(HostOf[n])
  /\ Move(n, "refused", {}, {})
  /\ UNCHANGED <<outcome, hostSem, globalSem, inFlight, peak, refusals, openUntil, now>>

\* The host's slots are taken: queue for one, holding nothing.
QueueOnHost(n) ==
  LET h == HostOf[n] IN
  /\ pc[n] \in Outside
  /\ ~Refusing(h)
  /\ ForgetIfElapsed(h)
  /\ HostLocked(h)
  /\ hostSem' = [hostSem EXCEPT ![h] = Queued(@, n)]
  /\ Move(n, "hostQueue", {}, {})
  /\ UNCHANGED <<outcome, globalSem, inFlight, peak, now>>

\* The host's slot is free, the global ones are not: queue holding the host's.
QueueOnGlobal(n) ==
  LET h == HostOf[n] IN
  /\ pc[n] \in Outside
  /\ ~Refusing(h)
  /\ ForgetIfElapsed(h)
  /\ ~HostLocked(h)
  /\ GlobalLocked
  /\ hostSem' = [hostSem EXCEPT ![h] = Minus(@)]
  /\ globalSem' = Queued(globalSem, n)
  /\ Move(n, "globalQueue", {}, {})
  /\ UNCHANGED <<outcome, inFlight, peak, now>>

\* Both permits are free: acquire() returns without suspending.
AcquireAtOnce(n) ==
  LET h == HostOf[n] IN
  /\ pc[n] \in Outside
  /\ ~Refusing(h)
  /\ ForgetIfElapsed(h)
  /\ ~HostLocked(h)
  /\ ~GlobalLocked
  /\ hostSem' = [hostSem EXCEPT ![h] = Minus(@)]
  /\ globalSem' = Minus(globalSem)
  /\ HandOut(n)
  /\ Move(n, "navigating", {}, {})
  /\ UNCHANGED now

\* A granted host waiter resumes and queues for a global permit.
ResumeHostThenQueue(n) ==
  LET h == HostOf[n]
      s == Drained(hostSem[h]) IN
  /\ pc[n] = "hostGranted"
  /\ GlobalLocked
  /\ hostSem' = [hostSem EXCEPT ![h] = s]
  /\ globalSem' = Queued(globalSem, n)
  /\ Move(n, "globalQueue", Woken(hostSem[h], s), {})
  /\ UNCHANGED <<outcome, inFlight, peak, refusals, openUntil, now>>

\* ... or takes a free global permit, passes the second check and navigates,
ResumeHostThenHandOut(n) ==
  LET h == HostOf[n]
      s == Drained(hostSem[h]) IN
  /\ pc[n] = "hostGranted"
  /\ ~GlobalLocked
  /\ ~Refusing(h)
  /\ ForgetIfElapsed(h)
  /\ hostSem' = [hostSem EXCEPT ![h] = s]
  /\ globalSem' = Minus(globalSem)
  /\ HandOut(n)
  /\ Move(n, "navigating", Woken(hostSem[h], s), {})
  /\ UNCHANGED now

\* ... or fails the second check and gives both permits back.
ResumeHostThenRefuse(n) ==
  LET h == HostOf[n]
      s == Released(Drained(hostSem[h])) IN
  /\ pc[n] = "hostGranted"
  /\ ~GlobalLocked
  /\ Refusing(h)
  /\ hostSem' = [hostSem EXCEPT ![h] = s]
  /\ Move(n, "refused", Woken(hostSem[h], s), {})
  /\ UNCHANGED <<outcome, globalSem, inFlight, peak, refusals, openUntil, now>>

\* Fault: no second check after the waits.
ResumeGlobalUnchecked(n) ==
  /\ pc[n] = "globalGranted"
  /\ globalSem' = Drained(globalSem)
  /\ HandOut(n)
  /\ Move(n, "navigating", {}, Woken(globalSem, Drained(globalSem)))
  /\ UNCHANGED <<hostSem, refusals, openUntil, now>>

\* A granted global waiter resumes and passes the second check,
ResumeGlobalThenHandOut(n) ==
  LET h == HostOf[n]
      g == Drained(globalSem) IN
  /\ pc[n] = "globalGranted"
  /\ ~Refusing(h)
  /\ ForgetIfElapsed(h)
  /\ globalSem' = g
  /\ HandOut(n)
  /\ Move(n, "navigating", {}, Woken(globalSem, g))
  /\ UNCHANGED <<hostSem, now>>

\* Fault: the except clause forgets the global permit it holds.
ResumeGlobalKeepsPermit(n) ==
  LET h == HostOf[n]
      s == Released(hostSem[h]) IN
  /\ pc[n] = "globalGranted"
  /\ Refusing(h)
  /\ hostSem' = [hostSem EXCEPT ![h] = s]
  /\ globalSem' = Drained(globalSem)
  /\ Move(n, "refused", Woken(hostSem[h], s), Woken(globalSem, Drained(globalSem)))
  /\ UNCHANGED <<outcome, inFlight, peak, refusals, openUntil, now>>

\* ... or fails it: the breaker opened while this caller queued.
ResumeGlobalThenRefuse(n) ==
  LET h == HostOf[n]
      s == Released(hostSem[h])
      g == Released(Drained(globalSem)) IN
  /\ pc[n] = "globalGranted"
  /\ Refusing(h)
  /\ hostSem' = [hostSem EXCEPT ![h] = s]
  /\ globalSem' = g
  /\ Move(n, "refused", Woken(hostSem[h], s), Woken(globalSem, g))
  /\ UNCHANGED <<outcome, inFlight, peak, refusals, openUntil, now>>

-----------------------------------------------------------------------------
(* Cancellation of a caller that waits inside acquire(): the semaphore takes *)
(* back a permit that was granted but not yet picked up.                     *)

CancelHostWait(n) ==
  LET h == HostOf[n]
      before == IF pc[n] = "hostQueue" THEN Without(hostSem[h], n) ELSE Plus(hostSem[h])
      s == Drained(before) IN
  /\ pc[n] \in {"hostQueue", "hostGranted"}
  /\ hostSem' = [hostSem EXCEPT ![h] = s]
  /\ Move(n, "idle", Woken(before, s), {})
  /\ UNCHANGED <<outcome, globalSem, inFlight, peak, refusals, openUntil, now>>

\* Fault: a cancelled global wait keeps its host's permit.
CancelGlobalKeepsHost(n) ==
  LET before == IF pc[n] = "globalQueue" THEN Without(globalSem, n) ELSE Plus(globalSem)
      g == Drained(before) IN
  /\ pc[n] \in {"globalQueue", "globalGranted"}
  /\ globalSem' = g
  /\ Move(n, "idle", {}, Woken(before, g))
  /\ UNCHANGED <<outcome, hostSem, inFlight, peak, refusals, openUntil, now>>

CancelGlobalWait(n) ==
  LET h == HostOf[n]
      s == Released(hostSem[h])
      before == IF pc[n] = "globalQueue" THEN Without(globalSem, n) ELSE Plus(globalSem)
      g == Drained(before) IN
  /\ pc[n] \in {"globalQueue", "globalGranted"}
  /\ hostSem' = [hostSem EXCEPT ![h] = s]
  /\ globalSem' = g
  /\ Move(n, "idle", Woken(hostSem[h], s), Woken(before, g))
  /\ UNCHANGED <<outcome, inFlight, peak, refusals, openUntil, now>>

-----------------------------------------------------------------------------
(* The slot: one outcome at most, then release().                           *)

SettleOk(n) ==
  LET h == HostOf[n] IN
  /\ pc[n] = "navigating" /\ outcome[n] = "none"
  /\ outcome' = [outcome EXCEPT ![n] = "ok"]
  /\ refusals' = [refusals EXCEPT ![h] = 0]
  /\ openUntil' = [openUntil EXCEPT ![h] = 0]
  /\ UNCHANGED <<pc, hostSem, globalSem, inFlight, peak, now>>

SettleRefused(n) ==
  LET h == HostOf[n] IN
  /\ pc[n] = "navigating" /\ outcome[n] = "none"
  /\ outcome' = [outcome EXCEPT ![n] = "refused"]
  /\ refusals' = [refusals EXCEPT ![h] = @ + 1]
  /\ openUntil' = IF refusals[h] + 1 >= BreakerThreshold
                  THEN [openUntil EXCEPT ![h] = now + BreakerCooldown]
                  ELSE openUntil
  /\ UNCHANGED <<pc, hostSem, globalSem, inFlight, peak, now>>

\* Fault: our own host-policy rejection counts as a page that loaded.
SettleNeutralForgets(n) ==
  /\ pc[n] = "navigating" /\ outcome[n] = "none"
  /\ outcome' = [outcome EXCEPT ![n] = "neutral"]
  /\ refusals' = [refusals EXCEPT ![HostOf[n]] = 0]
  /\ openUntil' = [openUntil EXCEPT ![HostOf[n]] = 0]
  /\ UNCHANGED <<pc, hostSem, globalSem, inFlight, peak, now>>

SettleNeutral(n) ==
  /\ pc[n] = "navigating" /\ outcome[n] = "none"
  /\ outcome' = [outcome EXCEPT ![n] = "neutral"]
  /\ UNCHANGED <<pc, hostSem, globalSem, inFlight, peak, refusals, openUntil, now>>

\* release(): also what an exception or a cancellation without an outcome does.
\* The slot object is dropped, its outcome with it.
Release(n) ==
  LET h == HostOf[n]
      s == Released(hostSem[h])
      g == Released(globalSem) IN
  /\ pc[n] = "navigating"
  /\ inFlight' = IF inFlight > 0 THEN inFlight - 1 ELSE 0
  /\ hostSem' = [hostSem EXCEPT ![h] = s]
  /\ globalSem' = g
  /\ Move(n, "idle", Woken(hostSem[h], s), Woken(globalSem, g))
  /\ outcome' = [outcome EXCEPT ![n] = "none"]
  /\ UNCHANGED <<peak, refusals, openUntil, now>>

Tick ==
  /\ now < MaxTime
  /\ now' = now + 1
  /\ UNCHANGED <<pc, outcome, hostSem, globalSem, inFlight, peak, refusals, openUntil>>

Acquire(n) == FailFast(n) \/ QueueOnHost(n) \/ QueueOnGlobal(n) \/ AcquireAtOnce(n)

ResumeHost(n) ==
  ResumeHostThenQueue(n) \/ ResumeHostThenHandOut(n) \/ ResumeHostThenRefuse(n)

ResumeGlobal(n) == ResumeGlobalThenHandOut(n) \/ ResumeGlobalThenRefuse(n)

Settle(n) == SettleOk(n) \/ SettleRefused(n) \/ SettleNeutral(n)

Next ==
  \/ \E n \in Navs : \/ Acquire(n) \/ ResumeHost(n) \/ ResumeGlobal(n)
                     \/ CancelHostWait(n) \/ CancelGlobalWait(n)
                     \/ Settle(n) \/ Release(n)
  \/ Tick

Spec == Init /\ [][Next]_vars

\* The event loop resumes every granted waiter, and open_page() releases its
\* slot in a finally block after a navigation that has a timeout.
Fairness == \A n \in Navs : WF_vars(ResumeHost(n)) /\ WF_vars(ResumeGlobal(n)) /\ WF_vars(Release(n))

FairSpec == Spec /\ Fairness

-----------------------------------------------------------------------------
(* Properties.                                                              *)

Semaphores == [value : Nat, queue : Seq(Navs)]

\* The type invariant of the budget's state.
TypeOK ==
  /\ pc \in [Navs -> PCs]
  /\ outcome \in [Navs -> Outcomes]
  /\ hostSem \in [Hosts -> Semaphores]
  /\ globalSem \in Semaphores
  /\ inFlight \in Nat
  /\ peak \in Nat
  /\ refusals \in [Hosts -> Nat]
  /\ openUntil \in [Hosts -> Nat]
  /\ now \in Nat \ {0}

InLine(s)   == {s.queue[i] : i \in 1..Len(s.queue)}
OnceEach(s) == \A i, j \in 1..Len(s.queue) : s.queue[i] = s.queue[j] => i = j

\* A semaphore whose ungranted waiters are exactly `waiting`, each in line once,
\* and whose permits are either left or with `holders`.
Balanced(s, waiting, holders, permits) ==
  /\ OnceEach(s)
  /\ InLine(s) = waiting
  /\ s.value + Cardinality(holders) = permits

GlobalWaiters  == {n \in Navs : pc[n] = "globalQueue"}
HostWaiters(h) == {n \in Navs : HostOf[n] = h /\ pc[n] = "hostQueue"}

\* No permit is lost or duplicated by a grant, a cancellation at any await, a
\* second-check refusal or a release, and nobody waits in a queue that does not
\* hold it (acquire()'s except clause, release()).
PermitsBalanced ==
  /\ Balanced(globalSem, GlobalWaiters, GlobalHolders, MaxConcurrent)
  /\ \A h \in Hosts : Balanced(hostSem[h], HostWaiters(h), HostHolders(h), PerHost)

\* A breaker that is cooling down closes early only on a page that loaded:
\* neutral outcomes, cancellations and other hosts never shorten it.
OpenBreakerKept ==
  [][\A h \in Hosts : Refusing(h) =>
       \/ openUntil'[h] >= openUntil[h]
       \/ \E n \in Navigating : HostOf[n] = h /\ outcome[n] = "none" /\ outcome'[n] = "ok"]_vars

\* A caller that waits for a permit is always answered: it navigates, is turned
\* away, or is cancelled.
WaitersAnswered ==
  \A n \in Navs : pc[n] \in PCs \ (Outside \union {"navigating"}) ~> pc[n] \in Outside \union {"navigating"}

\* The promise without semaphores, queues and clock.
Admission == INSTANCE NavigationAdmission WITH
               active <- Navigating, paused <- {h \in Hosts : Refusing(h)}

\* The budget implements its promise: bounds respected, no slot for a host that
\* is refusing, however long the caller queued and whatever the breaker did
\* meanwhile, and a host paused only by one of its own navigations.
ImplementsAdmission == Admission!Spec
=============================================================================
