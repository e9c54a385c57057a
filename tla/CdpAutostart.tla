----------------------------- MODULE CdpAutostart -----------------------------
(***************************************************************************)
(* How the calls of one connector process come to a running Chrome         *)
(* (transport/chrome_cdp.py: get_browser() up to its attach,               *)
(* _ensure_cdp_running()).  A call that finds the port closed takes        *)
(* _AUTOSTART_LOCK, looks again, and starts Chrome unless an attempt       *)
(* failed lately.  Chrome is shared: other processes, the operator and     *)
(* `browser start` may start it, and it may die at any time.               *)
(*                                                                         *)
(* An action runs from one await to the next.  Both deadlines count down.  *)
(***************************************************************************)
EXTENDS Integers, SequencesExt

CONSTANTS
  Callers, None,
  ReadyWait,    \* the timeout of _wait_for_cdp_port()
  FailureTTL    \* _AUTOSTART_FAILURE_TTL_S

ASSUME AutostartAssumption ==
  /\ None \notin Callers
  /\ ReadyWait \in Nat
  /\ FailureTTL \in Nat \ {0}

VARIABLES
  loopback,   \* CDP_IS_LOOPBACK, as configured
  port,       \* something listens on the CDP port
  launched,   \* a Chrome process exists, it may bind the port later
  holder,     \* who holds _AUTOSTART_LOCK
  queue,      \* who waits for it
  failure,    \* _autostart_failure: ticks it is still remembered, 0 when it is not
  left,       \* ticks until the readiness wait gives up
  pc,         \* where each call stands
  burnt       \* ghost: the queued calls that sat through a failed attempt, since the
              \* last success

chrome == <<loopback, port, launched>>
memory == <<failure, left>>
autostartVars == <<loopback, port, launched, holder, queue, failure, left, pc, burnt>>

Attempting == {"spawning", "binding", "grace"}

AutostartInit ==
  /\ loopback \in BOOLEAN
  /\ port \in BOOLEAN /\ launched = port
  /\ holder = None /\ queue = <<>>
  /\ failure = 0 /\ left = 0
  /\ pc = [c \in Callers |-> "idle"]
  /\ burnt = {}

LockFree == holder = None /\ queue = <<>>

\* The call goes on to attach to Chrome, or ends with an error.
Proceeds(c) == pc' = [pc EXCEPT ![c] = "connect"]
Fails(c)    == pc' = [pc EXCEPT ![c] = "idle"]

-----------------------------------------------------------------------------

\* get_browser(): the port answers, the lock and the memory are left alone.
FastPath(c) ==
  /\ pc[c] = "idle" /\ port
  /\ Proceeds(c)
  /\ UNCHANGED <<chrome, holder, queue, memory, burnt>>

AskAndQueue(c) ==
  /\ pc[c] = "idle" /\ ~port /\ ~LockFree
  /\ pc' = [pc EXCEPT ![c] = "queued"]
  /\ queue' = Append(queue, c)
  /\ UNCHANGED <<chrome, holder, memory, burnt>>

\* The lock is free, or its turn has come.
GetsLock(c) ==
  \/ /\ pc[c] = "idle" /\ ~port /\ LockFree
     /\ UNCHANGED queue
  \/ /\ holder = None /\ queue # <<>> /\ c = Head(queue)
     /\ queue' = Tail(queue)

\* Chrome is there by now: it came up while the call queued, or between the two
\* probes of one that did not.
AlreadyRunning(c) ==
  /\ GetsLock(c)
  /\ pc[c] = "queued" => port
  /\ port' = TRUE
  /\ launched' = TRUE
  /\ failure' = 0 /\ burnt' = {}
  /\ Proceeds(c)
  /\ UNCHANGED <<loopback, holder, left>>

Remote(c) ==
  /\ GetsLock(c)
  /\ ~port /\ ~loopback
  /\ burnt' = burnt \ {c}
  /\ Fails(c)
  /\ UNCHANGED <<chrome, holder, memory>>

Remembered(c) ==
  /\ GetsLock(c)
  /\ ~port /\ loopback /\ failure > 0
  /\ burnt' = burnt \ {c}
  /\ Fails(c)
  /\ UNCHANGED <<chrome, holder, memory>>

\* Fault: the memory is read before the lock, when the call arrives.
SpawnsUnreminded(c) ==
  /\ GetsLock(c)
  /\ ~port /\ loopback /\ (failure = 0 \/ pc[c] = "queued")
  /\ holder' = c /\ burnt' = burnt \ {c}
  /\ pc' = [pc EXCEPT ![c] = "spawning"]
  /\ UNCHANGED <<chrome, memory>>

Spawns(c) ==
  /\ GetsLock(c)
  /\ ~port /\ loopback /\ failure = 0
  /\ holder' = c /\ burnt' = burnt \ {c}
  /\ pc' = [pc EXCEPT ![c] = "spawning"]
  /\ UNCHANGED <<chrome, memory>>

Queued == {c \in Callers : pc[c] = "queued"}

\* The attempt failed: remembered, and the next in the queue gets the lock.
AttemptFails(c) ==
  /\ failure' = FailureTTL
  /\ holder' = None
  /\ burnt' = Queued
  /\ Fails(c)
  /\ left' = 0
  /\ UNCHANGED <<chrome, queue>>

SpawnFails(c) ==
  /\ pc[c] = "spawning"
  /\ AttemptFails(c)

Spawned(c) ==
  /\ pc[c] = "spawning"
  /\ pc' = [pc EXCEPT ![c] = "binding"]
  /\ launched' = TRUE
  /\ left' = ReadyWait
  /\ UNCHANGED <<loopback, port, holder, queue, failure, burnt>>

\* _wait_for_cdp_port(): a poll finds the port ...
Bound(c) ==
  /\ pc[c] = "binding" /\ port
  /\ pc' = [pc EXCEPT ![c] = "grace"]
  /\ left' = 0
  /\ UNCHANGED <<chrome, holder, queue, failure, burnt>>

\* ... or the last one does not.
NotBound(c) ==
  /\ pc[c] = "binding" /\ ~port /\ left = 0
  /\ AttemptFails(c)

\* The grace period and the hiding of the window are over.
Started(c) ==
  /\ pc[c] = "grace"
  /\ failure' = 0 /\ burnt' = {}
  /\ holder' = None
  /\ Proceeds(c)
  /\ UNCHANGED <<chrome, queue, left>>

\* Cancelled in the queue.
QueueLeft(c) ==
  /\ pc[c] = "queued"
  /\ queue' = RemoveFirst(queue, c)
  /\ burnt' = burnt \ {c}
  /\ Fails(c)
  /\ UNCHANGED <<chrome, holder, memory>>

\* Fault: the lock stays with a call that is gone.
AttemptCancelledLocked(c) ==
  /\ pc[c] \in Attempting
  /\ left' = 0
  /\ Fails(c)
  /\ UNCHANGED <<chrome, holder, queue, failure, burnt>>

\* Cancelled in an attempt: nothing is remembered, and the thread that starts
\* Chrome goes on by itself.
AttemptCancelled(c) ==
  /\ pc[c] \in Attempting
  /\ holder' = None
  /\ left' = 0
  /\ launched' \in IF pc[c] = "spawning" THEN {launched, TRUE} ELSE {launched}
  /\ Fails(c)
  /\ UNCHANGED <<loopback, port, queue, failure, burnt>>

\* Another process or the operator starts Chrome (start_browser()), which binds
\* the port some time later.
StartedElsewhere ==
  /\ ~launched
  /\ launched' = TRUE
  /\ UNCHANGED <<loopback, port, holder, queue, memory, pc, burnt>>

ChromeBinds ==
  /\ launched /\ ~port
  /\ port' = TRUE
  /\ UNCHANGED <<loopback, launched, holder, queue, memory, pc, burnt>>

ChromeDies ==
  /\ launched
  /\ port' = FALSE /\ launched' = FALSE
  /\ UNCHANGED <<loopback, holder, queue, memory, pc, burnt>>

\* The loop runs whoever got the lock long before the memory runs out.
Tick ==
  /\ failure > 0 \/ left > 0
  /\ ~(holder = None /\ queue # <<>>)
  /\ failure' = IF failure > 0 THEN failure - 1 ELSE 0
  /\ left' = IF left > 0 THEN left - 1 ELSE 0
  /\ UNCHANGED <<chrome, holder, queue, pc, burnt>>

Asks(c) == FastPath(c) \/ AskAndQueue(c)
TakesLock(c) == AlreadyRunning(c) \/ Remote(c) \/ Remembered(c) \/ Spawns(c)
Attempt(c) == SpawnFails(c) \/ Spawned(c) \/ Bound(c) \/ NotBound(c) \/ Started(c)
AutostartCancelled(c) == QueueLeft(c) \/ AttemptCancelled(c)

Environment == StartedElsewhere \/ ChromeBinds \/ ChromeDies

-----------------------------------------------------------------------------
(* Properties.                                                              *)

\* One attempt at a time, by the call that holds the lock, and a call waits in
\* the queue exactly once: whoever is cancelled leaves neither behind.
OneAttempt ==
  /\ \A c \in Callers : (pc[c] \in Attempting) <=> (holder = c)
  /\ \A c \in Callers : (pc[c] = "queued") <=> (\E i \in 1..Len(queue) : queue[i] = c)
  /\ \A i, j \in 1..Len(queue) : queue[i] = queue[j] => i = j

\* "callers arriving, or already waiting on the lock, during that window get the
\* same failure ... at once instead of repeating the bounded readiness wait": a
\* call that sat through a failed attempt does not start another.
FailurePaidOnce ==
  [][\A c \in Callers : c \in burnt => pc'[c] # "spawning"]_autostartVars
=============================================================================
