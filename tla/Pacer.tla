-------------------------------- MODULE Pacer --------------------------------
(***************************************************************************)
(* pacing.py: one Pacer per marketplace, shared by its concurrent tool     *)
(* calls.  A call awaits Pacer.wait(), sends its request and reports what  *)
(* became of it.  Time is counted in ticks: since is the time since        *)
(* _last_request_at, left what remains of a sleep.                         *)
(*                                                                         *)
(* The asyncio.Lock is holder and the queue of the others; it is fair: a   *)
(* newcomer queues while anybody does, and a release wakes the head.       *)
(***************************************************************************)
EXTENDS Integers, SequencesExt

CONSTANTS
  Callers,
  None,
  Gaps,         \* the min_gap a call may ask for
  ErrorDelay,   \* the gap after a refusal
  Jitter,       \* the most that a refusal's gap is spread by
  Threshold,    \* rotation_threshold
  Far           \* bound: a time since the last request that no gap exceeds

ASSUME PacerAssumption ==
  /\ None \notin Callers
  /\ Gaps \subseteq Nat /\ ErrorDelay \in Nat /\ Jitter \in Nat
  /\ Threshold \in Nat \ {0}
  /\ Far \in Nat
  /\ \A g \in Gaps : g + Jitter <= Far
  /\ ErrorDelay + Jitter <= Far

VARIABLES
  since,      \* clock() - _last_request_at
  penalised,  \* _penalised
  refusals,   \* _consecutive_refusals, counted to the threshold only
  holder,     \* who holds _lock
  queue,      \* who waits for it
  caller,     \* where each call stands: the gap it asked for and the one it keeps,
              \* whether it found the source penalised, what is left of its sleep
  quiet       \* ghost: the time since a request was last sent

vars == <<since, penalised, refusals, holder, queue, caller, quiet>>

Standing == {"idle", "waiting", "sleeping", "sent"}

Call(pc, asked, gap, owes, left) ==
  [pc |-> pc, asked |-> asked, gap |-> gap, owes |-> owes, left |-> left]

NoCall == Call("idle", 0, 0, FALSE, 0)

\* The queue once c has given up, which it does wherever it stands in it.
Without(q, c) ==
  IF \E i \in 1..Len(q) : q[i] = c THEN RemoveAt(q, CHOOSE i \in 1..Len(q) : q[i] = c) ELSE q

Max2(a, b) == IF a > b THEN a ELSE b
Min2(a, b) == IF a < b THEN a ELSE b

Init ==
  /\ since = Far          \* _last_request_at = 0.0
  /\ penalised = FALSE
  /\ refusals = 0
  /\ holder = None
  /\ queue = <<>>
  /\ caller = [c \in Callers |-> NoCall]
  /\ quiet = Far

\* What a call brings to the lock; its gap is fixed before it asks for it.
Kept(g, j) == IF penalised THEN Max2(g, ErrorDelay) + j ELSE g

Ask(g, j) == Call("waiting", g, Kept(g, j), penalised, 0)

Sent(call) == Call("sent", call.asked, call.gap, call.owes, 0)
Asleep(call) == Call("sleeping", call.asked, call.gap, call.owes, call.gap - since)

\* With the lock in hand: send at once when the gap is over ...
SendNow(c, call, others) ==
  /\ since >= call.gap
  /\ since' = 0 /\ quiet' = 0
  /\ penalised' = FALSE
  /\ holder' = None
  /\ queue' = others
  /\ caller' = [caller EXCEPT ![c] = Sent(call)]
  /\ UNCHANGED refusals

\* Fault: it sleeps without having compared the gap with the time passed.
SleepUnchecked(c, call, others) ==
  /\ holder' = c
  /\ queue' = others
  /\ caller' = [caller EXCEPT ![c] = Asleep(call)]
  /\ UNCHANGED <<since, penalised, refusals, quiet>>

\* ... else sleep with it.
SleepFirst(c, call, others) ==
  /\ since < call.gap
  /\ holder' = c
  /\ queue' = others
  /\ caller' = [caller EXCEPT ![c] = Asleep(call)]
  /\ UNCHANGED <<since, penalised, refusals, quiet>>

LockFree == holder = None /\ queue = <<>>

\* wait() with the lock free ...
WaitAtOnce(c, g, j) ==
  /\ caller[c].pc = "idle"
  /\ LockFree
  /\ SendNow(c, Ask(g, j), <<>>) \/ SleepFirst(c, Ask(g, j), <<>>)

\* Fault: the time passed is taken off the gap before the lock is there.
QueueMeasured(c, g, j) ==
  /\ caller[c].pc = "idle"
  /\ ~LockFree
  /\ queue' = Append(queue, c)
  /\ caller' = [caller EXCEPT ![c] = Call("waiting", g, Max2(0, Kept(g, j) - since), penalised, 0)]
  /\ UNCHANGED <<since, penalised, refusals, holder, quiet>>

\* ... and with the lock taken, or promised to the head of its queue.
QueueForLock(c, g, j) ==
  /\ caller[c].pc = "idle"
  /\ ~LockFree
  /\ queue' = Append(queue, c)
  /\ caller' = [caller EXCEPT ![c] = Ask(g, j)]
  /\ UNCHANGED <<since, penalised, refusals, holder, quiet>>

\* The head of the queue resumes with the lock.
Turn(c) ==
  /\ holder = None
  /\ queue # <<>> /\ c = Head(queue)
  /\ SendNow(c, caller[c], Tail(queue)) \/ SleepFirst(c, caller[c], Tail(queue))

\* The sleep is over, perhaps late.
Wake(c) ==
  /\ caller[c].pc = "sleeping" /\ caller[c].left = 0
  /\ since' = 0 /\ quiet' = 0
  /\ penalised' = FALSE
  /\ holder' = None
  /\ caller' = [caller EXCEPT ![c] = Sent(caller[c])]
  /\ UNCHANGED <<refusals, queue>>

\* Fault: a cancelled sleeper keeps the lock.
CancelKeepsLock(c) ==
  /\ caller[c].pc \in {"waiting", "sleeping"}
  /\ queue' = Without(queue, c)
  /\ caller' = [caller EXCEPT ![c] = NoCall]
  /\ UNCHANGED <<since, penalised, refusals, holder, quiet>>

\* The call is cancelled in the queue or asleep: the lock is released, nothing
\* is stamped.
Cancel(c) ==
  /\ caller[c].pc \in {"waiting", "sleeping"}
  /\ holder' = IF holder = c THEN None ELSE holder
  /\ queue' = Without(queue, c)
  /\ caller' = [caller EXCEPT ![c] = NoCall]
  /\ UNCHANGED <<since, penalised, refusals, quiet>>

\* The request is answered: record_success(), record_refusal(), or neither.
RecordSuccess(c) ==
  /\ caller[c].pc = "sent"
  /\ refusals' = 0
  /\ penalised' = FALSE
  /\ caller' = [caller EXCEPT ![c] = NoCall]
  /\ UNCHANGED <<since, holder, queue, quiet>>

RecordRefusal(c) ==
  /\ caller[c].pc = "sent"
  /\ refusals' = Min2(Threshold, refusals + 1)
  /\ penalised' = TRUE
  /\ caller' = [caller EXCEPT ![c] = NoCall]
  /\ UNCHANGED <<since, holder, queue, quiet>>

RecordNothing(c) ==
  /\ caller[c].pc = "sent"
  /\ caller' = [caller EXCEPT ![c] = NoCall]
  /\ UNCHANGED <<since, penalised, refusals, holder, queue, quiet>>

Elapsed(call) == Call(call.pc, call.asked, call.gap, call.owes, Max2(0, call.left - 1))

Tick ==
  /\ since < Far \/ quiet < Far \/ \E c \in Callers : caller[c].left > 0
  /\ since' = Min2(Far, since + 1) /\ quiet' = Min2(Far, quiet + 1)
  /\ caller' = [c \in Callers |-> Elapsed(caller[c])]
  /\ UNCHANGED <<penalised, refusals, holder, queue>>

Next ==
  \/ \E c \in Callers, g \in Gaps, j \in 0..Jitter : WaitAtOnce(c, g, j) \/ QueueForLock(c, g, j)
  \/ \E c \in Callers : Turn(c) \/ Wake(c) \/ Cancel(c)
  \/ \E c \in Callers : RecordSuccess(c) \/ RecordRefusal(c) \/ RecordNothing(c)
  \/ Tick

Spec == Init /\ [][Next]_vars

\* The loop runs what is ready, sleeps end, requests have timeouts.
Fairness ==
  /\ WF_vars(Tick)
  /\ \A c \in Callers : WF_vars(Turn(c)) /\ WF_vars(Wake(c))

FairSpec == Spec /\ Fairness

-----------------------------------------------------------------------------
(* Properties.                                                              *)

Calls == [pc : Standing, asked : 0..Far, gap : 0..Far, owes : BOOLEAN, left : 0..Far]

\* The pacer, its lock and the calls are well formed.
TypeOK ==
  /\ since \in 0..Far /\ quiet \in 0..Far
  /\ penalised \in BOOLEAN
  /\ refusals \in 0..Threshold
  /\ holder \in Callers \union {None}
  /\ queue \in Seq(Callers)
  /\ caller \in [Callers -> Calls]

Sends(c) == caller[c].pc # "sent" /\ caller'[c].pc = "sent"

\* "Two callers cannot both decide that enough time has passed" (Pacer): when a
\* request is sent, the gap its caller asked for has passed since the previous
\* one was sent; and the error delay, if the call found the source penalised,
\* however small its gap and however long it queued.
GapKept ==
  [][\A c \in Callers : Sends(c) =>
       /\ quiet >= caller'[c].asked
       /\ caller'[c].owes => quiet >= ErrorDelay]_vars

\* record_refusal() must "penalize the next wait": a pending penalty is consumed
\* only by a request that waited it out.  The code breaks it: a call queued
\* before the refusal keeps its short gap, sends, and clears the penalty.
RefusalSlowsNext == [][\A c \in Callers : Sends(c) /\ penalised => quiet >= ErrorDelay]_vars

\* Every call in wait() gets to send, or is cancelled: nobody waits for a lock
\* that is never given back.
WaitersSend == \A c \in Callers : caller[c].pc \in {"waiting", "sleeping"} ~> caller[c].pc \in {"sent", "idle"}
=============================================================================
