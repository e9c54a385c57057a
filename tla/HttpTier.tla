------------------------------ MODULE HttpTier ------------------------------
(***************************************************************************)
(* transport/http_tier.py: the two GET loops of the anonymous HTTP tier    *)
(* and the RateLimiter they go through.  A call of kind "retries" is       *)
(* get_text_with_retries(): it passes the limiter before every attempt and *)
(* retries transport faults and gateway statuses.  One of kind "budgeted"  *)
(* is get_text_budgeted(): it has a deadline for the whole operation,      *)
(* retries transport faults only, and passes the limiter before a retry.   *)
(*                                                                         *)
(* An action is the code between two suspension points.  Times are ticks   *)
(* counted down: left of a sleep, budget of the deadline; since is the     *)
(* time since _last_ts.  The loop may be late with any of them.            *)
(***************************************************************************)
EXTENDS Integers, SequencesExt

CONSTANTS
  Calls,
  Budgeted,   \* the calls that run get_text_budgeted()
  None,
  MinGap,     \* RateLimiter.min_gap_s
  Retries,    \* retries
  Backoff,    \* backoff_s
  Budget      \* wall_timeout_s

ASSUME HttpAssumption ==
  /\ Budgeted \subseteq Calls /\ None \notin Calls
  /\ MinGap \in Nat /\ Retries \in Nat /\ Backoff \in Nat /\ Budget \in Nat

VARIABLES
  since,   \* time since _last_ts, up to MinGap
  holder,  \* who holds RateLimiter._lock
  queue,   \* who waits for it, oldest first
  call,    \* each call: see Call
  quiet    \* ghost: time since a call last passed the limiter

vars == <<since, holder, queue, call, quiet>>

\* What one attempt comes to: a page, a gateway status (RETRYABLE_STATUSES), any
\* other error status (429 included), a body over its cap, a TransportError.
Outcomes == {"page", "gateway", "status", "tooLarge", "fault"}
Answers  == Outcomes \union {"none", "overdue"}

\* gate: waits for the limiter's lock; pacing: sleeps with it; sending: awaits the
\* response; backoff: sleeps before a retry; over: returned, raised or cancelled.
Standing == {"over", "gate", "pacing", "sending", "backoff"}

Max2(a, b) == IF a > b THEN a ELSE b
Min2(a, b) == IF a < b THEN a ELSE b

\* attempt: retries made; pause: the next backoff; kept: last_result is set; seen
\* (ghost): what its attempts came to; answer: how the call ended.
State(pc, attempt, pause, left, budget, kept, seen, answer) ==
  [pc |-> pc, attempt |-> attempt, pause |-> pause, left |-> left, budget |-> budget,
   kept |-> kept, seen |-> seen, answer |-> answer]

Started(c) == State("gate", 0, Backoff, 0, IF c \in Budgeted THEN Budget ELSE 0, FALSE, {}, "none")
At(st, pc, left) == State(pc, st.attempt, st.pause, left, st.budget, st.kept, st.seen, "none")
Over(answer, seen) == State("over", 0, 0, 0, 0, FALSE, seen, answer)

\* The queue once c has given up, wherever it stands in it.
Without(q, c) ==
  IF \E i \in 1..Len(q) : q[i] = c THEN RemoveAt(q, CHOOSE i \in 1..Len(q) : q[i] = c) ELSE q

Init ==
  /\ since = MinGap          \* _last_ts = 0.0
  /\ holder = None
  /\ queue = <<>>
  /\ call = [c \in Calls |-> Over("none", {})]
  /\ quiet = MinGap

Ends(c, answer) == call' = [call EXCEPT ![c] = Over(answer, call[c].seen)]

-----------------------------------------------------------------------------
(* RateLimiter.wait().                                                       *)

\* Past the limiter.  get_text_budgeted() looks at the deadline again first.
Passed(c, st) ==
  IF c \in Budgeted /\ st.budget = 0 THEN Over("overdue", st.seen) ELSE At(st, "sending", 0)

Pass(c, st) == call' = [call EXCEPT ![c] = Passed(c, st)]

\* Fault: the time of the last pass is not recorded.
StampForgotten(c, st) == Pass(c, st) /\ quiet' = 0 /\ UNCHANGED since

Stamp(c, st) == Pass(c, st) /\ since' = 0 /\ quiet' = 0

\* With the lock: leave at once when the gap is over, else sleep with it.
Locked(c, st, others) ==
  /\ queue' = others
  /\ \/ since >= MinGap /\ holder' = None /\ Stamp(c, st)
     \/ /\ since < MinGap
        /\ holder' = c
        /\ call' = [call EXCEPT ![c] = At(st, "pacing", MinGap - since)]
        /\ UNCHANGED <<since, quiet>>

\* asyncio.Lock is fair: who comes while it is held, or promised, queues.
Enter(c, st) ==
  \/ holder = None /\ queue = <<>> /\ Locked(c, st, <<>>)
  \/ /\ holder # None \/ queue # <<>>
     /\ queue' = Append(queue, c)
     /\ call' = [call EXCEPT ![c] = At(st, "gate", 0)]
     /\ UNCHANGED <<since, holder, quiet>>

\* A release wakes the head of the queue.
Turn(c) ==
  /\ holder = None /\ queue # <<>> /\ Head(queue) = c
  /\ call[c].pc = "gate"
  /\ Locked(c, call[c], Tail(queue))

Wake(c) ==
  /\ call[c].pc = "pacing" /\ call[c].left = 0
  /\ holder' = None
  /\ Stamp(c, call[c])
  /\ UNCHANGED queue

\* Fault: the lock is lost with the call.
LeaveLocked(c) == UNCHANGED holder /\ queue' = Without(queue, c)

\* A cancelled wait gives the lock back, or leaves the queue.
LeaveLimiter(c) ==
  /\ holder' = IF holder = c THEN None ELSE holder
  /\ queue' = Without(queue, c)

-----------------------------------------------------------------------------
(* The two loops.                                                            *)

\* get_text_with_retries() waits for the limiter, get_text_budgeted() sends.
Begin(c) ==
  /\ call[c].pc = "over"
  /\ \/ c \notin Budgeted /\ Enter(c, Started(c))
     \/ c \in Budgeted /\ Pass(c, Started(c)) /\ UNCHANGED <<since, holder, queue, quiet>>

Heard(c, outcome) == call[c].seen \union {outcome}

\* asyncio.sleep() before the next attempt: the pauses double, or grow by a step.
BackedOff(c, outcome) ==
  State("backoff", call[c].attempt + 1,
        IF c \in Budgeted THEN call[c].pause + Backoff ELSE 2 * call[c].pause, call[c].pause,
        call[c].budget, call[c].kept \/ outcome = "gateway", Heard(c, outcome), "none")

BackOff(c, outcome) == call' = [call EXCEPT ![c] = BackedOff(c, outcome)]

Answer(c, answer, outcome) == call' = [call EXCEPT ![c] = Over(answer, Heard(c, outcome))]

\* Faults: a rate limit is retried; the kept status is forgotten.
RepliesRetryAll(c, outcome) ==
  LET last == call[c].attempt = Retries IN
  \/ ~last /\ outcome \in {"gateway", "status", "fault"} /\ BackOff(c, outcome)
  \/ (last \/ outcome \in {"page", "tooLarge"}) /\ Answer(c, outcome, outcome)

RepliesForget(c, outcome) ==
  LET last == call[c].attempt = Retries IN
  \/ ~last /\ outcome \in {"gateway", "fault"} /\ BackOff(c, outcome)
  \/ (last \/ outcome \notin {"gateway", "fault"}) /\ Answer(c, outcome, outcome)

\* get_text_with_retries(): a gateway status or a fault is retried; the last
\* attempt's fault is raised only if no gateway status was kept.
RetriesReply(c, outcome) ==
  LET last == call[c].attempt = Retries IN
  \/ ~last /\ outcome \in {"gateway", "fault"} /\ BackOff(c, outcome)
  \/ last /\ outcome = "fault" /\ Answer(c, IF call[c].kept THEN "gateway" ELSE "fault", outcome)
  \/ last /\ outcome = "gateway" /\ Answer(c, "gateway", outcome)
  \/ outcome \notin {"gateway", "fault"} /\ Answer(c, outcome, outcome)

\* Fault: the pause is not compared with what is left of the budget.
BudgetedUnchecked(c, outcome) ==
  LET last == call[c].attempt = Retries IN
  \/ outcome = "fault" /\ ~last /\ BackOff(c, outcome)
  \/ (last \/ outcome # "fault") /\ Answer(c, outcome, outcome)

\* get_text_budgeted(): a fault is retried if the pause fits into the budget.
BudgetedReply(c, outcome) ==
  LET last == call[c].attempt = Retries IN
  \/ outcome # "fault" /\ Answer(c, outcome, outcome)
  \/ outcome = "fault" /\ last /\ Answer(c, "fault", outcome)
  \/ outcome = "fault" /\ ~last /\ call[c].budget <= call[c].pause /\ Answer(c, "overdue", outcome)
  \/ outcome = "fault" /\ ~last /\ call[c].budget > call[c].pause /\ BackOff(c, outcome)

Reply(c, outcome) ==
  /\ call[c].pc = "sending"
  /\ \/ c \notin Budgeted /\ RetriesReply(c, outcome)
     \/ c \in Budgeted /\ BudgetedReply(c, outcome)
  /\ UNCHANGED <<since, holder, queue, quiet>>

\* The sleep is over: through the limiter, unless the deadline has passed.
Retry(c) ==
  /\ call[c].pc = "backoff" /\ call[c].left = 0
  /\ \/ c \in Budgeted /\ call[c].budget = 0 /\ Ends(c, "overdue") /\ UNCHANGED <<since, holder, queue, quiet>>
     \/ (c \in Budgeted => call[c].budget > 0) /\ Enter(c, call[c])

\* wait_for() around an attempt, or around the limiter, runs out.
AttemptTimesOut(c) ==
  /\ c \in Budgeted
  /\ call[c].pc = "sending" /\ call[c].budget = 0
  /\ Ends(c, "overdue")
  /\ UNCHANGED <<since, holder, queue, quiet>>

GateTimesOut(c) ==
  /\ c \in Budgeted
  /\ call[c].pc \in {"gate", "pacing"} /\ call[c].budget = 0
  /\ LeaveLimiter(c)
  /\ Ends(c, "overdue")
  /\ UNCHANGED <<since, quiet>>

\* The tool call is cancelled, wherever it waits.
Cancel(c) ==
  /\ call[c].pc # "over"
  /\ LeaveLimiter(c)
  /\ Ends(c, "none")
  /\ UNCHANGED <<since, quiet>>

Elapsed(st) ==
  State(st.pc, st.attempt, st.pause, Max2(0, st.left - 1), Max2(0, st.budget - 1), st.kept, st.seen, st.answer)

Tick ==
  /\ since < MinGap \/ quiet < MinGap \/ \E c \in Calls : call[c].left > 0 \/ call[c].budget > 0
  /\ since' = Min2(MinGap, since + 1) /\ quiet' = Min2(MinGap, quiet + 1)
  /\ call' = [c \in Calls |-> Elapsed(call[c])]
  /\ UNCHANGED <<holder, queue>>

Next ==
  \/ \E c \in Calls : Begin(c) \/ Turn(c) \/ Wake(c) \/ Retry(c)
  \/ \E c \in Calls, outcome \in Outcomes : Reply(c, outcome)
  \/ \E c \in Calls : AttemptTimesOut(c) \/ GateTimesOut(c) \/ Cancel(c)
  \/ Tick

Spec == Init /\ [][Next]_vars

\* The loop runs what is ready and fires its timers; an attempt without a
\* deadline ends with httpx's own timeouts.
Fairness ==
  /\ WF_vars(Tick)
  /\ \A c \in Calls : WF_vars(Turn(c)) /\ WF_vars(Wake(c)) /\ WF_vars(Retry(c))
  /\ \A c \in Budgeted : WF_vars(AttemptTimesOut(c)) /\ WF_vars(GateTimesOut(c))
  /\ \A c \in Calls \ Budgeted : WF_vars(\E outcome \in Outcomes : Reply(c, outcome))

FairSpec == Spec /\ Fairness

-----------------------------------------------------------------------------
(* Properties.                                                              *)

CallStates ==
  [pc : Standing, attempt : 0..Retries, pause : Nat, left : Nat, budget : 0..Budget,
   kept : BOOLEAN, seen : SUBSET Outcomes, answer : Answers]

\* The limiter and the calls are well formed; no call makes more than Retries
\* retries.
TypeOK ==
  /\ since \in 0..MinGap /\ quiet \in 0..MinGap
  /\ holder \in Calls \union {None}
  /\ queue \in Seq(Calls)
  /\ call \in [Calls -> CallStates]

Sends(c) == call[c].pc # "sending" /\ call'[c].pc = "sending"
\* A budgeted call's first attempt is paced by its caller.
Paced(c) == c \in Budgeted => call[c].pc # "over"

\* Whatever is cancelled or timed out in the limiter, two attempts that went
\* through it are min_gap_s apart ("Politeness preserved across retries").
GapKept == [][\A c \in Calls : Sends(c) /\ Paced(c) => quiet >= MinGap]_vars

\* wall_timeout_s caps the whole operation: no attempt begins once it is spent,
\* and no backoff is begun that would outlast it.
DeadlineKept ==
  [][\A c \in Budgeted :
       /\ Sends(c) => call'[c].budget > 0
       /\ call'[c].pc = "backoff" /\ call'[c].left > 0 => call'[c].left < call'[c].budget]_vars

\* "Retry only what a retry can fix": a call still under way has met transport
\* faults only, or gateway statuses if it retries those; never a 429.
OnlyTransientRetried ==
  \A c \in Calls : call[c].pc # "over" =>
    call[c].seen \subseteq (IF c \in Budgeted THEN {"fault"} ELSE {"gateway", "fault"})

\* What a call returns it has met, and a gateway status it has kept stands in for
\* the faults of later attempts: a transport error is raised only by a call to
\* which nobody answered.
AnswerIsReal ==
  \A c \in Calls :
    LET a == call[c].answer IN
    /\ a \in Outcomes => a \in call[c].seen
    /\ a = "fault" => call[c].seen = {"fault"}

\* Every call returns: the limiter is never lost, and a call with a deadline
\* does not depend on the server.
CallsReturn == \A c \in Calls : call[c].pc # "over" ~> call[c].pc = "over"
=============================================================================
