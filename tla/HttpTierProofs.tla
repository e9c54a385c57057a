--------------------------- MODULE HttpTierProofs ---------------------------
(***************************************************************************)
(* Theorems about HttpTier, for every number of calls and every setting.   *)
(***************************************************************************)
EXTENDS HttpTier, SequenceTheorems, TLAPS

\* What a call may retry.
Transient(c) == IF c \in Budgeted THEN {"fault"} ELSE {"gateway", "fault"}

\* A call's record agrees with what its attempts came to.
Sound(c, st) ==
  /\ st \in CallStates
  /\ st.pc # "over" => st.answer = "none" /\ st.seen \subseteq Transient(c)
  /\ st.pc # "over" => (st.kept <=> "gateway" \in st.seen)
  /\ st.answer \in Outcomes => st.answer \in st.seen
  /\ st.answer = "fault" => st.seen = {"fault"}
  /\ c \in Budgeted /\ st.pc = "backoff" /\ st.left > 0 => st.left < st.budget

AllSound == \A c \in Calls : Sound(c, call[c])

\* The limiter's clock is the time since a call passed it, and whoever sleeps
\* holds the lock and sleeps long enough.
Limited ==
  /\ since = quiet
  /\ \A c \in Calls : call[c].pc = "pacing" => holder = c /\ quiet + call[c].left >= MinGap

Inv == TypeOK /\ AllSound /\ Limited

\* What a step may not do.
InTime ==
  \A c \in Calls :
    /\ Sends(c) /\ Paced(c) => quiet >= MinGap
    /\ c \in Budgeted /\ Sends(c) => call'[c].budget > 0

-----------------------------------------------------------------------------
\* A call that gives up leaves a queue of calls.
LEMMA WithoutSeq ==
  ASSUME NEW q \in Seq(Calls), NEW c \in Calls
  PROVE  Without(q, c) \in Seq(Calls)
<1>1. CASE ~\E i \in 1..Len(q) : q[i] = c
  BY <1>1 DEF Without
<1>2. CASE \E i \in 1..Len(q) : q[i] = c
  <2> DEFINE i == CHOOSE j \in 1..Len(q) : q[j] = c
  <2>1. i \in 1..Len(q)
    BY <1>2
  <2> HIDE DEF i
  <2>2. /\ SubSeq(q, 1, i - 1) \in Seq(Calls)
        /\ SubSeq(q, i + 1, Len(q)) \in Seq(Calls)
    BY <2>1
  <2>3. RemoveAt(q, i) \in Seq(Calls)
    BY <2>2 DEF RemoveAt
  <2> QED
    BY <1>2, <2>3 DEF Without, i
<1> QED
  BY <1>1, <1>2

\* The constants, as the steps below use them.
LEMMA Consts ==
  /\ MinGap \in Nat /\ Retries \in Nat /\ Backoff \in Nat /\ Budget \in Nat
  /\ Budgeted \subseteq Calls /\ None \notin Calls
BY HttpAssumption

\* A call that is over.
LEMMA OverSound ==
  ASSUME NEW c \in Calls, NEW answer \in Answers, NEW seen \in SUBSET Outcomes,
         answer \in Outcomes => answer \in seen, answer = "fault" => seen = {"fault"}
  PROVE  Sound(c, Over(answer, seen)) /\ Over(answer, seen).pc = "over"
<1>1. 0 \in 0..Retries /\ 0 \in 0..Budget /\ 0 \in Nat
  BY Consts
<1> QED
  BY <1>1 DEF Sound, Over, State, CallStates, Standing

\* A call that begins.
LEMMA StartedSound ==
  ASSUME NEW c \in Calls
  PROVE  Sound(c, Started(c)) /\ Started(c).pc = "gate" /\ Started(c).left = 0
<1>1. 0 \in 0..Retries /\ 0 \in 0..Budget /\ Budget \in 0..Budget /\ Backoff \in Nat /\ 0 \in Nat
  BY Consts
<1>2. "none" \in Answers /\ "none" \notin Outcomes
  BY DEF Answers, Outcomes
<1> QED
  BY <1>1, <1>2 DEF Sound, Started, State, CallStates, Standing

\* A call under way moves to the limiter, to its sleep, or to an attempt.
LEMMA AtSound ==
  ASSUME NEW c \in Calls, NEW st, Sound(c, st), st.pc # "over",
         NEW pc \in {"gate", "pacing", "sending"}, NEW left \in Nat
  PROVE  /\ Sound(c, At(st, pc, left))
         /\ At(st, pc, left).pc = pc /\ At(st, pc, left).left = left
         /\ At(st, pc, left).budget = st.budget
<1>1. /\ st.attempt \in 0..Retries /\ st.pause \in Nat /\ st.budget \in 0..Budget
      /\ st.kept \in BOOLEAN /\ st.seen \in SUBSET Outcomes
  BY DEF Sound, CallStates
<1>2. At(st, pc, left) = [pc |-> pc, attempt |-> st.attempt, pause |-> st.pause, left |-> left,
                          budget |-> st.budget, kept |-> st.kept, seen |-> st.seen, answer |-> "none"]
  BY DEF At, State
<1>3. "none" \in Answers /\ "none" \notin Outcomes /\ pc \in Standing
  BY DEF Answers, Outcomes, Standing
<1> QED
  BY <1>1, <1>2, <1>3 DEF Sound, CallStates

-----------------------------------------------------------------------------
\* One call's record changes; it does not sleep in the limiter, the limiter's
\* clock stands still.
LEMMA OneCallMoves ==
  ASSUME Inv, NEW c \in Calls, NEW st, Sound(c, st), st.pc # "pacing",
         call' = [call EXCEPT ![c] = st],
         st.pc = "sending" => c \in Budgeted /\ call[c].pc = "over" /\ st.budget > 0,
         since' = since, quiet' = quiet,
         queue' \in Seq(Calls),
         holder' = holder \/ (holder = c /\ holder' = None)
  PROVE  Inv' /\ InTime
<1>1. \A d \in Calls : call'[d] = IF d = c THEN st ELSE call[d]
  BY DEF Inv, TypeOK
<1>2. TypeOK'
  <2>1. call' \in [Calls -> CallStates]
    BY DEF Inv, TypeOK, Sound
  <2> QED
    BY <2>1 DEF Inv, TypeOK
<1>3. AllSound'
  BY <1>1 DEF Inv, AllSound
<1>4. Limited'
  BY <1>1 DEF Inv, Limited
<1>5. InTime
  BY <1>1 DEF InTime, Sends, Paced
<1> QED
  BY <1>2, <1>3, <1>4, <1>5 DEF Inv

\* A call passes the limiter once the gap is over.
LEMMA StampKeeps ==
  ASSUME Inv, NEW c \in Calls, NEW st, Sound(c, st), st.pc # "over",
         quiet >= MinGap, Stamp(c, st), queue' \in Seq(Calls), holder' = None,
         \A d \in Calls \ {c} : call[d].pc # "pacing"
  PROVE  Inv' /\ InTime
<1>1. since' = 0 /\ quiet' = 0 /\ call' = [call EXCEPT ![c] = Passed(c, st)]
  BY DEF Stamp, Pass
<1>2. /\ Sound(c, Passed(c, st)) /\ Passed(c, st).pc \in {"over", "sending"}
      /\ c \in Budgeted /\ Passed(c, st).pc = "sending" => Passed(c, st).budget > 0
  <2>1. CASE c \in Budgeted /\ st.budget = 0
    <3>1. st.seen \in SUBSET Outcomes /\ "overdue" \in Answers /\ "overdue" \notin Outcomes
      BY DEF Sound, CallStates, Answers, Outcomes
    <3> QED
      BY <2>1, <3>1, OverSound DEF Passed
  <2>2. CASE ~(c \in Budgeted /\ st.budget = 0)
    <3>1. 0 \in Nat /\ st.budget \in Nat
      BY Consts DEF Sound, CallStates
    <3> QED
      BY <2>2, <3>1, AtSound DEF Passed
  <2> QED
    BY <2>1, <2>2
<1>3. \A d \in Calls : call'[d] = IF d = c THEN Passed(c, st) ELSE call[d]
  BY <1>1 DEF Inv, TypeOK
<1>4. TypeOK'
  <2>1. call' \in [Calls -> CallStates]
    BY <1>1, <1>2 DEF Inv, TypeOK, Sound
  <2>2. 0 \in 0..MinGap
    BY Consts
  <2> QED
    BY <1>1, <2>1, <2>2 DEF TypeOK
<1>5. AllSound'
  BY <1>2, <1>3 DEF Inv, AllSound
<1>6. Limited'
  BY <1>1, <1>2, <1>3 DEF Limited
<1>7. InTime
  BY <1>2, <1>3 DEF InTime, Sends
<1> QED
  BY <1>4, <1>5, <1>6, <1>7 DEF Inv

\* A call that gets the lock passes at once, or sleeps with it.
LEMMA LockedKeeps ==
  ASSUME Inv, NEW c \in Calls, NEW st, Sound(c, st), st.pc # "over",
         NEW others \in Seq(Calls), holder = None, Locked(c, st, others)
  PROVE  Inv' /\ InTime
<1>1. \A d \in Calls : call[d].pc # "pacing"
  BY Consts DEF Inv, Limited
<1>2. since \in 0..MinGap /\ since = quiet /\ queue' = others
  BY DEF Inv, TypeOK, Limited, Locked
<1>3. CASE since >= MinGap /\ holder' = None /\ Stamp(c, st)
  BY <1>1, <1>2, <1>3, StampKeeps
<1>4. CASE /\ since < MinGap
           /\ holder' = c
           /\ call' = [call EXCEPT ![c] = At(st, "pacing", MinGap - since)]
           /\ UNCHANGED <<since, quiet>>
  <2> DEFINE slept == At(st, "pacing", MinGap - since)
  <2>1. MinGap - since \in Nat /\ quiet + (MinGap - since) = MinGap /\ MinGap \in Nat
    BY <1>2, <1>4, Consts
  <2>2. Sound(c, slept) /\ slept.pc = "pacing" /\ slept.left = MinGap - since
    BY <2>1, AtSound
  <2> HIDE DEF slept
  <2>3. \A d \in Calls : call'[d] = IF d = c THEN slept ELSE call[d]
    BY <1>4 DEF Inv, TypeOK, slept
  <2>4. TypeOK'
    <3>1. call' \in [Calls -> CallStates]
      BY <1>4, <2>2 DEF Inv, TypeOK, Sound, slept
    <3> QED
      BY <1>2, <1>4, <3>1 DEF Inv, TypeOK
  <2>5. AllSound'
    BY <2>2, <2>3 DEF Inv, AllSound
  <2>6. Limited'
    <3>1. quiet' + slept.left >= MinGap
      BY <1>4, <2>1, <2>2
    <3> QED
      BY <1>1, <1>2, <1>4, <2>3, <3>1 DEF Limited
  <2>7. InTime
    BY <2>2, <2>3 DEF InTime, Sends
  <2> QED
    BY <2>4, <2>5, <2>6, <2>7 DEF Inv
<1> QED
  BY <1>3, <1>4 DEF Locked

\* Asking for the lock.
LEMMA EnterKeeps ==
  ASSUME Inv, NEW c \in Calls, NEW st, Sound(c, st), st.pc # "over",
         Enter(c, st)
  PROVE  Inv' /\ InTime
<1>1. CASE holder = None /\ queue = <<>> /\ Locked(c, st, <<>>)
  <2>1. <<>> \in Seq(Calls)
    OBVIOUS
  <2> QED
    BY <1>1, <2>1, LockedKeeps
<1>2. CASE /\ holder # None \/ queue # <<>>
           /\ queue' = Append(queue, c)
           /\ call' = [call EXCEPT ![c] = At(st, "gate", 0)]
           /\ UNCHANGED <<since, holder, quiet>>
  <2>1. Sound(c, At(st, "gate", 0)) /\ At(st, "gate", 0).pc = "gate"
    BY AtSound, Consts
  <2>2. queue' \in Seq(Calls)
    BY <1>2 DEF Inv, TypeOK
  <2> QED
    BY <1>2, <2>1, <2>2, OneCallMoves
<1> QED
  BY <1>1, <1>2 DEF Enter

\* A call that ends, by its own account or because it is cancelled.
LEMMA EndsKeeps ==
  ASSUME Inv, NEW c \in Calls, NEW answer \in {"none", "overdue"}, Ends(c, answer),
         since' = since, quiet' = quiet, queue' \in Seq(Calls),
         holder' = holder \/ (holder = c /\ holder' = None)
  PROVE  Inv' /\ InTime
<1>1. call[c].seen \in SUBSET Outcomes /\ answer \in Answers /\ answer \notin Outcomes /\ answer # "fault"
  BY DEF Inv, TypeOK, CallStates, Answers, Outcomes
<1>2. Sound(c, Over(answer, call[c].seen)) /\ Over(answer, call[c].seen).pc = "over"
  BY <1>1, OverSound
<1> QED
  BY <1>2, OneCallMoves DEF Ends

\* A response, or the lack of one.
LEMMA ReplyKeeps ==
  ASSUME Inv, NEW c \in Calls, NEW outcome \in Outcomes, Reply(c, outcome)
  PROVE  Inv' /\ InTime
<1>1. /\ Sound(c, call[c]) /\ call[c].pc = "sending" /\ queue \in Seq(Calls)
      /\ since' = since /\ quiet' = quiet /\ queue' = queue /\ holder' = holder
  BY DEF Reply, Inv, AllSound, TypeOK
<1>2. /\ call[c] \in CallStates
      /\ call[c].seen \subseteq Transient(c)
      /\ call[c].kept <=> "gateway" \in call[c].seen
  BY <1>1 DEF Sound
<1>3. Heard(c, outcome) \in SUBSET Outcomes /\ outcome \in Heard(c, outcome)
  BY <1>2 DEF Heard, CallStates
<1>4. Outcomes \subseteq Answers /\ "overdue" \in Answers /\ "overdue" \notin Outcomes
  BY DEF Answers, Outcomes
<1>5. ASSUME NEW answer \in Answers, Answer(c, answer, outcome),
             answer \in Outcomes => answer \in Heard(c, outcome),
             answer = "fault" => Heard(c, outcome) = {"fault"}
      PROVE  Inv' /\ InTime
  <2>1. Sound(c, Over(answer, Heard(c, outcome))) /\ Over(answer, Heard(c, outcome)).pc = "over"
    BY <1>3, <1>5, OverSound
  <2> QED
    BY <2>1, <1>1, <1>5, OneCallMoves DEF Answer
<1>6. ASSUME BackOff(c, outcome), call[c].attempt # Retries, outcome \in Transient(c),
             c \in Budgeted => call[c].budget > call[c].pause
      PROVE  Inv' /\ InTime
  <2> DEFINE st == BackedOff(c, outcome)
             longer == IF c \in Budgeted THEN call[c].pause + Backoff ELSE 2 * call[c].pause
  <2>1. call[c].attempt + 1 \in 0..Retries
    BY <1>2, <1>6, Consts DEF CallStates
  <2>2. longer \in Nat /\ call[c].pause \in Nat
    BY <1>2, Consts DEF CallStates
  <2>3. st = [pc |-> "backoff", attempt |-> call[c].attempt + 1, pause |-> longer,
              left |-> call[c].pause, budget |-> call[c].budget,
              kept |-> (call[c].kept \/ outcome = "gateway"), seen |-> Heard(c, outcome), answer |-> "none"]
    BY DEF BackedOff, State
  <2>4. st.pc = "backoff" /\ st.left = call[c].pause /\ st.budget = call[c].budget
        /\ st.answer = "none" /\ st.seen = Heard(c, outcome)
        /\ st.kept = (call[c].kept \/ outcome = "gateway")
    BY <2>3
  <2>5. st \in CallStates
    <3>1. "backoff" \in Standing /\ "none" \in Answers
      BY DEF Standing, Answers
    <3>2. (call[c].kept \/ outcome = "gateway") \in BOOLEAN
      BY <1>2 DEF CallStates
    <3> HIDE DEF st, longer
    <3> QED
      BY <2>1, <2>2, <2>3, <3>1, <3>2, <1>2, <1>3 DEF CallStates
  <2>6. st.kept <=> "gateway" \in st.seen
    BY <2>4, <1>2 DEF Heard
  <2>7. st.seen \subseteq Transient(c)
    BY <2>4, <1>2, <1>6 DEF Heard
  <2>8. "none" \notin Outcomes
    BY DEF Outcomes
  <2>9. c \in Budgeted => st.left < st.budget
    <3>1. call[c].budget \in Nat
      BY <1>2, Consts DEF CallStates
    <3> QED
      BY <2>2, <2>4, <3>1, <1>6
  <2> HIDE DEF st
  <2>10. Sound(c, st)
    BY <2>4, <2>5, <2>6, <2>7, <2>8, <2>9 DEF Sound
  <2>11. call' = [call EXCEPT ![c] = st]
    BY <1>6 DEF BackOff, st
  <2> QED
    BY <2>4, <2>10, <2>11, <1>1, OneCallMoves
<1>7. CASE c \notin Budgeted /\ RetriesReply(c, outcome)
  <2>1. CASE call[c].attempt # Retries /\ outcome \in {"gateway", "fault"} /\ BackOff(c, outcome)
    BY <2>1, <1>6, <1>7 DEF Transient
  <2>2. CASE outcome = "fault" /\ Answer(c, IF call[c].kept THEN "gateway" ELSE "fault", outcome)
    <3>1. CASE call[c].kept
      <4>1. "gateway" \in Heard(c, outcome) /\ "gateway" \in Answers
        BY <3>1, <1>2, <1>4 DEF Heard, Outcomes
      <4> QED
        BY <2>2, <3>1, <4>1, <1>5
    <3>2. CASE ~call[c].kept
      <4>1. Heard(c, outcome) = {"fault"} /\ "fault" \in Answers
        BY <2>2, <3>2, <1>2, <1>4, <1>7 DEF Heard, Transient, Outcomes
      <4> QED
        BY <2>2, <3>2, <4>1, <1>3, <1>5
    <3> QED
      BY <3>1, <3>2
  <2>3. CASE outcome # "fault" /\ Answer(c, outcome, outcome)
    BY <2>3, <1>3, <1>4, <1>5
  <2> QED
    BY <1>7, <2>1, <2>2, <2>3 DEF RetriesReply
<1>8. CASE c \in Budgeted /\ BudgetedReply(c, outcome)
  <2>1. CASE outcome # "fault" /\ Answer(c, outcome, outcome)
    BY <2>1, <1>3, <1>4, <1>5
  <2>2. CASE outcome = "fault" /\ Answer(c, "fault", outcome)
    <3>1. Heard(c, outcome) = {"fault"} /\ "fault" \in Answers
      BY <2>2, <1>2, <1>4, <1>8 DEF Heard, Transient, Outcomes
    <3> QED
      BY <2>2, <3>1, <1>3, <1>5
  <2>3. CASE Answer(c, "overdue", outcome)
    BY <2>3, <1>4, <1>5
  <2>4. CASE /\ outcome = "fault" /\ call[c].attempt # Retries
             /\ call[c].budget > call[c].pause /\ BackOff(c, outcome)
    BY <2>4, <1>6, <1>8 DEF Transient
  <2> QED
    BY <1>8, <2>1, <2>2, <2>3, <2>4 DEF BudgetedReply
<1> QED
  BY <1>7, <1>8 DEF Reply

-----------------------------------------------------------------------------

LEMMA InitInv == Init => Inv
<1> SUFFICES ASSUME Init PROVE Inv
  OBVIOUS
<1>1. \A c \in Calls : Sound(c, Over("none", {})) /\ Over("none", {}).pc = "over"
  <2>1. "none" \in Answers /\ "none" \notin Outcomes
    BY DEF Answers, Outcomes
  <2> QED
    BY <2>1, OverSound
<1>2. call = [c \in Calls |-> Over("none", {})] /\ since = MinGap /\ quiet = MinGap
      /\ holder = None /\ queue = <<>>
  BY DEF Init
<1>3. MinGap \in 0..MinGap /\ <<>> \in Seq(Calls)
  BY Consts
<1>4. call \in [Calls -> CallStates]
  BY <1>1, <1>2 DEF Sound
<1> QED
  BY <1>1, <1>2, <1>3, <1>4 DEF Inv, TypeOK, AllSound, Limited

LEMMA StepInv == Inv /\ [Next]_vars => Inv' /\ InTime
<1> SUFFICES ASSUME Inv, [Next]_vars PROVE Inv' /\ InTime
  OBVIOUS
<1>a. queue \in Seq(Calls) /\ since \in 0..MinGap /\ quiet \in 0..MinGap /\ since = quiet
  BY DEF Inv, TypeOK, Limited
<1>b. \A c \in Calls : Sound(c, call[c])
  BY DEF Inv, AllSound
<1>1. ASSUME NEW c \in Calls, Begin(c)
      PROVE  Inv' /\ InTime
  <2>1. Sound(c, Started(c)) /\ Started(c).pc = "gate"
    BY StartedSound
  <2>2. CASE c \notin Budgeted /\ Enter(c, Started(c))
    BY <2>1, <2>2, EnterKeeps
  <2>3. CASE c \in Budgeted /\ Pass(c, Started(c)) /\ UNCHANGED <<since, holder, queue, quiet>>
    <3>1. CASE Started(c).budget = 0
      <4>1. Passed(c, Started(c)) = Over("overdue", {})
        BY <2>3, <3>1 DEF Passed, Started, State
      <4>2. "overdue" \in Answers /\ "overdue" \notin Outcomes
        BY DEF Answers, Outcomes
      <4>3. Sound(c, Over("overdue", {})) /\ Over("overdue", {}).pc = "over"
        BY <4>2, OverSound
      <4> QED
        BY <2>3, <4>1, <4>3, <1>a, OneCallMoves DEF Pass
    <3>2. CASE Started(c).budget # 0
      <4>1. Passed(c, Started(c)) = At(Started(c), "sending", 0)
        BY <3>2 DEF Passed
      <4>2. /\ Sound(c, At(Started(c), "sending", 0))
            /\ At(Started(c), "sending", 0).pc = "sending"
            /\ At(Started(c), "sending", 0).budget = Started(c).budget
        BY <2>1, AtSound, Consts
      <4>3. Started(c).budget > 0
        BY <2>1, <3>2, Consts DEF Sound, CallStates
      <4>4. call[c].pc = "over"
        BY <1>1 DEF Begin
      <4> QED
        BY <2>3, <4>1, <4>2, <4>3, <4>4, <1>a, OneCallMoves DEF Pass
    <3> QED
      BY <3>1, <3>2
  <2> QED
    BY <1>1, <2>2, <2>3 DEF Begin
<1>2. ASSUME NEW c \in Calls, Turn(c)
      PROVE  Inv' /\ InTime
  <2>1. /\ holder = None /\ call[c].pc = "gate" /\ Tail(queue) \in Seq(Calls)
        /\ Locked(c, call[c], Tail(queue))
    BY <1>2, <1>a DEF Turn
  <2> QED
    BY <2>1, <1>b, LockedKeeps
<1>3. ASSUME NEW c \in Calls, Wake(c)
      PROVE  Inv' /\ InTime
  <2>1. /\ call[c].pc = "pacing" /\ call[c].left = 0 /\ holder' = None /\ queue' = queue
        /\ Stamp(c, call[c])
    BY <1>3 DEF Wake
  <2>2. holder = c /\ quiet + 0 >= MinGap
    BY <2>1 DEF Inv, Limited
  <2>3. quiet >= MinGap
    BY <2>2, <1>a, Consts
  <2>4. \A d \in Calls \ {c} : call[d].pc # "pacing"
    BY <2>2 DEF Inv, Limited
  <2> QED
    BY <2>1, <2>3, <2>4, <1>a, <1>b, StampKeeps
<1>4. ASSUME NEW c \in Calls, Retry(c)
      PROVE  Inv' /\ InTime
  <2>1. CASE /\ Ends(c, "overdue")
             /\ UNCHANGED <<since, holder, queue, quiet>>
    BY <2>1, <1>a, EndsKeeps
  <2>2. CASE Enter(c, call[c])
    <3>1. call[c].pc # "over"
      BY <1>4 DEF Retry
    <3> QED
      BY <2>2, <3>1, <1>b, EnterKeeps
  <2> QED
    BY <1>4, <2>1, <2>2 DEF Retry
<1>5. ASSUME NEW c \in Calls, NEW outcome \in Outcomes, Reply(c, outcome)
      PROVE  Inv' /\ InTime
  BY <1>5, ReplyKeeps
<1>6. ASSUME NEW c \in Calls, AttemptTimesOut(c)
      PROVE  Inv' /\ InTime
  BY <1>6, <1>a, EndsKeeps DEF AttemptTimesOut
<1>7. ASSUME NEW c \in Calls, GateTimesOut(c) \/ Cancel(c)
      PROVE  Inv' /\ InTime
  <2>1. LeaveLimiter(c) /\ (Ends(c, "overdue") \/ Ends(c, "none")) /\ since' = since /\ quiet' = quiet
    BY <1>7 DEF GateTimesOut, Cancel
  <2>2. queue' \in Seq(Calls)
    BY <2>1, <1>a, WithoutSeq DEF LeaveLimiter
  <2>3. holder' = holder \/ (holder = c /\ holder' = None)
    BY <2>1 DEF LeaveLimiter
  <2> QED
    BY <2>1, <2>2, <2>3, EndsKeeps
<1>8. CASE Tick
  <2>1. /\ since' = Min2(MinGap, since + 1) /\ quiet' = Min2(MinGap, quiet + 1)
        /\ holder' = holder /\ queue' = queue
        /\ call' = [c \in Calls |-> Elapsed(call[c])]
    BY <1>8 DEF Tick
  <2>2. since' \in 0..MinGap /\ quiet' \in 0..MinGap /\ since' = quiet'
    BY <2>1, <1>a, Consts DEF Min2
  <2>3. ASSUME NEW c \in Calls
        PROVE  /\ Sound(c, call'[c])
               /\ call'[c].pc = call[c].pc
               /\ call'[c].left = Max2(0, call[c].left - 1)
    <3>1. call[c] \in CallStates
      BY <1>b DEF Sound
    <3>2. Max2(0, call[c].left - 1) \in Nat /\ Max2(0, call[c].budget - 1) \in 0..Budget
      BY <3>1, Consts DEF CallStates, Max2
    <3>3. call'[c] = [pc |-> call[c].pc, attempt |-> call[c].attempt, pause |-> call[c].pause,
                      left |-> Max2(0, call[c].left - 1), budget |-> Max2(0, call[c].budget - 1),
                      kept |-> call[c].kept, seen |-> call[c].seen, answer |-> call[c].answer]
      BY <2>1 DEF Elapsed, State
    <3>4. call'[c] \in CallStates
      BY <3>1, <3>2, <3>3 DEF CallStates
    <3>5. \A l, b \in Nat : (l > 0 => l < b) => (Max2(0, l - 1) > 0 => Max2(0, l - 1) < Max2(0, b - 1))
      BY DEF Max2
    <3>6. call[c].left \in Nat /\ call[c].budget \in Nat
      BY <3>1, Consts DEF CallStates
    <3>7. c \in Budgeted /\ call[c].pc = "backoff" /\ Max2(0, call[c].left - 1) > 0
            => Max2(0, call[c].left - 1) < Max2(0, call[c].budget - 1)
      BY <1>b, <3>5, <3>6 DEF Sound
    <3> QED
      BY <1>b, <3>3, <3>4, <3>7 DEF Sound
  <2>4. TypeOK'
    <3>1. call' \in [Calls -> CallStates]
      BY <2>1, <2>3 DEF Sound
    <3> QED
      BY <2>1, <2>2, <3>1 DEF Inv, TypeOK
  <2>5. AllSound'
    BY <2>3 DEF AllSound
  <2>6. Limited'
    <3>1. ASSUME NEW c \in Calls, call'[c].pc = "pacing"
          PROVE  holder' = c /\ quiet' + call'[c].left >= MinGap
      <4>1. holder = c /\ quiet + call[c].left >= MinGap /\ call[c].left \in Nat
        BY <2>3, <3>1, <1>b DEF Inv, Limited, Sound, CallStates
      <4>2. \A q, l, g \in Nat : q + l >= g => Min2(g, q + 1) + Max2(0, l - 1) >= g
        BY DEF Min2, Max2
      <4>3. Min2(MinGap, quiet + 1) + Max2(0, call[c].left - 1) >= MinGap
        BY <4>1, <4>2, <1>a, Consts
      <4> QED
        BY <2>1, <2>3, <4>1, <4>3
    <3> QED
      BY <2>2, <3>1 DEF Limited
  <2>7. InTime
    BY <2>3 DEF InTime, Sends
  <2> QED
    BY <2>4, <2>5, <2>6, <2>7 DEF Inv
<1>9. CASE UNCHANGED vars
  BY <1>9 DEF vars, Inv, TypeOK, AllSound, Limited, InTime, Sends
<1> QED
  BY <1>1, <1>2, <1>3, <1>4, <1>5, <1>6, <1>7, <1>8, <1>9 DEF Next

-----------------------------------------------------------------------------

\* The limiter and the calls stay well formed; no call outlives its retries.
THEOREM TypeCorrect == Spec => []TypeOK
<1>1. Inv => TypeOK
  BY DEF Inv
<1> QED
  BY InitInv, StepInv, <1>1, PTL DEF Spec

\* Neither a 429 nor any other answer a repeat cannot change is ever retried.
THEOREM NothingElseRetried == Spec => []OnlyTransientRetried
<1>1. Inv => OnlyTransientRetried
  BY DEF Inv, AllSound, Sound, OnlyTransientRetried, Transient
<1> QED
  BY InitInv, StepInv, <1>1, PTL DEF Spec

\* A call returns what it was told, and a transport error only if told nothing.
THEOREM AnswersAreReal == Spec => []AnswerIsReal
<1>1. Inv => AnswerIsReal
  BY DEF Inv, AllSound, Sound, AnswerIsReal
<1> QED
  BY InitInv, StepInv, <1>1, PTL DEF Spec

\* Attempts that go through the limiter are never closer than its gap, whatever
\* is cancelled or times out in it.
THEOREM GapAlwaysKept == Spec => GapKept
<1>1. ASSUME Inv, [Next]_vars
      PROVE  \A c \in Calls : Sends(c) /\ Paced(c) => quiet >= MinGap
  BY <1>1, StepInv DEF InTime
<1>2. Inv /\ [Next]_vars => [\A c \in Calls : Sends(c) /\ Paced(c) => quiet >= MinGap]_vars
  BY <1>1
<1> QED
  BY InitInv, StepInv, <1>2, PTL DEF Spec, GapKept

\* No attempt begins after the deadline, no backoff outlasts it.
THEOREM DeadlineAlwaysKept == Spec => DeadlineKept
<1> DEFINE Kept ==
      \A c \in Budgeted :
        /\ Sends(c) => call'[c].budget > 0
        /\ call'[c].pc = "backoff" /\ call'[c].left > 0 => call'[c].left < call'[c].budget
<1>1. ASSUME Inv, [Next]_vars
      PROVE  Kept
  <2>1. Inv' /\ InTime /\ Budgeted \subseteq Calls
    BY <1>1, StepInv, Consts
  <2>2. \A c \in Budgeted : Sound(c, call[c])'
    BY <2>1 DEF Inv, AllSound
  <2> QED
    BY <2>1, <2>2 DEF InTime, Sound
<1>2. Inv /\ [Next]_vars => [Kept]_vars
  BY <1>1
<1> QED
  BY InitInv, StepInv, <1>2, PTL DEF Spec, DeadlineKept
=============================================================================
