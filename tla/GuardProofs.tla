----------------------------- MODULE GuardProofs -----------------------------
(***************************************************************************)
(* Theorems about the two guards before a source, for every number of      *)
(* calls: the pacer's, for every gap, and then those of the cache as it    *)
(* stands beside the pacer, for every number of pages, bound and lifetime. *)
(*                                                                         *)
(* A step of the two guards is a step of the cache or leaves it alone, so  *)
(* that what TTLCacheProofs shows of the cache holds of it here.           *)
(***************************************************************************)
EXTENDS MCPacerCache, SequenceTheorems, TLAPS

CP == INSTANCE TTLCacheProofs WITH holder <- fetcher, queue <- line, caller <- reader


\* Whoever sleeps holds the lock, so nobody else sends meanwhile, and what is
\* left of the sleep covers what is left of the gap.
SleeperHoldsLock ==
  \A c \in Callers : caller[c].pc = "sleeping" =>
    holder = c /\ quiet + caller[c].left >= caller[c].gap

\* Nothing but a sent request moves the pacer's clock, and a call keeps a gap
\* no smaller than the one it asked for or the penalty it found.
Paced ==
  /\ since = quiet
  /\ \A c \in Callers : /\ caller[c].gap >= caller[c].asked
                        /\ caller[c].owes => caller[c].gap >= ErrorDelay

\* The holder of the lock is asleep with it.
HolderBusy == \A c \in Callers : holder = c => caller[c].pc = "sleeping"

Inv == TypeOK /\ SleeperHoldsLock /\ HolderBusy /\ Paced

\* What a call has when it begins to wait.
Fair(call) ==
  /\ call \in Calls
  /\ call.gap >= call.asked
  /\ call.owes => call.gap >= ErrorDelay

-----------------------------------------------------------------------------

\* A caller that gives up leaves a queue of callers.
LEMMA WithoutSeq ==
  ASSUME NEW q \in Seq(Callers), NEW c \in Callers
  PROVE  Without(q, c) \in Seq(Callers)
<1>1. CASE ~\E i \in 1..Len(q) : q[i] = c
  BY <1>1 DEF Without
<1>2. CASE \E i \in 1..Len(q) : q[i] = c
  <2> DEFINE i == CHOOSE j \in 1..Len(q) : q[j] = c
  <2>1. i \in 1..Len(q)
    BY <1>2
  <2> HIDE DEF i
  <2>2. /\ SubSeq(q, 1, i - 1) \in Seq(Callers)
        /\ SubSeq(q, i + 1, Len(q)) \in Seq(Callers)
    BY <2>1
  <2>3. RemoveAt(q, i) \in Seq(Callers)
    BY <2>2 DEF RemoveAt
  <2> QED
    BY <1>2, <2>3 DEF Without, i
<1> QED
  BY <1>1, <1>2

\* What wait() computes before it asks for the lock.
LEMMA AskFair ==
  ASSUME Inv, NEW g \in Gaps, NEW j \in 0..Jitter
  PROVE  /\ Fair(Ask(g, j))
         /\ Ask(g, j).pc = "waiting"
         /\ Ask(g, j).asked = g
         /\ Ask(g, j).owes = penalised
<1>0. /\ g \in Nat /\ ErrorDelay \in Nat /\ Far \in Nat /\ Jitter \in Nat
      /\ g + Jitter <= Far /\ ErrorDelay + Jitter <= Far
  BY PacerAssumption
<1>1. /\ g \in Nat /\ j \in Nat /\ ErrorDelay \in Nat /\ Far \in Nat /\ j <= Jitter
      /\ g + j <= Far /\ ErrorDelay + j <= Far
  BY <1>0
<1>2. Kept(g, j) \in 0..Far /\ Kept(g, j) >= g /\ (penalised => Kept(g, j) >= ErrorDelay)
  BY <1>1 DEF Kept, Max2
<1>3. Ask(g, j) = [pc |-> "waiting", asked |-> g, gap |-> Kept(g, j), owes |-> penalised, left |-> 0]
  BY DEF Ask, Call
<1>4. penalised \in BOOLEAN
  BY DEF Inv, TypeOK
<1>5. g \in 0..Far /\ 0 \in 0..Far
  BY <1>1
<1> QED
  BY <1>2, <1>3, <1>4, <1>5 DEF Fair, Calls, Standing

\* A call that sends with the lock in hand sends in time.
LEMMA SendNowKeeps ==
  ASSUME Inv, NEW c \in Callers, NEW call, Fair(call), NEW others \in Seq(Callers),
         holder = None, SendNow(c, call, others)
  PROVE  /\ Inv'
         /\ \A d \in Callers : Sends(d) => quiet >= caller'[d].asked
         /\ \A d \in Callers : Sends(d) /\ caller'[d].owes => quiet >= ErrorDelay
<1> DEFINE sent == Sent(call)
<1>1. /\ since >= call.gap /\ since' = 0 /\ quiet' = 0 /\ penalised' = FALSE
      /\ holder' = None /\ queue' = others /\ refusals' = refusals
      /\ caller' = [caller EXCEPT ![c] = sent]
  BY DEF SendNow
<1>2. /\ call \in Calls
      /\ call.gap >= call.asked
      /\ call.owes => call.gap >= ErrorDelay
  BY DEF Fair
<1>3. /\ sent \in Calls
      /\ sent.pc = "sent" /\ sent.asked = call.asked /\ sent.gap = call.gap /\ sent.owes = call.owes
  <2>1. Far \in Nat
    BY PacerAssumption
  <2> QED
    BY <1>2, <2>1 DEF Standing, Calls, Sent, Call
<1> HIDE DEF sent
<1>4. \A d \in Callers : caller'[d] = IF d = c THEN sent ELSE caller[d]
  BY <1>1 DEF Inv, TypeOK
<1>5. Far \in Nat /\ ErrorDelay \in Nat /\ None \notin Callers
  BY PacerAssumption
<1>6. TypeOK'
  <2>1. caller' \in [Callers -> Calls]
    BY <1>1, <1>3 DEF Inv, TypeOK
  <2>2. 0 \in 0..Far
    BY <1>5
  <2> QED
    BY <1>1, <2>1, <2>2 DEF Inv, TypeOK
<1>7. SleeperHoldsLock'
  <2>1. \A d \in Callers : caller[d].pc # "sleeping"
    BY <1>5 DEF Inv, SleeperHoldsLock
  <2> QED
    BY <2>1, <1>3, <1>4 DEF SleeperHoldsLock
<1>8. Paced'
  BY <1>1, <1>2, <1>3, <1>4 DEF Inv, Paced
<1>9. since = quiet /\ quiet \in Nat
  BY <1>5 DEF Inv, Paced, TypeOK
<1>10. ASSUME NEW d \in Callers, Sends(d)
       PROVE  quiet >= caller'[d].asked /\ (caller'[d].owes => quiet >= ErrorDelay)
  <2>1. d = c
    BY <1>4, <1>10 DEF Sends
  <2>2. quiet >= call.gap
    BY <1>1, <1>9
  <2>3. call.gap \in Nat /\ call.asked \in Nat /\ quiet \in Nat /\ ErrorDelay \in Nat
    BY <1>2, <1>5, <1>9 DEF Calls
  <2>4. caller'[d].asked = call.asked /\ caller'[d].owes = call.owes
    BY <2>1, <1>3, <1>4
  <2>5. quiet >= call.asked /\ (call.owes => quiet >= ErrorDelay)
    BY <2>2, <2>3, <1>2
  <2> QED
    BY <2>4, <2>5
<1>11. HolderBusy'
  BY <1>1, <1>5 DEF HolderBusy
<1> QED
  BY <1>6, <1>7, <1>8, <1>10, <1>11 DEF Inv

\* A call that goes to sleep with the lock sleeps long enough.
LEMMA SleepFirstKeeps ==
  ASSUME Inv, NEW c \in Callers, NEW call, Fair(call), NEW others \in Seq(Callers),
         holder = None, SleepFirst(c, call, others)
  PROVE  Inv' /\ \A d \in Callers : ~Sends(d)
<1> DEFINE slept == Asleep(call)
<1>1. /\ since < call.gap /\ since' = since /\ quiet' = quiet /\ penalised' = penalised
      /\ holder' = c /\ queue' = others /\ refusals' = refusals
      /\ caller' = [caller EXCEPT ![c] = slept]
  BY DEF SleepFirst
<1>2. /\ call \in Calls
      /\ call.gap >= call.asked
      /\ call.owes => call.gap >= ErrorDelay
  BY DEF Fair
<1>3. Far \in Nat /\ ErrorDelay \in Nat /\ None \notin Callers
  BY PacerAssumption
<1>4. since \in 0..Far /\ quiet = since
  BY DEF Inv, TypeOK, Paced
<1>5. call.gap \in Nat /\ quiet + (call.gap - since) = call.gap
  BY <1>2, <1>3, <1>4 DEF Calls
<1>5a. call.gap - since \in 0..Far
  <2>1. call.gap \in 0..Far
    BY <1>2 DEF Calls
  <2> QED
    BY <1>1, <1>3, <1>4, <2>1
<1>6. /\ slept \in Calls
      /\ slept.pc = "sleeping" /\ slept.asked = call.asked /\ slept.gap = call.gap
      /\ slept.owes = call.owes /\ slept.left = call.gap - since
  BY <1>2, <1>5a DEF Standing, Calls, Asleep, Call
<1> HIDE DEF slept
<1>7. \A d \in Callers : caller'[d] = IF d = c THEN slept ELSE caller[d]
  BY <1>1 DEF Inv, TypeOK
<1>8. TypeOK'
  <2>1. caller' \in [Callers -> Calls]
    BY <1>1, <1>6 DEF Inv, TypeOK
  <2> QED
    BY <1>1, <2>1 DEF Inv, TypeOK
<1>9. SleeperHoldsLock'
  <2>1. \A d \in Callers : caller[d].pc # "sleeping"
    BY <1>3 DEF Inv, SleeperHoldsLock
  <2>2. quiet + slept.left >= slept.gap
    BY <1>5, <1>6
  <2> QED
    BY <2>1, <2>2, <1>1, <1>7 DEF SleeperHoldsLock
<1>10. Paced'
  BY <1>1, <1>2, <1>6, <1>7 DEF Inv, Paced
<1>11. \A d \in Callers : ~Sends(d)
  BY <1>6, <1>7 DEF Sends
<1>12. HolderBusy'
  BY <1>1, <1>6, <1>7 DEF HolderBusy
<1> QED
  BY <1>8, <1>9, <1>10, <1>11, <1>12 DEF Inv

-----------------------------------------------------------------------------

LEMMA InitInv == Init => Inv
<1> SUFFICES ASSUME Init PROVE Inv
  OBVIOUS
<1>1. Far \in Nat /\ Threshold \in Nat /\ ErrorDelay \in Nat
  BY PacerAssumption
<1>2. NoCall \in Calls /\ NoCall.pc = "idle" /\ NoCall.asked = 0 /\ NoCall.gap = 0 /\ NoCall.owes = FALSE
  BY <1>1 DEF NoCall, Call, Calls, Standing
<1>3. \A c \in Callers : caller[c] = NoCall
  BY DEF Init
<1>4. TypeOK
  <2>1. caller \in [Callers -> Calls] /\ Far \in 0..Far /\ 0 \in 0..Threshold /\ <<>> \in Seq(Callers)
    BY <1>1, <1>2 DEF Init
  <2> QED
    BY <2>1 DEF Init, TypeOK
<1>5. SleeperHoldsLock /\ HolderBusy /\ Paced
  <2>1. None \notin Callers /\ 0 >= 0
    BY PacerAssumption
  <2> QED
    BY <1>2, <1>3, <2>1 DEF Init, SleeperHoldsLock, HolderBusy, Paced
<1> QED
  BY <1>4, <1>5 DEF Inv

\* What a step may not do: send too early.
InTime ==
  \A c \in Callers : Sends(c) =>
    /\ quiet >= caller'[c].asked
    /\ caller'[c].owes => quiet >= ErrorDelay

\* One call's record changes and it does not send, nor begin to sleep.
LEMMA OneCallMoves ==
  ASSUME Inv, NEW c \in Callers, NEW call, Fair(call), call.pc \notin {"sent", "sleeping"},
         caller' = [caller EXCEPT ![c] = call],
         since' = since, quiet' = quiet, refusals' \in 0..Threshold, penalised' \in BOOLEAN,
         queue' \in Seq(Callers),
         holder' = IF holder = c THEN None ELSE holder
  PROVE  Inv' /\ InTime
<1>1. \A d \in Callers : caller'[d] = IF d = c THEN call ELSE caller[d]
  BY DEF Inv, TypeOK
<1>2. call \in Calls
  BY DEF Fair
<1>3. TypeOK'
  <2>1. caller' \in [Callers -> Calls]
    BY <1>2 DEF Inv, TypeOK
  <2>2. holder' \in Callers \union {None}
    BY DEF Inv, TypeOK
  <2> QED
    BY <2>1, <2>2 DEF Inv, TypeOK
<1>4. SleeperHoldsLock'
  BY <1>1 DEF Inv, SleeperHoldsLock
<1>5. Paced'
  BY <1>1 DEF Inv, Paced, Fair
<1>6. InTime
  BY <1>1 DEF InTime, Sends
<1>7. HolderBusy'
  <2>1. None \notin Callers
    BY PacerAssumption
  <2> QED
    BY <1>1, <2>1 DEF Inv, HolderBusy
<1> QED
  BY <1>3, <1>4, <1>5, <1>6, <1>7 DEF Inv

LEMMA StepInv == Inv /\ [Next]_vars => Inv' /\ InTime
<1> SUFFICES ASSUME Inv, [Next]_vars PROVE Inv' /\ InTime
  OBVIOUS
<1>a. Far \in Nat /\ Threshold \in Nat \ {0} /\ ErrorDelay \in Nat /\ None \notin Callers
  BY PacerAssumption
<1>b. Fair(NoCall) /\ NoCall.pc = "idle"
  BY <1>a DEF NoCall, Call, Calls, Standing, Fair
<1>c. queue \in Seq(Callers) /\ refusals \in 0..Threshold /\ penalised \in BOOLEAN
  BY DEF Inv, TypeOK
<1>1. ASSUME NEW c \in Callers, NEW g \in Gaps, NEW j \in 0..Jitter, WaitAtOnce(c, g, j)
      PROVE  Inv' /\ InTime
  <2>1. Fair(Ask(g, j)) /\ holder = None /\ <<>> \in Seq(Callers)
    BY <1>1, AskFair DEF WaitAtOnce, LockFree
  <2>2. CASE SendNow(c, Ask(g, j), <<>>)
    BY <2>1, <2>2, SendNowKeeps DEF InTime
  <2>3. CASE SleepFirst(c, Ask(g, j), <<>>)
    BY <2>1, <2>3, SleepFirstKeeps DEF InTime
  <2> QED
    BY <1>1, <2>2, <2>3 DEF WaitAtOnce
<1>2. ASSUME NEW c \in Callers, NEW g \in Gaps, NEW j \in 0..Jitter, QueueForLock(c, g, j)
      PROVE  Inv' /\ InTime
  <2>1. Fair(Ask(g, j)) /\ Ask(g, j).pc = "waiting"
    BY AskFair
  <2>2. queue' \in Seq(Callers)
    BY <1>2, <1>c DEF QueueForLock
  <2>3. holder # c
    BY <1>2 DEF Inv, HolderBusy, QueueForLock
  <2> QED
    BY <1>2, <1>c, <2>1, <2>2, <2>3, OneCallMoves DEF QueueForLock
<1>3. ASSUME NEW c \in Callers, Turn(c)
      PROVE  Inv' /\ InTime
  <2>1. Fair(caller[c]) /\ holder = None /\ Tail(queue) \in Seq(Callers)
    BY <1>3, <1>c DEF Turn, Inv, TypeOK, Paced, Fair
  <2>2. CASE SendNow(c, caller[c], Tail(queue))
    BY <2>1, <2>2, SendNowKeeps DEF InTime
  <2>3. CASE SleepFirst(c, caller[c], Tail(queue))
    BY <2>1, <2>3, SleepFirstKeeps DEF InTime
  <2> QED
    BY <1>3, <2>2, <2>3 DEF Turn
<1>4. ASSUME NEW c \in Callers, Wake(c)
      PROVE  Inv' /\ InTime
  <2> DEFINE sent == Sent(caller[c])
  <2>1. /\ caller[c].pc = "sleeping" /\ caller[c].left = 0
        /\ since' = 0 /\ quiet' = 0 /\ penalised' = FALSE /\ holder' = None
        /\ refusals' = refusals /\ queue' = queue
        /\ caller' = [caller EXCEPT ![c] = sent]
    BY <1>4 DEF Wake
  <2>2. caller[c] \in Calls /\ 0 \in 0..Far /\ quiet \in Nat
    BY <1>a DEF Inv, TypeOK
  <2>3. /\ sent \in Calls /\ sent.pc = "sent" /\ sent.asked = caller[c].asked
        /\ sent.gap = caller[c].gap /\ sent.owes = caller[c].owes
    BY <2>2 DEF Sent, Call, Calls, Standing
  <2> HIDE DEF sent
  <2>4. \A d \in Callers : caller'[d] = IF d = c THEN sent ELSE caller[d]
    BY <2>1 DEF Inv, TypeOK
  <2>5. TypeOK'
    <3>1. caller' \in [Callers -> Calls]
      BY <2>1, <2>3 DEF Inv, TypeOK
    <3> QED
      BY <3>1, <2>1, <2>2, <1>c DEF TypeOK
  <2>6. SleeperHoldsLock'
    <3>1. \A d \in Callers : caller[d].pc = "sleeping" => d = c
      BY <2>1 DEF Inv, SleeperHoldsLock
    <3> QED
      BY <3>1, <2>3, <2>4 DEF SleeperHoldsLock
  <2>7. Paced'
    BY <2>1, <2>3, <2>4 DEF Inv, Paced
  <2>8. InTime
    <3>1. /\ caller[c].gap \in Nat /\ caller[c].asked \in Nat
          /\ quiet + 0 >= caller[c].gap
      BY <2>1, <2>2 DEF Inv, SleeperHoldsLock, Calls
    <3>2. quiet >= caller[c].asked /\ (caller[c].owes => quiet >= ErrorDelay)
      BY <3>1, <2>2, <1>a DEF Inv, Paced
    <3> QED
      BY <3>2, <2>3, <2>4 DEF InTime, Sends
  <2>9. HolderBusy'
    BY <2>1, <1>a DEF HolderBusy
  <2> QED
    BY <2>5, <2>6, <2>7, <2>8, <2>9 DEF Inv
<1>5. ASSUME NEW c \in Callers, Cancel(c)
      PROVE  Inv' /\ InTime
  <2>1. queue' \in Seq(Callers)
    BY <1>5, <1>c, WithoutSeq DEF Cancel
  <2> QED
    BY <1>5, <1>b, <1>c, <2>1, OneCallMoves DEF Cancel
<1>6. ASSUME NEW c \in Callers, RecordSuccess(c) \/ RecordRefusal(c) \/ RecordNothing(c)
      PROVE  Inv' /\ InTime
  <2>1. /\ caller' = [caller EXCEPT ![c] = NoCall] /\ since' = since /\ quiet' = quiet
        /\ queue' = queue /\ holder' = holder /\ caller[c].pc = "sent"
    BY <1>6 DEF RecordSuccess, RecordRefusal, RecordNothing
  <2>2. refusals' \in 0..Threshold /\ penalised' \in BOOLEAN
    <3>1. Threshold \in Nat /\ refusals \in Nat /\ refusals <= Threshold
      BY <1>a, <1>c
    <3>2. Min2(Threshold, refusals + 1) \in 0..Threshold /\ 0 \in 0..Threshold
      BY <3>1 DEF Min2
    <3> QED
      BY <1>6, <1>c, <3>2 DEF RecordSuccess, RecordRefusal, RecordNothing
  <2>3. holder # c
    BY <2>1 DEF Inv, HolderBusy
  <2> QED
    BY <1>b, <1>c, <2>1, <2>2, <2>3, OneCallMoves
<1>7. CASE Tick
  <2>1. /\ since' = Min2(Far, since + 1) /\ quiet' = Min2(Far, quiet + 1)
        /\ UNCHANGED <<penalised, refusals, holder, queue>>
        /\ caller' = [c \in Callers |-> Elapsed(caller[c])]
    BY <1>7 DEF Tick
  <2>2. \A c \in Callers : caller[c] \in Calls
    BY DEF Inv, TypeOK
  <2>3. ASSUME NEW c \in Callers
        PROVE  /\ caller'[c] \in Calls
               /\ caller'[c].pc = caller[c].pc /\ caller'[c].asked = caller[c].asked
               /\ caller'[c].gap = caller[c].gap /\ caller'[c].owes = caller[c].owes
               /\ caller'[c].left = Max2(0, caller[c].left - 1)
    <3>1. Max2(0, caller[c].left - 1) \in 0..Far
      BY <2>2, <1>a DEF Calls, Max2
    <3>2. caller'[c] = [pc |-> caller[c].pc, asked |-> caller[c].asked, gap |-> caller[c].gap,
                        owes |-> caller[c].owes, left |-> Max2(0, caller[c].left - 1)]
      BY <2>1 DEF Elapsed, Call
    <3> QED
      BY <3>1, <3>2, <2>2 DEF Calls
  <2>4. since \in 0..Far /\ quiet \in 0..Far /\ since' \in 0..Far /\ quiet' \in 0..Far
    BY <2>1, <1>a DEF Inv, TypeOK, Min2
  <2>5. TypeOK'
    BY <2>1, <2>3, <2>4 DEF Inv, TypeOK
  <2>6. ASSUME NEW c \in Callers, caller'[c].pc = "sleeping"
        PROVE  holder' = c /\ quiet' + caller'[c].left >= caller'[c].gap
    <3>1. holder = c /\ quiet + caller[c].left >= caller[c].gap
      BY <2>3, <2>6 DEF Inv, SleeperHoldsLock
    <3>2. \A q, l, f, g \in Nat : q + l >= g /\ g <= f =>
            (IF f < q + 1 THEN f ELSE q + 1) + (IF 0 > l - 1 THEN 0 ELSE l - 1) >= g
      OBVIOUS
    <3>3. caller[c].gap \in 0..Far /\ caller[c].left \in 0..Far
      BY <2>2 DEF Calls
    <3>4. quiet' = (IF Far < quiet + 1 THEN Far ELSE quiet + 1)
          /\ caller'[c].left = (IF 0 > caller[c].left - 1 THEN 0 ELSE caller[c].left - 1)
      BY <2>1, <2>3 DEF Min2, Max2
    <3>5. quiet' + caller'[c].left >= caller[c].gap
      BY <3>1, <3>2, <3>3, <3>4, <2>4, <1>a
    <3> QED
      BY <3>1, <3>5, <2>1, <2>3
  <2>7. Paced'
    BY <2>1, <2>3 DEF Inv, Paced
  <2>8. InTime
    BY <2>3 DEF InTime, Sends
  <2>9. HolderBusy'
    BY <2>1, <2>3 DEF Inv, HolderBusy
  <2> QED
    BY <2>5, <2>6, <2>7, <2>8, <2>9 DEF Inv, SleeperHoldsLock
<1>8. CASE UNCHANGED vars
  BY <1>8 DEF vars, Inv, TypeOK, SleeperHoldsLock, HolderBusy, Paced, InTime, Sends
<1> QED
  BY <1>1, <1>2, <1>3, <1>4, <1>5, <1>6, <1>7, <1>8 DEF Next

-----------------------------------------------------------------------------

\* Every reachable state of the pacer is well typed.
THEOREM TypeCorrect == Spec => []TypeOK
<1>1. Inv => TypeOK
  BY DEF Inv
<1> QED
  BY InitInv, StepInv, <1>1, PTL DEF Spec

\* Requests of one source are never closer than the gap their caller asked for,
\* or the error delay when it found the source penalised.
THEOREM GapAlwaysKept == Spec => GapKept
<1>1. Inv /\ [Next]_vars => InTime
  BY StepInv
<1>2. Inv /\ [Next]_vars =>
        [\A c \in Callers : Sends(c) =>
           /\ quiet >= caller'[c].asked
           /\ caller'[c].owes => quiet >= ErrorDelay]_vars
  BY <1>1 DEF InTime
<1> QED
  BY InitInv, StepInv, <1>2, PTL DEF Spec, GapKept

-----------------------------------------------------------------------------
\* Every step of the cache is one of those TTLCacheProofs speaks of, and so are
\* its beginnings and what it assumes of its constants.
LEMMA SameNext == C!Next => CP!Next
BY DEF C!Next, CP!Next, C!Hit, CP!Hit, C!MissAndFetch, CP!MissAndFetch, C!MissAndQueue, CP!MissAndQueue,
   C!TurnHit, CP!TurnHit, C!TurnMiss, CP!TurnMiss, C!FetchDone, CP!FetchDone, C!FetchEnds, CP!FetchEnds,
   C!Fetched, CP!Fetched, C!QueueLeft, CP!QueueLeft, C!Tick, CP!Tick, C!Enabled, CP!Enabled, C!Holds,
   CP!Holds, C!Live, CP!Live, C!At, CP!At, C!Dropped, CP!Dropped, C!Looked, CP!Looked, C!Stored,
   CP!Stored, C!Used, CP!Used, C!LockFree, CP!LockFree, C!NoCall, CP!NoCall, C!RemoveAt, CP!RemoveAt,
   C!RemoveFirst, CP!RemoveFirst, C!SelectInSeq, CP!SelectInSeq, C!Min, CP!Min

LEMMA SameInit == C!Init => CP!Init
BY DEF C!Init, CP!Init, C!NoCall, CP!NoCall

LEMMA SameAssumption == CP!CacheAssumption
BY CacheAssumed DEF C!CacheAssumption, CP!CacheAssumption

\* Beside the pacer the cache does what it does alone.
LEMMA GuardKeepsCache == GuardSpec => CP!Spec
<1>1. GuardInit => CP!Init
  BY SameInit DEF GuardInit
<1>2. [GuardNext]_<<part, vars, kept>> => [CP!Next]_(CP!vars)
  BY SameNext DEF GuardNext, kept, CP!vars
<1> QED
  BY <1>1, <1>2, PTL DEF GuardSpec, CP!Spec

\* get_or_fetch(): no call fetches a page while another fetches it or it is kept,
\* in however many tasks and however they are cancelled.
THEOREM SingleFlightAlways == GuardSpec => SingleFlight
<1>1. CP!Spec => CP!SingleFlight
  BY SameAssumption, CP!OneFlight
<1> QED
  BY <1>1, GuardKeepsCache, PTL DEF SingleFlight, C!SingleFlight, CP!SingleFlight, C!Starts, CP!Starts,
     C!Live, CP!Live, C!vars, CP!vars

\* put() and _fetch_parsed(): all a call ever finds is content, no more than the
\* bound of it, and only the page used longest ago makes room for another.
THEOREM CacheAlwaysKept == GuardSpec => CacheKept
<1>1. CP!Spec => [](CP!TypeOK /\ CP!ContentOnly)
  BY SameAssumption, CP!CacheSound
<1>2. CP!Spec => CP!EvictsLeastRecent
  BY SameAssumption, CP!OldestEvicted
<1>3. CP!TypeOK /\ CP!ContentOnly => C!TypeOK /\ C!ContentOnly
  BY DEF CP!TypeOK, C!TypeOK, CP!ContentOnly, C!ContentOnly, C!Entries, CP!Entries
<1> QED
  BY <1>1, <1>2, <1>3, GuardKeepsCache, PTL DEF CacheKept, C!EvictsLeastRecent, CP!EvictsLeastRecent,
     C!Live, CP!Live, C!Holds, CP!Holds, C!Rank, CP!Rank, C!vars, CP!vars
=============================================================================
