---------------------------- MODULE OpenPageProofs ----------------------------
(***************************************************************************)
(* Theorems about OpenPage and the CdpAutostart it extends, for every      *)
(* number of calls, hosts and permits.  The lock's queue, what each call   *)
(* knows of its tab and who holds a permit are each an invariant of their  *)
(* own; a step of one call leaves the others' parts alone.                 *)
(***************************************************************************)
EXTENDS OpenPage, FiniteSetTheorems, SequenceTheorems, TLAPS

-----------------------------------------------------------------------------
(* Lines of calls.                                                          *)

InLine(q)   == {q[i] : i \in 1..Len(q)}
OnceEach(q) == \A i, j \in 1..Len(q) : q[i] = q[j] => i = j

\* A call joins a line it is not in.
LEMMA AppendLine ==
  ASSUME NEW q \in Seq(Callers), OnceEach(q), NEW c \in Callers, c \notin InLine(q)
  PROVE  /\ Append(q, c) \in Seq(Callers) /\ OnceEach(Append(q, c))
         /\ InLine(Append(q, c)) = InLine(q) \union {c}
<1> DEFINE r == Append(q, c)
<1>1. /\ r \in Seq(Callers) /\ Len(r) = Len(q) + 1 /\ Len(q) \in Nat
      /\ \A i \in 1..Len(q) : r[i] = q[i]
      /\ r[Len(q) + 1] = c
  OBVIOUS
<1>2. \A i \in 1..Len(q) : q[i] # c
  BY DEF InLine
<1> HIDE DEF r
<1>3. \A i, j \in 1..(Len(q) + 1) : r[i] = r[j] => i = j
  BY <1>1, <1>2 DEF OnceEach
<1>4. {r[i] : i \in 1..(Len(q) + 1)} = InLine(q) \union {c}
  <2>1. \A i \in 1..(Len(q) + 1) : i \in 1..Len(q) \/ i = Len(q) + 1
    BY <1>1
  <2>2. \A i \in 1..Len(q) : i \in 1..(Len(q) + 1)
    BY <1>1
  <2>3. Len(q) + 1 \in 1..(Len(q) + 1)
    BY <1>1
  <2> QED
    BY <2>1, <2>2, <2>3, <1>1 DEF InLine
<1>5. OnceEach(r) /\ InLine(r) = InLine(q) \union {c} /\ r \in Seq(Callers)
  BY <1>1, <1>3, <1>4 DEF OnceEach, InLine
<1> QED
  BY <1>5 DEF r

\* The oldest in line leaves it.
LEMMA TailLine ==
  ASSUME NEW q \in Seq(Callers), OnceEach(q), q # <<>>
  PROVE  /\ Tail(q) \in Seq(Callers) /\ OnceEach(Tail(q))
         /\ Head(q) \in InLine(q)
         /\ InLine(Tail(q)) = InLine(q) \ {Head(q)}
<1> DEFINE r == Tail(q)
<1>1. /\ r \in Seq(Callers) /\ Len(r) = Len(q) - 1 /\ Len(q) \in Nat /\ Len(q) >= 1
      /\ \A i \in 1..(Len(q) - 1) : r[i] = q[i + 1]
      /\ Head(q) = q[1]
  OBVIOUS
<1> HIDE DEF r
<1>2. \A i, j \in 1..(Len(q) - 1) : r[i] = r[j] => i = j
  <2> SUFFICES ASSUME NEW i \in 1..(Len(q) - 1), NEW j \in 1..(Len(q) - 1), r[i] = r[j]
               PROVE  i = j
    OBVIOUS
  <2>1. i + 1 \in 1..Len(q) /\ j + 1 \in 1..Len(q) /\ q[i + 1] = q[j + 1]
    BY <1>1
  <2>2. i + 1 = j + 1
    BY <2>1 DEF OnceEach
  <2> QED
    BY <2>2, <1>1
<1>3. \A i \in 1..(Len(q) - 1) : r[i] \in InLine(q) \ {q[1]}
  <2> SUFFICES ASSUME NEW i \in 1..(Len(q) - 1)
               PROVE  r[i] \in InLine(q) \ {q[1]}
    OBVIOUS
  <2>1. i + 1 \in 1..Len(q) /\ 1 \in 1..Len(q) /\ i + 1 # 1
    BY <1>1
  <2> QED
    BY <2>1, <1>1 DEF OnceEach, InLine
<1>4. ASSUME NEW m \in InLine(q) \ {q[1]}
      PROVE  \E i \in 1..(Len(q) - 1) : r[i] = m
  <2>1. PICK j \in 1..Len(q) : q[j] = m
    BY DEF InLine
  <2>2. j - 1 \in 1..(Len(q) - 1) /\ (j - 1) + 1 = j
    BY <2>1, <1>1
  <2> QED
    BY <2>1, <2>2, <1>1
<1>5. q[1] \in InLine(q)
  BY <1>1 DEF InLine
<1>6. OnceEach(r)
  BY <1>1, <1>2 DEF OnceEach
<1>7. InLine(r) = InLine(q) \ {q[1]}
  <2>1. InLine(r) = {r[i] : i \in 1..(Len(q) - 1)}
    BY <1>1 DEF InLine
  <2> QED
    BY <2>1, <1>3, <1>4
<1> QED
  BY <1>1, <1>5, <1>6, <1>7 DEF r

\* One in the line leaves it, the others keep their order.
LEMMA RemoveLine ==
  ASSUME NEW q \in Seq(Callers), OnceEach(q), NEW c \in InLine(q)
  PROVE  /\ RemoveFirst(q, c) \in Seq(Callers) /\ OnceEach(RemoveFirst(q, c))
         /\ InLine(RemoveFirst(q, c)) = InLine(q) \ {c}
<1> DEFINE I == {i \in 1..Len(q) : q[i] = c}
<1>1. PICK p \in 1..Len(q) : q[p] = c
  BY DEF InLine
<1>2. I = {p}
  BY <1>1 DEF OnceEach
<1>3. Len(q) \in Nat /\ p \in Int
  OBVIOUS
<1>4. Min(I) = p
  BY <1>2, <1>3 DEF Min
<1>5. SelectInSeq(q, LAMBDA v : v = c) = p
  BY <1>2, <1>4 DEF SelectInSeq
<1> DEFINE r == RemoveFirst(q, c)
           a == SubSeq(q, 1, p - 1)
           b == SubSeq(q, p + 1, Len(q))
<1>6. r = a \o b
  BY <1>1, <1>5 DEF RemoveFirst, RemoveAt
<1>7. /\ a \in Seq(Callers) /\ Len(a) = p - 1
      /\ \A i \in 1..(p - 1) : a[i] = q[i]
  BY <1>1, <1>3
<1>8. /\ b \in Seq(Callers) /\ Len(b) = Len(q) - p
      /\ \A i \in 1..(Len(q) - p) : b[i] = q[i + p]
  BY <1>1, <1>3
<1> HIDE DEF a, b, r, I
<1>9. /\ r \in Seq(Callers) /\ Len(r) = Len(q) - 1
      /\ \A i \in 1..(Len(q) - 1) : r[i] = IF i <= p - 1 THEN a[i] ELSE b[i - (p - 1)]
  BY <1>6, <1>7, <1>8, <1>1, <1>3
<1>10. ASSUME NEW i \in 1..(Len(q) - 1)
       PROVE  r[i] = IF i < p THEN q[i] ELSE q[i + 1]
  <2>1. CASE i < p
    <3>1. i \in 1..(p - 1) /\ i <= p - 1
      BY <2>1, <1>1, <1>3
    <3> QED
      BY <3>1, <2>1, <1>7, <1>9
  <2>2. CASE ~(i < p)
    <3>1. i - (p - 1) \in 1..(Len(q) - p) /\ (i - (p - 1)) + p = i + 1 /\ ~(i <= p - 1)
      BY <2>2, <1>1, <1>3
    <3> QED
      BY <3>1, <2>2, <1>8, <1>9
  <2> QED
    BY <2>1, <2>2
<1>11. \A i, j \in 1..Len(q) : q[i] = q[j] => i = j
  BY DEF OnceEach
<1>12. \A i, j \in 1..(Len(q) - 1) : r[i] = r[j] => i = j
  BY <1>1, <1>3, <1>10, <1>11
<1>13. ASSUME NEW i \in 1..(Len(q) - 1)
       PROVE  r[i] \in InLine(q) \ {c}
  <2>1. i \in 1..Len(q) /\ i + 1 \in 1..Len(q)
    BY <1>3
  <2>2. CASE i < p
    BY <2>1, <2>2, <1>1, <1>10, <1>11 DEF InLine
  <2>3. CASE ~(i < p)
    <3>1. i + 1 # p
      BY <2>3, <1>3
    <3> QED
      BY <3>1, <2>1, <2>3, <1>1, <1>10, <1>11 DEF InLine
  <2> QED
    BY <2>2, <2>3
<1>14. ASSUME NEW m \in InLine(q) \ {c}
       PROVE  \E i \in 1..(Len(q) - 1) : r[i] = m
  <2>1. PICK j \in 1..Len(q) : q[j] = m
    BY DEF InLine
  <2>2. CASE j < p
    <3>1. j \in 1..(Len(q) - 1)
      BY <2>2, <1>3
    <3> QED
      BY <3>1, <2>1, <2>2, <1>10
  <2>3. CASE j > p
    <3>1. j - 1 \in 1..(Len(q) - 1) /\ ~(j - 1 < p) /\ (j - 1) + 1 = j
      BY <2>3, <1>1, <1>3
    <3> QED
      BY <2>1, <3>1, <1>10
  <2>4. j # p
    BY <2>1, <1>1
  <2> QED
    BY <2>2, <2>3, <2>4, <1>1, <1>3
<1>15. OnceEach(r)
  BY <1>9, <1>12 DEF OnceEach
<1>16. InLine(r) = InLine(q) \ {c}
  <2>1. InLine(r) = {r[i] : i \in 1..(Len(q) - 1)}
    BY <1>9 DEF InLine
  <2> QED
    BY <2>1, <1>13, <1>14
<1> QED
  BY <1>9, <1>15, <1>16 DEF r

-----------------------------------------------------------------------------
(* The inductive invariant.                                                 *)

InLock == Attempting \union {"queued"}
Places == InLock \union {"idle", "connect", "ask", "claim", "claimed", "load", "recheck", "settle",
                         "yielded", "leave"}

NavRecord == [raw : BOOLEAN, target : BOOLEAN, page : Callers \union {None},
              doc : Docs, seen : Docs, blocked : BOOLEAN]

StartType ==
  /\ loopback \in BOOLEAN /\ port \in BOOLEAN /\ launched \in BOOLEAN
  /\ holder \in Callers \union {None}
  /\ queue \in Seq(Callers)
  /\ failure \in Nat /\ left \in Nat
  /\ burnt \subseteq Callers

PageType ==
  /\ pc \in [Callers -> Places]
  /\ permit \subseteq Callers
  /\ paused \subseteq Hosts
  /\ tab \in [Callers -> {"none", "asked", "open", "closing"}]
  /\ nav \in [Callers -> NavRecord]

\* The queue and the holder of the lock are those the calls take themselves for.
LockAgrees ==
  /\ \A c \in Callers : (pc[c] \in Attempting) <=> (holder = c)
  /\ \A c \in Callers : (pc[c] = "queued") <=> (c \in InLine(queue))
  /\ OnceEach(queue)

\* Whoever sat through a failed attempt still waits, the failure is still
\* remembered, and nobody has begun another attempt since.
BurntWait ==
  /\ burnt \subseteq Queued
  /\ burnt # {} => failure > 0 /\ holder = None

\* One call: what it believes of its tab, and whether it holds a permit.
CallSound(at, n, t, held, c) ==
  /\ n.page \in {None, c}
  /\ n.page = c => n.target
  /\ n.target => t # "asked"
  /\ at \in InLock \union {"idle", "connect", "ask"} => ~n.target
  /\ at = "claim" => n.target
  /\ at = "leave" /\ n.target => t # "open"
  /\ at = "settle" => n.seen \notin Failing
  /\ at \notin {"idle", "yielded", "leave"} => held
  /\ held => at \notin {"idle", "yielded"}
  /\ n.blocked => at = "leave" /\ held /\ n.seen \in Failing

CallsSound == \A c \in Callers : CallSound(pc[c], nav[c], tab[c], c \in permit, c)

IInv == StartType /\ PageType /\ LockAgrees /\ BurntWait /\ CallsSound

-----------------------------------------------------------------------------
(* The steps of CdpAutostart.                                               *)

\* What such a step of a call does to the lock, the memory and the calls.
LockMoves(c) ==
  /\ StartType' /\ LockAgrees' /\ BurntWait'
  /\ pc' \in [Callers -> Places]
  /\ \A d \in Callers \ {c} : pc'[d] = pc[d]
  /\ pc[c] \in InLock \union {"idle"}
  /\ pc'[c] \in InLock \union {"idle", "connect"}
  /\ c \in burnt => pc'[c] # "spawning"

\* Whoever gets the lock finds it free and is in the queue no more.
LEMMA GotLock ==
  ASSUME StartType, pc \in [Callers -> Places], LockAgrees, NEW c \in Callers, GetsLock(c)
  PROVE  /\ holder = None
         /\ pc[c] \in {"idle", "queued"}
         /\ queue' \in Seq(Callers) /\ OnceEach(queue')
         /\ InLine(queue') = InLine(queue) \ {c}
<1>1. CASE pc[c] = "idle" /\ LockFree /\ UNCHANGED queue
  <2>1. c \notin InLine(queue)
    BY <1>1 DEF LockAgrees
  <2> QED
    BY <1>1, <2>1 DEF LockFree, StartType, LockAgrees
<1>2. CASE holder = None /\ queue # <<>> /\ c = Head(queue) /\ queue' = Tail(queue)
  <2>1. /\ Tail(queue) \in Seq(Callers) /\ OnceEach(Tail(queue))
        /\ Head(queue) \in InLine(queue)
        /\ InLine(Tail(queue)) = InLine(queue) \ {Head(queue)}
    BY <1>2, TailLine DEF StartType, LockAgrees
  <2> QED
    BY <1>2, <2>1 DEF LockAgrees
<1> QED
  BY <1>1, <1>2 DEF GetsLock

\* Nobody attempts while the lock is free.
LEMMA NobodyAttempts ==
  ASSUME AutostartAssumption, LockAgrees, holder = None
  PROVE  \A d \in Callers : pc[d] \notin Attempting
BY DEF AutostartAssumption, LockAgrees

LEMMA TakingMoves ==
  ASSUME AutostartAssumption, StartType, pc \in [Callers -> Places], LockAgrees, BurntWait,
         NEW c \in Callers, TakesLock(c)
  PROVE  LockMoves(c)
<1>1. GetsLock(c)
  BY DEF TakesLock, AlreadyRunning, Remote, Remembered, Spawns
<1>2. /\ holder = None
      /\ pc[c] \in {"idle", "queued"}
      /\ queue' \in Seq(Callers) /\ OnceEach(queue')
      /\ InLine(queue') = InLine(queue) \ {c}
  BY <1>1, GotLock
<1>3. \A d \in Callers : pc[d] \notin Attempting
  BY <1>2, NobodyAttempts
<1>4. \A d \in Callers : d # None
  BY DEF AutostartAssumption
<1>5. ASSUME NEW x \in {"connect", "idle"}, pc' = [pc EXCEPT ![c] = x], holder' = None,
             burnt' \subseteq burnt \ {c}, burnt' # {} => failure' > 0, StartType'
      PROVE  LockMoves(c)
  <2>1. x \in Places /\ x \notin InLock
    BY DEF Places, InLock, Attempting
  <2>2. pc' \in [Callers -> Places] /\ pc'[c] = x /\ \A d \in Callers \ {c} : pc'[d] = pc[d]
    BY <1>5, <2>1
  <2>3. LockAgrees'
    <3>1. \A d \in Callers : (pc'[d] \in Attempting) <=> (holder' = d)
      BY <1>3, <1>4, <1>5, <2>1, <2>2 DEF InLock
    <3>2. \A d \in Callers : (pc'[d] = "queued") <=> (d \in InLine(queue'))
      BY <1>2, <2>1, <2>2 DEF InLock, LockAgrees
    <3> QED
      BY <1>2, <3>1, <3>2 DEF LockAgrees
  <2>4. BurntWait'
    BY <1>5, <2>2 DEF BurntWait, Queued
  <2> QED
    BY <1>2, <1>5, <2>1, <2>2, <2>3, <2>4 DEF LockMoves, InLock, Attempting
<1>6. CASE AlreadyRunning(c)
  BY <1>2, <1>5, <1>6 DEF AlreadyRunning, Proceeds, StartType
<1>7. CASE Remote(c)
  BY <1>2, <1>5, <1>7 DEF Remote, Fails, StartType, BurntWait, chrome, memory
<1>8. CASE Remembered(c)
  BY <1>2, <1>5, <1>8 DEF Remembered, Fails, StartType, BurntWait, chrome, memory
<1>9. CASE Spawns(c)
  <2>1. /\ pc' \in [Callers -> Places] /\ pc'[c] = "spawning"
        /\ \A d \in Callers \ {c} : pc'[d] = pc[d]
    BY <1>9 DEF Spawns, Places, InLock, Attempting
  <2>2. burnt = {} /\ burnt' = {} /\ holder' = c
    BY <1>9 DEF Spawns, BurntWait, StartType
  <2>3. LockAgrees'
    <3>1. \A d \in Callers : (pc'[d] \in Attempting) <=> (holder' = d)
      BY <1>3, <2>1, <2>2 DEF Attempting
    <3>2. \A d \in Callers : (pc'[d] = "queued") <=> (d \in InLine(queue'))
      BY <1>2, <2>1 DEF LockAgrees
    <3> QED
      BY <1>2, <3>1, <3>2 DEF LockAgrees
  <2>4. StartType'
    BY <1>2, <1>9, <2>2 DEF Spawns, StartType, chrome, memory
  <2>5. BurntWait'
    BY <2>2 DEF BurntWait
  <2> QED
    BY <1>2, <2>1, <2>2, <2>3, <2>4, <2>5 DEF LockMoves, InLock, Attempting
<1> QED
  BY <1>6, <1>7, <1>8, <1>9 DEF TakesLock

LEMMA AskingMoves ==
  ASSUME AutostartAssumption, StartType, pc \in [Callers -> Places], LockAgrees, BurntWait,
         NEW c \in Callers, Asks(c)
  PROVE  LockMoves(c)
<1>1. CASE FastPath(c)
  <2>1. /\ pc' \in [Callers -> Places] /\ pc[c] = "idle" /\ pc'[c] = "connect"
        /\ \A d \in Callers \ {c} : pc'[d] = pc[d]
    BY <1>1 DEF FastPath, Proceeds, Places
  <2>2. UNCHANGED <<chrome, holder, queue, memory, burnt>>
    BY <1>1 DEF FastPath
  <2>3. LockAgrees'
    BY <2>1, <2>2 DEF LockAgrees, Attempting
  <2>4. BurntWait'
    BY <2>1, <2>2 DEF BurntWait, Queued, memory
  <2>5. StartType'
    BY <2>2 DEF StartType, chrome, memory
  <2> QED
    BY <2>1, <2>3, <2>4, <2>5 DEF LockMoves
<1>2. CASE AskAndQueue(c)
  <2>1. /\ pc' \in [Callers -> Places] /\ pc[c] = "idle" /\ pc'[c] = "queued"
        /\ \A d \in Callers \ {c} : pc'[d] = pc[d]
    BY <1>2 DEF AskAndQueue, Places, InLock
  <2>2. UNCHANGED <<chrome, holder, memory, burnt>> /\ queue' = Append(queue, c)
    BY <1>2 DEF AskAndQueue
  <2>3. c \notin InLine(queue)
    BY <2>1 DEF LockAgrees
  <2>4. queue' \in Seq(Callers) /\ OnceEach(queue') /\ InLine(queue') = InLine(queue) \union {c}
    BY <2>2, <2>3, AppendLine DEF StartType, LockAgrees
  <2>5. LockAgrees'
    <3>1. \A d \in Callers : (pc'[d] \in Attempting) <=> (holder' = d)
      BY <2>1, <2>2 DEF LockAgrees, Attempting
    <3>2. \A d \in Callers : (pc'[d] = "queued") <=> (d \in InLine(queue'))
      BY <2>1, <2>4 DEF LockAgrees
    <3> QED
      BY <2>4, <3>1, <3>2 DEF LockAgrees
  <2>6. BurntWait'
    BY <2>1, <2>2 DEF BurntWait, Queued, memory
  <2>7. StartType'
    BY <2>2, <2>4 DEF StartType, chrome, memory
  <2> QED
    BY <2>1, <2>5, <2>6, <2>7 DEF LockMoves, InLock
<1> QED
  BY <1>1, <1>2 DEF Asks

\* The holder goes on with its attempt.
LEMMA AttemptMoves ==
  ASSUME AutostartAssumption, StartType, pc \in [Callers -> Places], LockAgrees, BurntWait,
         NEW c \in Callers, Attempt(c) \/ AttemptCancelled(c)
  PROVE  LockMoves(c)
<1>1. pc[c] \in Attempting
  BY DEF Attempt, SpawnFails, Spawned, Bound, NotBound, Started, AttemptCancelled, Attempting
<1>2. holder = c /\ holder # None /\ burnt = {}
  BY <1>1 DEF LockAgrees, BurntWait, AutostartAssumption
<1>3. UNCHANGED queue
  BY DEF Attempt, SpawnFails, Spawned, Bound, NotBound, Started, AttemptCancelled, AttemptFails
<1>4. \A d \in Callers \ {c} : pc[d] \notin Attempting
  BY <1>2 DEF LockAgrees
<1>5. ASSUME NEW x \in {"connect", "idle"}, pc' = [pc EXCEPT ![c] = x], holder' = None,
             burnt' \subseteq Queued, burnt' # {} => failure' > 0, StartType'
      PROVE  LockMoves(c)
  <2>1. x \in Places /\ x \notin InLock
    BY DEF Places, InLock, Attempting
  <2>2. pc' \in [Callers -> Places] /\ pc'[c] = x /\ \A d \in Callers \ {c} : pc'[d] = pc[d]
    BY <1>5, <2>1
  <2>3. LockAgrees'
    <3>1. \A d \in Callers : (pc'[d] \in Attempting) <=> (holder' = d)
      BY <1>4, <1>5, <2>1, <2>2 DEF InLock, AutostartAssumption
    <3>2. \A d \in Callers : (pc'[d] = "queued") <=> (d \in InLine(queue'))
      BY <1>1, <1>3, <2>1, <2>2 DEF InLock, LockAgrees, Attempting
    <3> QED
      BY <1>3, <3>1, <3>2 DEF LockAgrees
  <2>4. BurntWait'
    BY <1>1, <1>5, <2>2 DEF BurntWait, Queued, Attempting
  <2> QED
    BY <1>1, <1>2, <1>5, <2>1, <2>2, <2>3, <2>4 DEF LockMoves, InLock, Attempting
<1>6. ASSUME NEW x \in {"binding", "grace"}, pc' = [pc EXCEPT ![c] = x],
             UNCHANGED <<holder, burnt>>, StartType'
      PROVE  LockMoves(c)
  <2>1. x \in Places /\ x \in Attempting
    BY DEF Places, InLock, Attempting
  <2>2. pc' \in [Callers -> Places] /\ pc'[c] = x /\ \A d \in Callers \ {c} : pc'[d] = pc[d]
    BY <1>6, <2>1
  <2>3. LockAgrees'
    <3>1. \A d \in Callers : (pc'[d] \in Attempting) <=> (holder' = d)
      BY <1>2, <1>4, <1>6, <2>1, <2>2
    <3>2. \A d \in Callers : (pc'[d] = "queued") <=> (d \in InLine(queue'))
      BY <1>1, <1>3, <2>1, <2>2 DEF LockAgrees, Attempting
    <3> QED
      BY <1>3, <3>1, <3>2 DEF LockAgrees
  <2>4. BurntWait'
    BY <1>2, <1>6 DEF BurntWait
  <2> QED
    BY <1>1, <1>2, <1>6, <2>1, <2>2, <2>3, <2>4 DEF LockMoves, InLock
<1>7. Queued \subseteq Callers
  BY DEF Queued
<1>8. FailureTTL \in Nat /\ FailureTTL > 0 /\ ReadyWait \in Nat
  BY DEF AutostartAssumption
<1>9. CASE AttemptFails(c)
  BY <1>5, <1>7, <1>8, <1>9 DEF AttemptFails, Fails, StartType, chrome
<1>10. CASE Spawned(c)
  BY <1>6, <1>8, <1>10 DEF Spawned, StartType
<1>11. CASE Bound(c)
  BY <1>6, <1>11 DEF Bound, StartType, chrome
<1>12. CASE Started(c)
  BY <1>5, <1>12 DEF Started, Proceeds, StartType, chrome
<1>13. CASE AttemptCancelled(c)
  <2>1. launched' \in BOOLEAN
    BY <1>13 DEF AttemptCancelled, StartType
  <2>2. StartType'
    BY <1>13, <2>1 DEF AttemptCancelled, StartType
  <2> QED
    BY <1>2, <1>5, <1>13, <2>2 DEF AttemptCancelled, Fails
<1> QED
  BY <1>9, <1>10, <1>11, <1>12, <1>13 DEF Attempt, SpawnFails, NotBound

LEMMA LeavingMoves ==
  ASSUME AutostartAssumption, StartType, pc \in [Callers -> Places], LockAgrees, BurntWait,
         NEW c \in Callers, QueueLeft(c)
  PROVE  LockMoves(c)
<1>1. /\ pc' \in [Callers -> Places] /\ pc[c] = "queued" /\ pc'[c] = "idle"
      /\ \A d \in Callers \ {c} : pc'[d] = pc[d]
  BY DEF QueueLeft, Fails, Places
<1>2. /\ UNCHANGED <<chrome, holder, memory>> /\ queue' = RemoveFirst(queue, c)
      /\ burnt' = burnt \ {c}
  BY DEF QueueLeft
<1>3. c \in InLine(queue)
  BY <1>1 DEF LockAgrees
<1>4. queue' \in Seq(Callers) /\ OnceEach(queue') /\ InLine(queue') = InLine(queue) \ {c}
  BY <1>2, <1>3, RemoveLine DEF StartType, LockAgrees
<1>5. LockAgrees'
  <2>1. \A d \in Callers : (pc'[d] \in Attempting) <=> (holder' = d)
    BY <1>1, <1>2 DEF LockAgrees, Attempting
  <2>2. \A d \in Callers : (pc'[d] = "queued") <=> (d \in InLine(queue'))
    BY <1>1, <1>4 DEF LockAgrees
  <2> QED
    BY <1>4, <2>1, <2>2 DEF LockAgrees
<1>6. BurntWait'
  BY <1>1, <1>2 DEF BurntWait, Queued, memory
<1>7. StartType'
  BY <1>2, <1>4 DEF StartType, chrome, memory
<1> QED
  BY <1>1, <1>5, <1>6, <1>7 DEF LockMoves, InLock

-----------------------------------------------------------------------------
(* The steps of one call.                                                   *)

\* A step of a call is the call's own: the others keep their place, tab, permit.
OthersKept(c) ==
  \A d \in Callers \ {c} :
    pc'[d] = pc[d] /\ nav'[d] = nav[d] /\ tab'[d] = tab[d] /\ (d \in permit' <=> d \in permit)

\* The call tells a tab to close only on its way out, hands a page over only
\* once it is judged, and pays for a failed attempt at most once.
Behaves(c) ==
  /\ tab[c] = "open" /\ tab'[c] = "closing" => pc[c] # "leave" /\ pc'[c] = "leave"
  /\ pc[c] = "settle" /\ pc'[c] = "yielded" =>
       /\ nav[c].seen \notin Failing
       /\ IF nav[c].raw THEN nav[c].seen \notin OffPolicy ELSE nav[c].doc \notin OffPolicy
  /\ c \in burnt => pc'[c] # "spawning"

Does(c) ==
  /\ StartType' /\ PageType' /\ LockAgrees' /\ BurntWait'
  /\ OthersKept(c)
  /\ CallSound(pc'[c], nav'[c], tab'[c], c \in permit', c)
  /\ Behaves(c)

\* The lock is none of the business of a call that has left it.
LEMMA OutOfLock ==
  ASSUME IInv, NEW c \in Callers, UNCHANGED autostart,
         pc' \in [Callers -> Places], \A d \in Callers \ {c} : pc'[d] = pc[d],
         \/ pc'[c] = pc[c]
         \/ pc[c] \notin InLock /\ pc'[c] \notin InLock
  PROVE  /\ StartType' /\ LockAgrees' /\ BurntWait'
         /\ c \in burnt => pc'[c] # "spawning"
<1>1. UNCHANGED <<chrome, holder, queue, memory, burnt>>
  BY DEF autostart
<1>2. StartType'
  BY <1>1 DEF IInv, StartType, chrome, memory
<1>3. \A d \in Callers : /\ (pc'[d] \in Attempting) <=> (pc[d] \in Attempting)
                         /\ (pc'[d] = "queued") <=> (pc[d] = "queued")
  BY DEF InLock
<1>4. LockAgrees'
  BY <1>1, <1>3 DEF IInv, LockAgrees
<1>5. BurntWait'
  BY <1>1, <1>3 DEF IInv, BurntWait, Queued, memory
<1>6. c \in burnt => pc'[c] # "spawning"
  BY <1>3 DEF IInv, BurntWait, Queued, Attempting
<1> QED
  BY <1>2, <1>4, <1>5, <1>6

\* Closing the tab a call owns closes its own, and that for sure if it has one.
LEMMA ShutOwn ==
  ASSUME AutostartAssumption, IInv, NEW c \in Callers, Shut(c)
  PROVE  /\ tab' \in [Callers -> {"none", "asked", "open", "closing"}]
         /\ \A d \in Callers \ {c} : tab'[d] = tab[d]
         /\ nav[c].target => tab'[c] # "open" /\ tab'[c] # "asked"
<1>1. /\ CallSound(pc[c], nav[c], tab[c], c \in permit, c)
      /\ tab \in [Callers -> {"none", "asked", "open", "closing"}] /\ c # None
  BY DEF IInv, CallsSound, PageType, AutostartAssumption
<1>2. Owned(c) \subseteq {c} /\ (nav[c].target => c \in Owned(c))
  BY <1>1 DEF Owned, CallSound
<1> QED
  BY <1>1, <1>2 DEF Shut, CallSound

\* One call learns something of its tab.
LEMMA NavMoves ==
  ASSUME nav \in [Callers -> NavRecord], NEW c \in Callers, NEW n \in NavRecord,
         nav' = [nav EXCEPT ![c] = n]
  PROVE  /\ nav' \in [Callers -> NavRecord] /\ nav'[c] = n
         /\ \A d \in Callers \ {c} : nav'[d] = nav[d]
OBVIOUS

LEMMA Known ==
  ASSUME IInv, NEW c \in Callers
  PROVE  /\ pc \in [Callers -> Places] /\ permit \subseteq Callers /\ paused \subseteq Hosts
         /\ tab \in [Callers -> {"none", "asked", "open", "closing"}]
         /\ nav \in [Callers -> NavRecord] /\ nav[c] \in NavRecord
         /\ CallSound(pc[c], nav[c], tab[c], c \in permit, c)
BY DEF IInv, PageType, CallsSound

LEMMA NoNavType == NoNav \in NavRecord
BY DEF NoNav, NavRecord, Docs

LEMMA BeginDoes ==
  ASSUME AutostartAssumption, IInv, NEW c \in Callers, Begin(c)
  PROVE  Does(c)
<1>1. LockMoves(c)
  BY AskingMoves, TakingMoves, Known DEF Begin, IInv
<1>2. /\ pc[c] = "idle" /\ UNCHANGED <<paused, tab, nav>>
      /\ permit' = IF pc'[c] = "idle" THEN permit ELSE permit \union {c}
  BY DEF Begin
<1>3. c \notin permit
  BY <1>2, Known DEF CallSound
<1>4. PageType'
  BY <1>1, <1>2, Known DEF PageType, LockMoves
<1>5. OthersKept(c)
  BY <1>1, <1>2 DEF OthersKept, LockMoves
<1>6. CallSound(pc'[c], nav'[c], tab'[c], c \in permit', c)
  BY <1>1, <1>2, <1>3, Known DEF CallSound, LockMoves, InLock, Attempting
<1>7. Behaves(c)
  BY <1>1, <1>2 DEF Behaves, LockMoves
<1> QED
  BY <1>1, <1>4, <1>5, <1>6, <1>7 DEF Does, LockMoves

LEMMA AttachDoes ==
  ASSUME AutostartAssumption, IInv, NEW c \in Callers, Attach(c)
  PROVE  Does(c)
<1>1. LockMoves(c)
  BY TakingMoves, AttemptMoves, LeavingMoves, Known DEF Attach, AutostartCancelled, IInv
<1>2. /\ pc[c] \in InLock /\ UNCHANGED <<paused, tab, nav>>
      /\ permit' = IF pc'[c] = "idle" THEN permit \ {c} ELSE permit
  BY DEF Attach, InLock
<1>3. c \in permit
  BY <1>2, Known DEF CallSound, InLock, Attempting
<1>4. PageType'
  BY <1>1, <1>2, Known DEF PageType, LockMoves
<1>5. OthersKept(c)
  BY <1>1, <1>2 DEF OthersKept, LockMoves
<1>6. CallSound(pc'[c], nav'[c], tab'[c], c \in permit', c)
  BY <1>1, <1>2, <1>3, Known DEF CallSound, LockMoves, InLock, Attempting
<1>7. Behaves(c)
  BY <1>1, <1>2 DEF Behaves, LockMoves, InLock, Attempting
<1> QED
  BY <1>1, <1>4, <1>5, <1>6, <1>7 DEF Does, LockMoves

\* A step outside the lock that moves the call and says what becomes of its tab.
LEMMA StepDoes ==
  ASSUME IInv, NEW c \in Callers, NEW x \in Places \ InLock,
         UNCHANGED autostart, pc[c] \notin InLock, Now(c, x),
         permit' \subseteq Callers, paused' \subseteq Hosts,
         tab' \in [Callers -> {"none", "asked", "open", "closing"}],
         nav' \in [Callers -> NavRecord],
         \A d \in Callers \ {c} : nav'[d] = nav[d] /\ tab'[d] = tab[d] /\ (d \in permit' <=> d \in permit),
         CallSound(x, nav'[c], tab'[c], c \in permit', c),
         tab[c] = "open" /\ tab'[c] = "closing" => pc[c] # "leave" /\ x = "leave",
         pc[c] = "settle" /\ x = "yielded" =>
           /\ nav[c].seen \notin Failing
           /\ IF nav[c].raw THEN nav[c].seen \notin OffPolicy ELSE nav[c].doc \notin OffPolicy
  PROVE  Does(c)
<1>1. /\ pc' \in [Callers -> Places] /\ pc'[c] = x
      /\ \A d \in Callers \ {c} : pc'[d] = pc[d]
  BY Known DEF Now
<1>2. /\ StartType' /\ LockAgrees' /\ BurntWait'
      /\ c \in burnt => pc'[c] # "spawning"
  BY <1>1, OutOfLock
<1>3. PageType'
  BY <1>1 DEF PageType
<1>4. OthersKept(c)
  BY <1>1 DEF OthersKept
<1>5. CallSound(pc'[c], nav'[c], tab'[c], c \in permit', c)
  BY <1>1
<1>6. Behaves(c)
  BY <1>1, <1>2 DEF Behaves
<1> QED
  BY <1>2, <1>3, <1>4, <1>5, <1>6 DEF Does

\* The call goes on its way out, with its tab told to close.
LEMMA OutDoes ==
  ASSUME AutostartAssumption, IInv, NEW c \in Callers,
         UNCHANGED <<autostart, permit, paused>>, Shut(c), Now(c, "leave"),
         pc[c] \in {"claim", "claimed", "load", "recheck", "settle", "yielded"},
         NEW n \in NavRecord, nav' = [nav EXCEPT ![c] = n],
         n.page = nav[c].page, n.target = nav[c].target,
         n.blocked => pc[c] # "yielded" /\ n.seen \in Failing
  PROVE  Does(c)
<1>1. "leave" \in Places \ InLock /\ pc[c] \notin InLock
  BY DEF Places, InLock, Attempting
<1>2. /\ nav' \in [Callers -> NavRecord] /\ nav'[c] = n
      /\ \A d \in Callers \ {c} : nav'[d] = nav[d]
  BY NavMoves, Known
<1>3. /\ tab' \in [Callers -> {"none", "asked", "open", "closing"}]
      /\ \A d \in Callers \ {c} : tab'[d] = tab[d]
      /\ nav[c].target => tab'[c] # "open" /\ tab'[c] # "asked"
  BY ShutOwn
<1>4. CallSound("leave", nav'[c], tab'[c], c \in permit', c)
  BY <1>2, <1>3, Known DEF CallSound, InLock, Attempting
<1> QED
  BY <1>1, <1>2, <1>3, <1>4, StepDoes, Known

LEMMA AttachesDoes ==
  ASSUME AutostartAssumption, IInv, NEW c \in Callers, Attaches(c)
  PROVE  Does(c)
<1>1. CASE AttachTimesOut(c)
  <2>1. PICK n \in NavRecord : n = [nav[c] EXCEPT !.raw = TRUE]
    BY Known DEF NavRecord
  <2>2. nav' = [nav EXCEPT ![c] = n]
    BY <1>1, <2>1 DEF AttachTimesOut
  <2>3. n.page = nav[c].page /\ n.target = nav[c].target /\ n.blocked = nav[c].blocked
    BY <2>1, Known DEF NavRecord
  <2>4. /\ nav' \in [Callers -> NavRecord] /\ nav'[c] = n
        /\ \A d \in Callers \ {c} : nav'[d] = nav[d]
    BY <2>2, NavMoves, Known
  <2>5. /\ pc[c] = "connect" /\ UNCHANGED <<autostart, pc, permit, paused, tab>>
    BY <1>1 DEF AttachTimesOut
  <2>6. Now(c, "connect")
    BY <2>5, Known DEF Now
  <2>7. "connect" \in Places \ InLock
    BY DEF Places, InLock, Attempting
  <2>8. CallSound("connect", nav'[c], tab'[c], c \in permit', c)
    BY <2>3, <2>4, <2>5, Known DEF CallSound
  <2> QED
    BY <2>4, <2>5, <2>6, <2>7, <2>8, StepDoes, Known
<1>2. CASE AttachFails(c)
  <2>1. /\ nav' \in [Callers -> NavRecord] /\ nav'[c] = NoNav
        /\ \A d \in Callers \ {c} : nav'[d] = nav[d]
    BY <1>2, NavMoves, NoNavType, Known DEF AttachFails, Ends
  <2>2. /\ pc[c] = "connect" /\ UNCHANGED <<autostart, paused, tab>>
        /\ Now(c, "idle") /\ permit' = permit \ {c}
    BY <1>2 DEF AttachFails, Ends
  <2>3. "idle" \in Places \ InLock /\ "connect" \notin InLock
    BY DEF Places, InLock, Attempting
  <2>4. CallSound("idle", nav'[c], tab'[c], c \in permit', c)
    BY <2>1, <2>2, AutostartAssumption DEF CallSound, NoNav, AutostartAssumption, Failing
  <2> QED
    BY <2>1, <2>2, <2>3, <2>4, StepDoes, Known
<1>3. CASE AskForTab(c)
  <2>1. /\ pc[c] = "connect" /\ UNCHANGED <<autostart, permit, paused, nav>>
        /\ Now(c, "ask") /\ tab' = [tab EXCEPT ![c] = "asked"]
    BY <1>3 DEF AskForTab
  <2>2. "ask" \in Places \ InLock /\ "connect" \notin InLock
    BY DEF Places, InLock, Attempting
  <2>3. /\ tab' \in [Callers -> {"none", "asked", "open", "closing"}] /\ tab'[c] = "asked"
        /\ \A d \in Callers \ {c} : tab'[d] = tab[d]
    BY <2>1, Known
  <2>4. CallSound("ask", nav'[c], tab'[c], c \in permit', c)
    BY <2>1, <2>3, Known DEF CallSound
  <2> QED
    BY <2>1, <2>2, <2>3, <2>4, StepDoes, Known
<1> QED
  BY <1>1, <1>2, <1>3 DEF Attaches

LEMMA AskedDoes ==
  ASSUME AutostartAssumption, IInv, NEW c \in Callers, Asked(c)
  PROVE  Does(c)
<1>1. /\ pc[c] = "ask" /\ UNCHANGED <<autostart, permit, paused, tab>>
  BY DEF Asked, TargetKnown, TargetUnknown, pageVars
<1>2. {"claim", "load", "leave"} \subseteq Places \ InLock /\ "ask" \notin InLock
  BY DEF Places, InLock, Attempting
<1>3. CASE TargetKnown(c)
  <2>1. tab[c] = "open"
    BY <1>3 DEF TargetKnown
  <2>2. CASE Now(c, "claim") /\ nav' = [nav EXCEPT ![c].target = TRUE]
    <3>1. PICK n \in NavRecord : n = [nav[c] EXCEPT !.target = TRUE]
      BY Known DEF NavRecord
    <3>2. n.page = nav[c].page /\ n.target = TRUE /\ n.blocked = nav[c].blocked
      BY <3>1, Known DEF NavRecord
    <3>3. /\ nav' \in [Callers -> NavRecord] /\ nav'[c] = n
          /\ \A d \in Callers \ {c} : nav'[d] = nav[d]
      BY <2>2, <3>1, NavMoves, Known
    <3>4. CallSound("claim", nav'[c], tab'[c], c \in permit', c)
      BY <1>1, <2>1, <3>2, <3>3, Known DEF CallSound, InLock, Attempting
    <3> QED
      BY <1>1, <1>2, <2>2, <3>3, <3>4, StepDoes, Known
  <2>3. CASE Now(c, "load") /\ nav' = [nav EXCEPT ![c].target = TRUE, ![c].page = c]
    <3>1. PICK n \in NavRecord : n = [nav[c] EXCEPT !.target = TRUE, !.page = c]
      BY Known DEF NavRecord
    <3>2. n.page = c /\ n.target = TRUE /\ n.blocked = nav[c].blocked
      BY <3>1, Known DEF NavRecord
    <3>3. nav' = [nav EXCEPT ![c] = n]
      BY <2>3, <3>1, Known DEF NavRecord
    <3>4. /\ nav' \in [Callers -> NavRecord] /\ nav'[c] = n
          /\ \A d \in Callers \ {c} : nav'[d] = nav[d]
      BY <3>3, NavMoves, Known
    <3>5. CallSound("load", nav'[c], tab'[c], c \in permit', c)
      BY <1>1, <2>1, <3>2, <3>4, Known DEF CallSound, InLock, Attempting
    <3> QED
      BY <1>1, <1>2, <2>3, <3>4, <3>5, StepDoes, Known
  <2> QED
    BY <1>3, <2>2, <2>3 DEF TargetKnown
<1>4. CASE TargetUnknown(c)
  <2>1. Now(c, "leave") /\ nav' = nav
    BY <1>4 DEF TargetUnknown, pageVars
  <2>2. CallSound("leave", nav'[c], tab'[c], c \in permit', c)
    BY <1>1, <2>1, Known DEF CallSound, InLock, Attempting
  <2> QED
    BY <1>1, <1>2, <2>1, <2>2, StepDoes, Known
<1> QED
  BY <1>3, <1>4 DEF Asked

LEMMA ClaimsDoes ==
  ASSUME AutostartAssumption, IInv, NEW c \in Callers, Claims(c)
  PROVE  Does(c)
<1>1. {"claim", "claimed", "load"} \subseteq Places \ InLock
  BY DEF Places, InLock, Attempting
<1>2. CASE Claim(c)
  <2>1. /\ pc[c] = "claim" /\ UNCHANGED <<autostart, permit, paused, tab>>
        /\ nav' = [nav EXCEPT ![c].page = c]
    BY <1>2 DEF Claim
  <2>2. PICK x \in {"load", "claimed"} : Now(c, x)
    BY <1>2 DEF Claim
  <2>3. PICK n \in NavRecord : n = [nav[c] EXCEPT !.page = c]
    BY Known DEF NavRecord
  <2>4. n.page = c /\ n.target = nav[c].target /\ n.blocked = nav[c].blocked
    BY <2>3, Known DEF NavRecord
  <2>5. /\ nav' \in [Callers -> NavRecord] /\ nav'[c] = n
        /\ \A d \in Callers \ {c} : nav'[d] = nav[d]
    BY <2>1, <2>3, NavMoves, Known
  <2>6. CallSound(x, nav'[c], tab'[c], c \in permit', c)
    BY <2>1, <2>2, <2>4, <2>5, Known DEF CallSound, InLock, Attempting
  <2> QED
    BY <1>1, <2>1, <2>2, <2>5, <2>6, StepDoes, Known
<1>3. CASE Detached(c)
  <2>1. pc[c] = "claimed" /\ UNCHANGED <<autostart, permit, paused, tab, nav>> /\ Now(c, "load")
    BY <1>3 DEF Detached, pageVars
  <2>2. CallSound("load", nav'[c], tab'[c], c \in permit', c)
    BY <2>1, Known DEF CallSound, InLock, Attempting
  <2> QED
    BY <1>1, <2>1, <2>2, StepDoes, Known
<1> QED
  BY <1>2, <1>3 DEF Claims

LEMMA AbortedDoes ==
  ASSUME AutostartAssumption, IInv, NEW c \in Callers, Aborted(c) \/ OffHost(c) \/ UseEnds(c)
  PROVE  Does(c)
<1>1. /\ UNCHANGED <<autostart, permit, paused, nav>> /\ Shut(c) /\ Now(c, "leave")
      /\ pc[c] \in {"claim", "claimed", "load", "recheck", "settle", "yielded"}
  BY DEF Aborted, OffHost, UseEnds
<1>2. nav' = [nav EXCEPT ![c] = nav[c]]
  BY <1>1, Known
<1>3. ~nav[c].blocked
  BY <1>1, Known DEF CallSound
<1> QED
  BY <1>1, <1>2, <1>3, OutDoes, Known

\* The document of a page, as far as the call knows it.
LEMMA BlockedDoes ==
  ASSUME AutostartAssumption, IInv, NEW c \in Callers, NEW d \in Docs,
         d \in Failing, Blocked(c, d), pc[c] \in {"load", "recheck"}, UNCHANGED <<autostart, permit, paused>>
  PROVE  Does(c)
<1>1. PICK n \in NavRecord : n = [nav[c] EXCEPT !.doc = d, !.seen = d, !.blocked = TRUE]
  BY Known DEF NavRecord
<1>2. n.page = nav[c].page /\ n.target = nav[c].target /\ n.seen = d
  BY <1>1, Known DEF NavRecord
<1>3. nav' = [nav EXCEPT ![c] = n]
  BY <1>1, Known DEF Blocked, NavRecord
<1> QED
  BY <1>2, <1>3, OutDoes DEF Blocked

LEMMA AcceptedDoes ==
  ASSUME AutostartAssumption, IInv, NEW c \in Callers, NEW d \in Docs, NEW x \in {"settle", "recheck"},
         pc[c] \in {"load", "recheck"}, UNCHANGED <<autostart, permit, paused, tab>>,
         Now(c, x), nav' = [nav EXCEPT ![c].doc = d, ![c].seen = d],
         x = "settle" => d \notin Failing
  PROVE  Does(c)
<1>1. {"load", "recheck", "settle"} \subseteq Places \ InLock
  BY DEF Places, InLock, Attempting
<1>2. PICK n \in NavRecord : n = [nav[c] EXCEPT !.doc = d, !.seen = d]
  BY Known DEF NavRecord
<1>3. /\ n.page = nav[c].page /\ n.target = nav[c].target /\ n.seen = d
      /\ n.blocked = nav[c].blocked
  BY <1>2, Known DEF NavRecord
<1>4. nav' = [nav EXCEPT ![c] = n]
  BY <1>2, Known DEF NavRecord
<1>5. /\ nav' \in [Callers -> NavRecord] /\ nav'[c] = n
      /\ \A e \in Callers \ {c} : nav'[e] = nav[e]
  BY <1>4, NavMoves, Known
<1>6. CallSound(x, nav'[c], tab'[c], c \in permit', c)
  BY <1>3, <1>5, Known DEF CallSound, InLock, Attempting
<1> QED
  BY <1>1, <1>5, <1>6, StepDoes, Known

LEMMA DocumentsDoes ==
  ASSUME AutostartAssumption, IInv, NEW c \in Callers, Documents(c)
  PROVE  Does(c)
<1>1. {"blank", "wall"} \subseteq Docs /\ "blank" \notin Failing /\ {"wall", "refused"} \subseteq Failing
  BY DEF Docs, Failing
<1>2. CASE NothingLoads(c)
  BY <1>1, <1>2, AcceptedDoes DEF NothingLoads, Accepted
<1>3. CASE WallStays(c)
  BY <1>1, <1>3, BlockedDoes DEF WallStays
<1>4. ASSUME NEW d \in Docs, Loads(c, d)
      PROVE  Does(c)
  BY <1>1, <1>4, AcceptedDoes, BlockedDoes DEF Loads, Accepted
<1>5. ASSUME NEW d \in Docs, Reloads(c, d)
      PROVE  Does(c)
  BY <1>1, <1>5, AcceptedDoes, BlockedDoes DEF Reloads, Accepted
<1> QED
  BY <1>2, <1>3, <1>4, <1>5 DEF Documents

LEMMA YieldsDoes ==
  ASSUME AutostartAssumption, IInv, NEW c \in Callers, Yields(c)
  PROVE  Does(c)
<1>1. /\ pc[c] = "settle" /\ Now(c, "yielded") /\ UNCHANGED <<autostart, tab, nav>>
      /\ permit' = permit \ {c} /\ paused' \subseteq paused
      /\ IF nav[c].raw THEN nav[c].seen \notin OffPolicy ELSE nav[c].doc \notin OffPolicy
  BY DEF Yields, Url
<1>2. {"settle", "yielded"} \subseteq Places \ InLock
  BY DEF Places, InLock, Attempting
<1>3. ~nav[c].blocked /\ nav[c].seen \notin Failing
  BY <1>1, Known DEF CallSound
<1>4. CallSound("yielded", nav'[c], tab'[c], c \in permit', c)
  BY <1>1, <1>3, Known DEF CallSound, InLock, Attempting
<1> QED
  BY <1>1, <1>2, <1>3, <1>4, StepDoes, Known

LEMMA LeavesDoes ==
  ASSUME AutostartAssumption, OpenPageAssumption, IInv, NEW c \in Callers, Leaves(c)
  PROVE  Does(c)
<1>1. /\ pc[c] = "leave" /\ Now(c, "idle") /\ UNCHANGED <<autostart, tab>>
      /\ permit' = permit \ {c} /\ nav' = [nav EXCEPT ![c] = NoNav]
      /\ paused' \subseteq paused \union {HostOf[c]}
  BY DEF Leaves, Ends
<1>2. {"leave", "idle"} \subseteq Places \ InLock
  BY DEF Places, InLock, Attempting
<1>3. paused' \subseteq Hosts
  BY <1>1, Known DEF OpenPageAssumption
<1>4. /\ nav' \in [Callers -> NavRecord] /\ nav'[c] = NoNav
      /\ \A d \in Callers \ {c} : nav'[d] = nav[d]
  BY <1>1, NavMoves, NoNavType, Known
<1>5. CallSound("idle", nav'[c], tab'[c], c \in permit', c)
  BY <1>1, <1>4 DEF CallSound, NoNav, AutostartAssumption
<1> QED
  BY <1>1, <1>2, <1>3, <1>4, <1>5, StepDoes, Known

\* Chrome answers, or the page moves, and the call does not notice yet.
LEMMA BehindDoes ==
  ASSUME AutostartAssumption, IInv, NEW c \in Callers,
         TabCreated(c) \/ TabCloses(c) \/ \E d \in Docs : Moves(c, d)
  PROVE  Does(c)
<1>1. UNCHANGED <<autostart, pc, permit, paused>>
  BY DEF TabCreated, TabCloses, Moves
<1>2. /\ tab' \in [Callers -> {"none", "asked", "open", "closing"}]
      /\ \A e \in Callers \ {c} : tab'[e] = tab[e]
      /\ tab'[c] # tab[c] => tab[c] \in {"asked", "closing"} /\ tab'[c] \in {"open", "none"}
      /\ tab'[c] = "open" => tab[c] \in {"open", "asked"}
  BY Known DEF TabCreated, TabCloses, Moves
<1>3. PICK n \in NavRecord :
        /\ nav' = [nav EXCEPT ![c] = n]
        /\ n.page = nav[c].page /\ n.target = nav[c].target /\ n.seen = nav[c].seen
        /\ n.blocked = nav[c].blocked
  <2>1. CASE nav' = nav
    BY <2>1, Known
  <2>2. ASSUME NEW d \in Docs, Moves(c, d)
        PROVE  \E n \in NavRecord :
                 /\ nav' = [nav EXCEPT ![c] = n]
                 /\ n.page = nav[c].page /\ n.target = nav[c].target /\ n.seen = nav[c].seen
                 /\ n.blocked = nav[c].blocked
    <3>1. PICK n \in NavRecord : n = [nav[c] EXCEPT !.doc = d]
      BY Known DEF NavRecord
    <3> QED
      BY <2>2, <3>1, Known DEF Moves, NavRecord
  <2> QED
    BY <2>1, <2>2 DEF TabCreated, TabCloses
<1>4. /\ nav' \in [Callers -> NavRecord] /\ nav'[c] = n
      /\ \A e \in Callers \ {c} : nav'[e] = nav[e]
  BY <1>3, NavMoves, Known
<1>5. CallSound(pc'[c], nav'[c], tab'[c], c \in permit', c)
  BY <1>1, <1>2, <1>3, <1>4, Known DEF CallSound
<1>6. /\ StartType' /\ LockAgrees' /\ BurntWait'
      /\ c \in burnt => pc'[c] # "spawning"
  BY <1>1, OutOfLock, Known
<1>7. PageType'
  BY <1>1, <1>2, <1>4, Known DEF PageType
<1>8. OthersKept(c)
  BY <1>1, <1>2, <1>4 DEF OthersKept
<1>9. Behaves(c)
  BY <1>1, <1>2, <1>6 DEF Behaves
<1> QED
  BY <1>5, <1>6, <1>7, <1>8, <1>9 DEF Does

-----------------------------------------------------------------------------
(* Chrome, the clock and the rest of the world.                             *)

WorldDoes ==
  /\ StartType' /\ PageType' /\ LockAgrees' /\ BurntWait'
  /\ UNCHANGED <<pc, permit, nav>>
  /\ \A d \in Callers : tab'[d] \in {tab[d], "none"}

LEMMA WorldMoves ==
  ASSUME AutostartAssumption, OpenPageAssumption, IInv,
         ChromeChanges \/ TimePasses \/ \E h \in Hosts : CooldownElapses(h)
  PROVE  WorldDoes
<1>1. UNCHANGED <<holder, queue, pc, burnt, permit, nav>>
  BY DEF ChromeChanges, Environment, StartedElsewhere, ChromeBinds, ChromeDies, TimePasses, Tick,
         CooldownElapses, pageVars, autostart
<1>2. LockAgrees'
  BY <1>1 DEF IInv, LockAgrees
<1>3. tab' \in [Callers -> {"none", "asked", "open", "closing"}] /\ \A d \in Callers : tab'[d] \in {tab[d], "none"}
  <2>1. tab' = tab \/ tab' = [d \in Callers |-> "none"]
    BY DEF ChromeChanges, TimePasses, CooldownElapses, pageVars
  <2> QED
    BY <2>1 DEF IInv, PageType
<1>4. paused' \subseteq paused
  BY DEF ChromeChanges, TimePasses, CooldownElapses, pageVars
<1>5. PageType'
  BY <1>1, <1>3, <1>4 DEF IInv, PageType
<1>6. failure' \in Nat /\ left' \in Nat /\ (burnt # {} => failure' = failure)
  <2>1. CASE TimePasses
    <3>1. burnt = {}
      <4> SUFFICES ASSUME NEW c \in burnt
                   PROVE  FALSE
        OBVIOUS
      <4>1. pc[c] = "queued" /\ c \in Callers /\ holder = None
        BY DEF IInv, BurntWait, Queued
      <4>2. c \in InLine(queue)
        BY <4>1 DEF IInv, LockAgrees
      <4>3. queue # <<>>
        BY <4>2 DEF InLine
      <4> QED
        BY <2>1, <4>1, <4>3 DEF TimePasses, Tick
    <3>2. failure \in Nat /\ left \in Nat
      BY DEF IInv, StartType
    <3> QED
      BY <2>1, <3>1, <3>2 DEF TimePasses, Tick
  <2>2. CASE UNCHANGED memory
    BY <2>2 DEF IInv, StartType, memory
  <2> QED
    BY <2>1, <2>2 DEF ChromeChanges, Environment, StartedElsewhere, ChromeBinds, ChromeDies,
                      CooldownElapses, autostart
<1>7. loopback' \in BOOLEAN /\ port' \in BOOLEAN /\ launched' \in BOOLEAN
  <2>1. loopback \in BOOLEAN /\ port \in BOOLEAN /\ launched \in BOOLEAN
    BY DEF IInv, StartType
  <2> QED
    BY <2>1 DEF ChromeChanges, Environment, StartedElsewhere, ChromeBinds, ChromeDies, TimePasses, Tick,
                CooldownElapses, autostart, chrome
<1>8. StartType'
  BY <1>1, <1>6, <1>7 DEF IInv, StartType
<1>9. BurntWait'
  BY <1>1, <1>6 DEF IInv, BurntWait, Queued
<1> QED
  BY <1>1, <1>2, <1>3, <1>5, <1>8, <1>9 DEF WorldDoes

LEMMA WorldKeeps ==
  ASSUME IInv, WorldDoes
  PROVE  IInv'
<1>1. CallsSound'
  <2> SUFFICES ASSUME NEW c \in Callers
               PROVE  CallSound(pc'[c], nav'[c], tab'[c], c \in permit', c)
    BY DEF CallsSound
  <2>1. CallSound(pc[c], nav[c], tab[c], c \in permit, c)
    BY Known
  <2> QED
    BY <2>1 DEF WorldDoes, CallSound
<1> QED
  BY <1>1 DEF IInv, WorldDoes

-----------------------------------------------------------------------------
(* Every step.                                                              *)

LEMMA CallKeeps ==
  ASSUME IInv, NEW c \in Callers, Does(c)
  PROVE  IInv'
<1>1. CallsSound'
  <2> SUFFICES ASSUME NEW d \in Callers
               PROVE  CallSound(pc'[d], nav'[d], tab'[d], d \in permit', d)
    BY DEF CallsSound
  <2>1. CASE d = c
    BY <2>1 DEF Does
  <2>2. CASE d # c
    <3>1. CallSound(pc[d], nav[d], tab[d], d \in permit, d)
      BY Known
    <3> QED
      BY <2>2, <3>1 DEF Does, OthersKept, CallSound
  <2> QED
    BY <2>1, <2>2
<1> QED
  BY <1>1 DEF IInv, Does

LEMMA NextIs ==
  ASSUME AutostartAssumption, OpenPageAssumption, IInv, Next
  PROVE  WorldDoes \/ \E c \in Callers : Does(c)
<1>1. ASSUME NEW c \in Callers, Step(c)
      PROVE  Does(c)
  <2>1. OffHost(c) => Does(c)
    BY AbortedDoes
  <2> QED
    BY <1>1, <2>1, AttachDoes, AttachesDoes, AskedDoes, ClaimsDoes, AbortedDoes, DocumentsDoes, YieldsDoes,
       LeavesDoes DEF Step, Settles
<1>2. ASSUME NEW c \in Callers,
             Begin(c) \/ Step(c) \/ UseEnds(c) \/ TabCreated(c) \/ TabCloses(c) \/ \E d \in Docs : Moves(c, d)
      PROVE  Does(c)
  <2>1. CASE Begin(c)
    BY <2>1, BeginDoes
  <2>2. CASE Step(c)
    BY <2>2, <1>1
  <2>3. CASE UseEnds(c)
    BY <2>3, AbortedDoes
  <2>4. CASE TabCreated(c) \/ TabCloses(c) \/ \E d \in Docs : Moves(c, d)
    BY <2>4, BehindDoes
  <2> QED
    BY <1>2, <2>1, <2>2, <2>3, <2>4
<1> QED
  BY <1>2, WorldMoves DEF Next

LEMMA InitInv ==
  ASSUME AutostartAssumption, OpenPageAssumption, Init
  PROVE  IInv
<1>1. StartType
  BY DEF Init, AutostartInit, StartType
<1>2. PageType
  BY NoNavType DEF Init, AutostartInit, PageType, Places
<1>3. InLine(queue) = {} /\ OnceEach(queue)
  BY DEF Init, AutostartInit, InLine, OnceEach
<1>4. LockAgrees
  BY <1>3 DEF Init, AutostartInit, LockAgrees, Attempting, AutostartAssumption
<1>5. BurntWait
  BY DEF Init, AutostartInit, BurntWait
<1>6. CallsSound
  BY DEF Init, AutostartInit, CallsSound, CallSound, NoNav, AutostartAssumption
<1> QED
  BY <1>1, <1>2, <1>4, <1>5, <1>6 DEF IInv

LEMMA NextInv ==
  ASSUME AutostartAssumption, OpenPageAssumption, IInv, [Next]_vars
  PROVE  IInv'
<1>1. CASE Next
  BY <1>1, NextIs, WorldKeeps, CallKeeps
<1>2. CASE UNCHANGED vars
  <2>1. StartType' /\ PageType'
    BY <1>2 DEF vars, IInv, StartType, PageType
  <2>2. LockAgrees' /\ BurntWait'
    BY <1>2 DEF vars, IInv, LockAgrees, BurntWait, Queued
  <2>3. CallsSound'
    BY <1>2 DEF vars, IInv, CallsSound
  <2> QED
    BY <2>1, <2>2, <2>3 DEF IInv
<1> QED
  BY <1>1, <1>2

LEMMA Inductive == Spec => []IInv
<1>1. Init => IInv
  BY InitInv, AutostartAssumption, OpenPageAssumption
<1>2. IInv /\ [Next]_vars => IInv'
  BY NextInv, AutostartAssumption, OpenPageAssumption
<1> QED
  BY <1>1, <1>2, PTL DEF Spec

-----------------------------------------------------------------------------
(* The theorems.                                                            *)

\* _AUTOSTART_LOCK is held by the call that starts Chrome and by no other, and
\* whoever waits for it is in its queue exactly once, however calls are
\* cancelled while they wait or start Chrome (get_browser()).
THEOREM OneAttemptAlways == Spec => []OneAttempt
<1>1. IInv => OneAttempt
  BY DEF IInv, LockAgrees, InLine, OnceEach, OneAttempt
<1> QED
  BY <1>1, Inductive, PTL

\* No call leaves open_page() with the tab it was named still open: it has told
\* Chrome to close it, wherever it failed or was cancelled.
THEOREM NoTabEverLeft == Spec => []NoTabLeft
<1>1. IInv => NoTabLeft
  BY DEF IInv, CallsSound, CallSound, NoTabLeft
<1> QED
  BY <1>1, Inductive, PTL

\* What no step of the whole may do, from what no step of a call does.
LEMMA EveryStepBehaves ==
  ASSUME AutostartAssumption, OpenPageAssumption, IInv, [Next]_vars, NEW c \in Callers
  PROVE  Behaves(c)
<1>1. CASE UNCHANGED vars \/ WorldDoes
  <2>1. pc'[c] = pc[c] /\ tab'[c] \in {tab[c], "none"}
    BY <1>1 DEF vars, WorldDoes
  <2>2. c \in burnt => pc[c] = "queued"
    BY DEF IInv, BurntWait, Queued
  <2> QED
    BY <2>1, <2>2 DEF Behaves
<1>2. ASSUME NEW d \in Callers, Does(d)
      PROVE  Behaves(c)
  <2>1. CASE d = c
    BY <1>2, <2>1 DEF Does
  <2>2. CASE d # c
    <3>1. pc'[c] = pc[c] /\ tab'[c] = tab[c]
      BY <1>2, <2>2 DEF Does, OthersKept
    <3>2. c \in burnt => pc[c] = "queued"
      BY DEF IInv, BurntWait, Queued
    <3> QED
      BY <3>1, <3>2 DEF Behaves
  <2> QED
    BY <2>1, <2>2
<1> QED
  BY <1>1, <1>2, NextIs

\* A call that waited on the lock through a failed attempt takes the failure it
\* finds remembered, and does not start Chrome again (_ensure_cdp_running()).
THEOREM FailureAlwaysPaidOnce == Spec => FailurePaidOnce
<1>1. IInv /\ [Next]_vars => \A c \in Callers : c \in burnt => pc'[c] # "spawning"
  BY EveryStepBehaves, AutostartAssumption, OpenPageAssumption DEF Behaves
<1>2. IInv /\ [Next]_vars => [\A c \in Callers : c \in burnt => pc'[c] # "spawning"]_autostartVars
  BY <1>1
<1> QED
  BY <1>2, Inductive, PTL DEF Spec, FailurePaidOnce

\* No tab is closed under a call that still drives it, whichever calls share the
\* browser: a call closes the tab it was named or drives, and both are its own.
THEOREM PagesAlwaysKept == Spec => PagesKept
<1>1. IInv /\ [Next]_vars =>
        \A c \in Callers : tab[c] = "open" /\ tab'[c] = "closing" => pc[c] # "leave" /\ pc'[c] = "leave"
  BY EveryStepBehaves, AutostartAssumption, OpenPageAssumption DEF Behaves
<1> QED
  BY <1>1, Inductive, PTL DEF Spec, PagesKept

\* open_page() yields no page on a document its host refused, and none whose URL,
\* as far as the transport knows it, is outside the policy.
THEOREM YieldsAlwaysJudged == Spec => YieldsJudged
<1>1. IInv /\ [Next]_vars =>
        \A c \in Callers : pc[c] = "settle" /\ pc'[c] = "yielded" =>
          /\ nav[c].seen \notin Failing
          /\ IF nav[c].raw THEN nav[c].seen \notin OffPolicy ELSE nav[c].doc \notin OffPolicy
  BY EveryStepBehaves, AutostartAssumption, OpenPageAssumption DEF Behaves
<1> QED
  BY <1>1, Inductive, PTL DEF Spec, YieldsJudged

\* Only a call that leaves opens a breaker.
LEMMA Earned ==
  ASSUME AutostartAssumption, OpenPageAssumption, IInv, Next, NEW h \in paused' \ paused
  PROVE  \E c \in permit : HostOf[c] = h /\ pc[c] = "leave" /\ pc'[c] = "idle" /\ nav[c].seen \in Failing
<1>1. ASSUME NEW c \in Callers, Leaves(c)
      PROVE  c \in permit /\ HostOf[c] = h /\ pc[c] = "leave" /\ pc'[c] = "idle" /\ nav[c].seen \in Failing
  <2>1. nav[c].blocked /\ paused' = paused \union {HostOf[c]}
    BY <1>1 DEF Leaves
  <2>2. pc[c] = "leave" /\ pc'[c] = "idle"
    BY <1>1, Known DEF Leaves, Ends, Now
  <2> QED
    BY <2>1, <2>2, Known DEF CallSound
<1>2. ASSUME NEW c \in Callers, Begin(c)
      PROVE  FALSE
  BY <1>2 DEF Begin
<1>3. ASSUME NEW c \in Callers, Step(c), ~Leaves(c)
      PROVE  FALSE
  <2>1. paused' \subseteq paused
    BY <1>3 DEF Step, Attach, Attaches, AttachTimesOut, AttachFails, AskForTab, Asked, TargetKnown,
                TargetUnknown, Claims, Claim, Detached, Aborted, Documents, NothingLoads, WallStays,
                Loads, Reloads, Settles, Yields, OffHost, pageVars
  <2> QED
    BY <2>1
<1>4. ASSUME NEW c \in Callers,
             UseEnds(c) \/ TabCreated(c) \/ TabCloses(c) \/ \E d \in Docs : Moves(c, d)
      PROVE  FALSE
  BY <1>4 DEF UseEnds, TabCreated, TabCloses, Moves
<1>5. CASE ChromeChanges \/ TimePasses \/ \E g \in Hosts : CooldownElapses(g)
  BY <1>5 DEF ChromeChanges, TimePasses, CooldownElapses, pageVars
<1> QED
  BY <1>1, <1>2, <1>3, <1>4, <1>5, Known DEF Next

\* A host is paused only by what it refused: whatever else ends a navigation, a
\* 403 that reloads, a timeout, a cancellation, a page outside the policy, is
\* never counted against it.
THEOREM BreakerAlwaysEarned == Spec => BreakerEarned
<1>1. IInv /\ [Next]_vars =>
        \A h \in paused' \ paused : \E c \in permit :
          HostOf[c] = h /\ pc[c] = "leave" /\ pc'[c] = "idle" /\ nav[c].seen \in Failing
  <2> SUFFICES ASSUME IInv, [Next]_vars, NEW h \in paused' \ paused
               PROVE  \E c \in permit :
                        HostOf[c] = h /\ pc[c] = "leave" /\ pc'[c] = "idle" /\ nav[c].seen \in Failing
    OBVIOUS
  <2>1. Next
    BY DEF vars
  <2> QED
    BY <2>1, Earned, AutostartAssumption, OpenPageAssumption
<1> QED
  BY <1>1, Inductive, PTL DEF Spec, BreakerEarned

-----------------------------------------------------------------------------
(* The permits.                                                             *)

\* Both modules count with the same operator.
LEMMA SameCount == \A S : Admission!Cardinality(S) = Cardinality(S)
BY DEF Admission!Cardinality, Cardinality

Admits == Admission!Next \/ UNCHANGED <<permit, paused>>

LEMMA GivesBack ==
  ASSUME NEW c \in Callers,
         permit' = permit \/ permit' = permit \ {c},
         \/ paused' \subseteq paused
         \/ c \in permit /\ permit' = permit \ {c} /\ paused' \subseteq paused \union {HostOf[c]}
  PROVE  Admits
<1>1. CASE permit' = permit
  <2>1. Admission!Resume
    BY <1>1 DEF Admission!Resume
  <2> QED
    BY <2>1 DEF Admission!Next, Admits
<1>2. CASE c \in permit /\ permit' = permit \ {c}
  <2>1. Admission!Leave(c)
    BY <1>2 DEF Admission!Leave
  <2> QED
    BY <2>1 DEF Admission!Next, Admits
<1> QED
  BY <1>1, <1>2

LEMMA NextAdmits ==
  ASSUME AutostartAssumption, OpenPageAssumption, IInv, Next
  PROVE  Admits
<1>1. ASSUME NEW c \in Callers, Begin(c)
      PROVE  Admits
  <2>1. c \notin permit
    BY <1>1, Known DEF Begin, CallSound
  <2>2. CASE permit' = permit
    BY <1>1, <2>2, GivesBack DEF Begin
  <2>3. CASE permit' = permit \union {c}
    <3>1. Admission!Enter(c)
      BY <1>1, <2>1, <2>3, SameCount DEF Begin, Admitted, Admission!Enter, Admission!On
    <3> QED
      BY <3>1 DEF Admission!Next, Admits
  <2> QED
    BY <1>1, <2>2, <2>3 DEF Begin
<1>2. ASSUME NEW c \in Callers, UNCHANGED <<permit, paused>>
      PROVE  Admits
  BY <1>2 DEF Admits
<1>3. ASSUME NEW c \in Callers, Step(c)
      PROVE  Admits
  <2>1. CASE Attach(c) \/ Attaches(c)
    BY <2>1, GivesBack DEF Attach, Attaches, AttachTimesOut, AttachFails, AskForTab, Ends
  <2>2. CASE Asked(c) \/ Claims(c) \/ Aborted(c) \/ Documents(c) \/ OffHost(c)
    BY <2>2, <1>2 DEF Asked, TargetKnown, TargetUnknown, Claims, Claim, Detached, Aborted, Documents,
                      NothingLoads, WallStays, Loads, Reloads, OffHost, pageVars
  <2>3. CASE Yields(c)
    BY <2>3, GivesBack DEF Yields
  <2>4. CASE Leaves(c)
    <3>1. nav[c].blocked => c \in permit
      BY Known DEF CallSound
    <3>2. /\ permit' = permit \ {c}
          /\ \/ paused' = paused
             \/ nav[c].blocked /\ paused' \subseteq paused \union {HostOf[c]}
      BY <2>4 DEF Leaves, Ends
    <3> QED
      BY <3>1, <3>2, GivesBack
  <2> QED
    BY <1>3, <2>1, <2>2, <2>3, <2>4 DEF Step, Settles
<1>4. ASSUME NEW c \in Callers,
             UseEnds(c) \/ TabCreated(c) \/ TabCloses(c) \/ \E d \in Docs : Moves(c, d)
      PROVE  Admits
  BY <1>4, <1>2 DEF UseEnds, TabCreated, TabCloses, Moves
<1>5. CASE ChromeChanges \/ TimePasses
  BY <1>5 DEF ChromeChanges, TimePasses, pageVars, Admits
<1>6. ASSUME NEW h \in Hosts, CooldownElapses(h)
      PROVE  Admits
  <2>1. Admission!Resume
    BY <1>6 DEF CooldownElapses, Admission!Resume
  <2> QED
    BY <2>1 DEF Admission!Next, Admits
<1> QED
  BY <1>1, <1>3, <1>4, <1>5, <1>6 DEF Next

\* open_page() takes and gives back navigation permits as the budget promises
\* (cdp_budget.py): never beyond the bounds, never on a paused host, and a host
\* is paused only by a navigation of its own.
THEOREM PagesUseAdmission == Spec => UsesAdmission
<1>1. Init => Admission!Init
  BY DEF Init, Admission!Init
<1>2. IInv /\ [Next]_vars => [Admission!Next]_(Admission!vars)
  <2> SUFFICES ASSUME IInv, [Next]_vars
               PROVE  [Admission!Next]_(Admission!vars)
    OBVIOUS
  <2>1. Admits
    BY NextAdmits, AutostartAssumption, OpenPageAssumption DEF vars, Admits
  <2> QED
    BY <2>1 DEF Admits, Admission!vars
<1> QED
  BY <1>1, <1>2, Inductive, PTL DEF Spec, UsesAdmission, Admission!Spec
=============================================================================
