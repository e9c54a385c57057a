------------------------ MODULE NavigationBudgetProofs ------------------------
(***************************************************************************)
(* Theorems about NavigationBudget, for every number of callers, hosts and *)
(* permits.  The semaphore operators are proved correct once; each action  *)
(* then says which callers it moves.                                       *)
(***************************************************************************)
EXTENDS NavigationBudget, FiniteSetTheorems, SequenceTheorems, TLAPS

-----------------------------------------------------------------------------
(* Lemmas about the semaphore operators.                                    *)

\* A semaphore in the state Balanced describes, typed.
Good(s, waiting, holders, permits) ==
  /\ s \in Semaphores
  /\ IsFiniteSet(holders)
  /\ permits \in Nat
  /\ Balanced(s, waiting, holders, permits)

\* The first k waiters are k different callers (the loop that wakes them in
\* Semaphore.acquire()'s finally clause hands out k permits).
LEMMA PrefixCount ==
  ASSUME NEW q \in Seq(Navs), NEW k \in 0..Len(q),
         \A i, j \in 1..Len(q) : q[i] = q[j] => i = j
  PROVE  /\ IsFiniteSet({q[i] : i \in 1..k})
         /\ Cardinality({q[i] : i \in 1..k}) = k
<1> DEFINE T == {q[i] : i \in 1..k}
           f == [i \in 1..k |-> q[i]]
<1>1. f \in [1..k -> T]
  OBVIOUS
<1>2. \A a, b \in 1..k : f[a] = f[b] => a = b
  OBVIOUS
<1>3. \A t \in T : \E a \in 1..k : f[a] = t
  OBVIOUS
<1>4. f \in Injection(1..k, T)
  BY <1>1, <1>2 DEF Injection, IsInjective
<1>4a. f \in Surjection(1..k, T)
  BY <1>1, <1>3 DEF Surjection
<1>4b. f \in Bijection(1..k, T)
  BY <1>4, <1>4a DEF Bijection
<1>5. ExistsBijection(1..k, T)
  BY <1>4b DEF ExistsBijection
<1>6. k \in Nat
  OBVIOUS
<1>7. IsFiniteSet(T)
  BY <1>5, <1>6, FS_NatBijection
<1> QED
  BY <1>5, <1>6, <1>7, FS_CountingElements

\* A caller that joins the queue (acquire() finding the semaphore locked).
LEMMA QueuedGood ==
  ASSUME NEW s, NEW W, NEW H, NEW c, Good(s, W, H, c),
         NEW n \in Navs, n \notin W
  PROVE  Good(Queued(s, n), W \union {n}, H, c)
<1> DEFINE q == s.queue
           t == Queued(s, n)
<1>1. /\ s.value \in Nat /\ q \in Seq(Navs) /\ IsFiniteSet(H) /\ c \in Nat
      /\ t = [value |-> s.value, queue |-> Append(q, n)]
  BY DEF Good, Semaphores, Queued, Sem
<1>2. /\ t.value = s.value /\ t.queue = Append(q, n) /\ t \in Semaphores
  BY <1>1 DEF Semaphores
<1>3. /\ Len(t.queue) = Len(q) + 1
      /\ \A i \in 1..Len(q) : t.queue[i] = q[i]
      /\ t.queue[Len(q) + 1] = n
  BY <1>1, <1>2
<1>4. /\ \A i, j \in 1..Len(q) : q[i] = q[j] => i = j
      /\ {q[i] : i \in 1..Len(q)} = W
      /\ s.value + Cardinality(H) = c
  BY DEF Good, Balanced, OnceEach, InLine
<1>5. \A i \in 1..Len(q) : q[i] # n
  BY <1>4
<1>6. Len(q) \in Nat
  BY <1>1
<1> HIDE DEF q, t
<1>7. \A i, j \in 1..(Len(q) + 1) : t.queue[i] = t.queue[j] => i = j
  BY <1>3, <1>4, <1>5, <1>6
<1>8. {t.queue[i] : i \in 1..(Len(q) + 1)} = W \union {n}
  <2>1. \A i \in 1..(Len(q) + 1) : i \in 1..Len(q) \/ i = Len(q) + 1
    BY <1>6
  <2>2. \A i \in 1..Len(q) : i \in 1..(Len(q) + 1)
    BY <1>6
  <2>3. Len(q) + 1 \in 1..(Len(q) + 1)
    BY <1>6
  <2> QED
    BY <2>1, <2>2, <2>3, <1>3, <1>4
<1> QED
  BY <1>1, <1>2, <1>3, <1>4, <1>7, <1>8 DEF Good, Balanced, OnceEach, InLine, t

\* A permit taken by a caller that found the semaphore unlocked.
LEMMA MinusGood ==
  ASSUME NEW s, NEW W, NEW H, NEW c, Good(s, W, H, c),
         NEW n, n \notin H, s.value # 0
  PROVE  Good(Minus(s), W, H \union {n}, c)
<1>1. /\ Minus(s) = [value |-> s.value - 1, queue |-> s.queue]
      /\ s.value \in Nat \ {0} /\ s.queue \in Seq(Navs)
  BY DEF Good, Semaphores, Minus, Sem
<1>2. /\ IsFiniteSet(H \union {n})
      /\ Cardinality(H \union {n}) = Cardinality(H) + 1
      /\ Cardinality(H) \in Nat
  BY FS_AddElement, FS_CardinalityType DEF Good
<1> QED
  BY <1>1, <1>2 DEF Good, Balanced, Semaphores, OnceEach, InLine

\* A permit taken back from a granted waiter that is cancelled.
LEMMA PlusGood ==
  ASSUME NEW s, NEW W, NEW H, NEW c, Good(s, W, H, c),
         NEW n, n \in H
  PROVE  Good(Plus(s), W, H \ {n}, c)
<1>1. /\ Plus(s) = [value |-> s.value + 1, queue |-> s.queue]
      /\ s.value \in Nat /\ s.queue \in Seq(Navs)
  BY DEF Good, Semaphores, Plus, Sem
<1>2. /\ IsFiniteSet(H \ {n})
      /\ Cardinality(H \ {n}) = Cardinality(H) - 1
      /\ Cardinality(H) \in Nat
  BY FS_RemoveElement, FS_CardinalityType DEF Good
<1>3. Plus(s) \in Semaphores
  BY <1>1 DEF Semaphores
<1>4. Balanced(Plus(s), W, H \ {n}, c)
  BY <1>1, <1>2 DEF Good, Balanced, OnceEach, InLine
<1> QED
  BY <1>2, <1>3, <1>4 DEF Good

\* A waiter that is cancelled leaves the queue, the others keep their order.
LEMMA WithoutGood ==
  ASSUME NEW s, NEW W, NEW H, NEW c, Good(s, W, H, c),
         NEW n \in W
  PROVE  Good(Without(s, n), W \ {n}, H, c)
<1> DEFINE q == s.queue
           p == Place(q, n)
           r == RemoveAt(q, p)
<1>1. /\ s.value \in Nat /\ q \in Seq(Navs) /\ IsFiniteSet(H) /\ c \in Nat
      /\ Without(s, n) = [value |-> s.value, queue |-> r]
  BY DEF Good, Semaphores, Without, Sem
<1>2. /\ \A i, j \in 1..Len(q) : q[i] = q[j] => i = j
      /\ {q[i] : i \in 1..Len(q)} = W
      /\ s.value + Cardinality(H) = c
  BY DEF Good, Balanced, OnceEach, InLine
<1>3. p \in 1..Len(q) /\ q[p] = n
  <2>1. \E i \in 1..Len(q) : q[i] = n
    BY <1>2
  <2> QED
    BY <2>1 DEF Place
<1>4. Len(q) \in Nat
  BY <1>1
<1> HIDE DEF p
<1>5. /\ r \in Seq(Navs)
      /\ Len(r) = Len(q) - 1
      /\ \A i \in 1..(Len(q) - 1) : r[i] = IF i < p THEN q[i] ELSE q[i + 1]
  <2> DEFINE a == SubSeq(q, 1, p - 1)
             b == SubSeq(q, p + 1, Len(q))
  <2>1. r = a \o b
    BY DEF RemoveAt
  <2>2. /\ a \in Seq(Navs) /\ Len(a) = p - 1
        /\ \A i \in 1..(p - 1) : a[i] = q[i]
    BY <1>1, <1>3, <1>4
  <2>3. /\ b \in Seq(Navs) /\ Len(b) = Len(q) - p
        /\ \A i \in 1..(Len(q) - p) : b[i] = q[i + p]
    BY <1>1, <1>3, <1>4
  <2> HIDE DEF a, b, r, q
  <2>4. /\ r \in Seq(Navs) /\ Len(r) = Len(q) - 1
        /\ \A i \in 1..(Len(q) - 1) : r[i] = IF i <= p - 1 THEN a[i] ELSE b[i - (p - 1)]
    BY <2>1, <2>2, <2>3, <1>3, <1>4
  <2>5. ASSUME NEW i \in 1..(Len(q) - 1)
        PROVE  r[i] = IF i < p THEN q[i] ELSE q[i + 1]
    <3>1. CASE i < p
      <4>1. i \in 1..(p - 1) /\ i <= p - 1
        BY <3>1, <1>3, <1>4
      <4> QED
        BY <4>1, <3>1, <2>2, <2>4
    <3>2. CASE ~(i < p)
      <4>1. i - (p - 1) \in 1..(Len(q) - p) /\ (i - (p - 1)) + p = i + 1 /\ ~(i <= p - 1)
        BY <3>2, <1>3, <1>4
      <4> QED
        BY <4>1, <3>2, <2>3, <2>4
    <3> QED
      BY <3>1, <3>2
  <2> QED
    BY <2>4, <2>5
<1> HIDE DEF q, r
<1>6. \A i, j \in 1..(Len(q) - 1) : r[i] = r[j] => i = j
  BY <1>2, <1>3, <1>4, <1>5
<1>7. {r[i] : i \in 1..(Len(q) - 1)} = W \ {n}
  <2>1. \A i \in 1..(Len(q) - 1) : r[i] \in W \ {n}
    BY <1>2, <1>3, <1>4, <1>5
  <2>2. ASSUME NEW m \in W \ {n}
        PROVE  \E i \in 1..(Len(q) - 1) : r[i] = m
    <3>1. PICK j \in 1..Len(q) : q[j] = m
      BY <1>2
    <3>2. CASE j < p
      BY <3>1, <3>2, <1>3, <1>4, <1>5
    <3>3. CASE j > p
      <4>1. j - 1 \in 1..(Len(q) - 1) /\ ~(j - 1 < p) /\ (j - 1) + 1 = j
        BY <3>3, <1>3, <1>4
      <4> QED
        BY <3>1, <4>1, <1>5
    <3>4. j # p
      BY <3>1, <1>3
    <3> QED
      BY <3>2, <3>3, <3>4, <1>3, <1>4
  <2> QED
    BY <2>1, <2>2
<1>8. /\ Without(s, n) \in Semaphores
      /\ Without(s, n).value = s.value
      /\ Without(s, n).queue = r
  BY <1>1, <1>5 DEF Semaphores
<1>9. Balanced(Without(s, n), W \ {n}, H, c)
  BY <1>2, <1>5, <1>6, <1>7, <1>8 DEF Balanced, OnceEach, InLine
<1> QED
  BY <1>1, <1>8, <1>9 DEF Good

\* t is s after its first k waiters were woken.
Wakes(s, t, k) ==
  /\ k \in 0..Len(s.queue)
  /\ t.queue = SubSeq(s.queue, k + 1, Len(s.queue))

\* What waking does, whatever happens to the value: the woken callers leave the
\* queue, and there are k of them.
LEMMA WokenFacts ==
  ASSUME NEW s \in Semaphores, NEW t \in Semaphores,
         NEW k, Wakes(s, t, k), OnceEach(s)
  PROVE  /\ OnceEach(t)
         /\ InLine(t) = InLine(s) \ Woken(s, t)
         /\ Woken(s, t) \subseteq InLine(s)
         /\ IsFiniteSet(Woken(s, t))
         /\ Cardinality(Woken(s, t)) = k
<1> DEFINE q == s.queue
           r == t.queue
           W == InLine(s)
<1>1. /\ q \in Seq(Navs) /\ Len(q) \in Nat /\ k \in 0..Len(q)
      /\ r = SubSeq(q, k + 1, Len(q))
  BY DEF Semaphores, Wakes
<1>2. /\ Len(r) = Len(q) - k
      /\ \A i \in 1..(Len(q) - k) : r[i] = q[i + k]
  BY <1>1
<1>3. Woken(s, t) = {q[i] : i \in 1..k}
  <2>1. Len(q) - Len(r) = k
    BY <1>1, <1>2
  <2> QED
    BY <2>1 DEF Woken
<1>4. /\ \A i, j \in 1..Len(q) : q[i] = q[j] => i = j
      /\ {q[i] : i \in 1..Len(q)} = W
  BY DEF OnceEach, InLine
<1>5. /\ IsFiniteSet(Woken(s, t))
      /\ Cardinality(Woken(s, t)) = k
  BY <1>1, <1>3, <1>4, PrefixCount
<1> HIDE DEF q, r, W
<1>6. ASSUME NEW i \in 1..Len(r), NEW j \in 1..Len(r), r[i] = r[j]
      PROVE  i = j
  <2>1. /\ i + k \in 1..Len(q) /\ j + k \in 1..Len(q)
        /\ q[i + k] = q[j + k]
    BY <1>1, <1>2, <1>6
  <2>2. i + k = j + k
    BY <2>1, <1>4
  <2> QED
    BY <2>2, <1>1, <1>2
<1>7. Woken(s, t) \subseteq W
  BY <1>1, <1>3, <1>4
<1>8. ASSUME NEW i \in 1..Len(r)
      PROVE  r[i] \in W \ Woken(s, t)
  <2>1. i + k \in 1..Len(q) /\ i + k > k /\ r[i] = q[i + k]
    BY <1>1, <1>2
  <2>2. \A j \in 1..k : j \in 1..Len(q) /\ j # i + k
    BY <1>1, <2>1
  <2> QED
    BY <2>1, <2>2, <1>3, <1>4
<1>9. ASSUME NEW m \in W, m \notin Woken(s, t)
      PROVE  \E i \in 1..Len(r) : r[i] = m
  <2>1. PICK j \in 1..Len(q) : q[j] = m
    BY <1>4
  <2>2. j > k
    BY <2>1, <1>1, <1>3, <1>9
  <2>3. j - k \in 1..Len(r) /\ (j - k) + k = j
    BY <2>2, <1>1, <1>2
  <2> QED
    BY <2>1, <2>3, <1>1, <1>2
<1>10. {r[i] : i \in 1..Len(r)} = W \ Woken(s, t)
  BY <1>8, <1>9
<1> QED
  BY <1>5, <1>6, <1>7, <1>10 DEF r, W, OnceEach, InLine

\* Draining a semaphore, or releasing one permit of it, wakes a prefix.
LEMMA DrainedWakes ==
  ASSUME NEW s \in Semaphores
  PROVE  /\ Drained(s) \in Semaphores
         /\ \E k \in Nat : /\ Wakes(s, Drained(s), k)
                           /\ Drained(s).value + k = s.value
<1>1. /\ s.value \in Nat /\ s.queue \in Seq(Navs) /\ Len(s.queue) \in Nat
  BY DEF Semaphores
<1>2. PICK k \in Nat : /\ k <= s.value /\ k <= Len(s.queue)
                       /\ Drained(s) = Sem(s.value - k, SubSeq(s.queue, k + 1, Len(s.queue)))
  BY <1>1 DEF Drained
<1>3. SubSeq(s.queue, k + 1, Len(s.queue)) \in Seq(Navs)
  BY <1>1, <1>2
<1>4. /\ Drained(s).value = s.value - k
      /\ Drained(s).queue = SubSeq(s.queue, k + 1, Len(s.queue))
  BY <1>2 DEF Sem
<1>5. Drained(s) \in Semaphores
  BY <1>1, <1>2, <1>3 DEF Sem, Semaphores
<1>6. Wakes(s, Drained(s), k)
  BY <1>1, <1>2, <1>4 DEF Wakes
<1>7. Drained(s).value + k = s.value
  BY <1>1, <1>2, <1>4
<1> QED
  BY <1>5, <1>6, <1>7

LEMMA ReleasedWakes ==
  ASSUME NEW s \in Semaphores
  PROVE  /\ Released(s) \in Semaphores
         /\ \E k \in Nat : /\ Wakes(s, Released(s), k)
                           /\ Released(s).value + k = s.value + 1
<1>1. /\ s.value \in Nat /\ s.queue \in Seq(Navs) /\ Len(s.queue) \in Nat
  BY DEF Semaphores
<1>2. CASE s.queue = <<>>
  <2>1. Released(s) = [value |-> s.value + 1, queue |-> s.queue]
    BY <1>2 DEF Released, Sem
  <2>2. s.queue = SubSeq(s.queue, 0 + 1, Len(s.queue))
    BY <1>1, <1>2
  <2>3. Released(s) \in Semaphores
    BY <2>1, <1>1 DEF Semaphores
  <2>4. Wakes(s, Released(s), 0)
    BY <2>1, <2>2, <1>1 DEF Wakes
  <2> QED
    BY <2>1, <2>3, <2>4, <1>1
<1>3. CASE s.queue # <<>>
  <2>1. Released(s) = [value |-> s.value, queue |-> Tail(s.queue)]
    BY <1>3 DEF Released, Sem
  <2>2. /\ Tail(s.queue) = SubSeq(s.queue, 1 + 1, Len(s.queue))
        /\ Tail(s.queue) \in Seq(Navs)
        /\ Len(s.queue) >= 1
    BY <1>1, <1>3
  <2>3. Released(s) \in Semaphores
    BY <2>1, <2>2, <1>1 DEF Semaphores
  <2>4. Wakes(s, Released(s), 1)
    BY <2>1, <2>2, <1>1 DEF Wakes
  <2>5. Released(s).value + 1 = s.value + 1
    BY <2>1
  <2> QED
    BY <2>3, <2>4, <2>5
<1> QED
  BY <1>2, <1>3

\* Waking in two rounds wakes the union.
LEMMA WakesTwice ==
  ASSUME NEW s \in Semaphores, NEW t \in Semaphores, NEW u \in Semaphores,
         NEW k \in Nat, NEW m \in Nat, Wakes(s, t, k), Wakes(t, u, m)
  PROVE  Wakes(s, u, k + m)
<1> DEFINE q == s.queue
           n == Len(q)
<1>1. q \in Seq(Navs) /\ n \in Nat /\ k <= n
  BY DEF Semaphores, Wakes
<1>2. /\ t.queue = SubSeq(q, k + 1, n)
      /\ Len(t.queue) = n - k
  BY <1>1 DEF Wakes
<1>3. m <= n - k
  BY <1>2 DEF Wakes
<1>4. u.queue = SubSeq(SubSeq(q, k + 1, n), m + 1, n - k)
  BY <1>2 DEF Wakes
<1> HIDE DEF q, n
<1>5. SubSeq(SubSeq(q, k + 1, n), m + 1, n - k) = SubSeq(q, k + m + 1, n)
  <2> DEFINE a == SubSeq(q, k + 1, n)
             b == SubSeq(a, m + 1, n - k)
             c == SubSeq(q, k + m + 1, n)
  <2>0. n = Len(q)
    BY DEF n
  <2>1. /\ a \in Seq(Navs) /\ Len(a) = n - k
        /\ \A i \in 1..(n - k) : a[i] = q[i + k]
    BY <1>1, <2>0
  <2>2. /\ c \in Seq(Navs) /\ Len(c) = n - k - m
        /\ \A i \in 1..(n - k - m) : c[i] = q[i + (k + m)]
    BY <1>1, <1>3, <2>0
  <2> HIDE DEF a
  <2>3. /\ b \in Seq(Navs) /\ Len(b) = n - k - m
        /\ \A i \in 1..(n - k - m) : b[i] = a[i + m]
    BY <1>1, <1>3, <2>1
  <2> HIDE DEF b, c
  <2>4. ASSUME NEW i \in 1..(n - k - m)
        PROVE  b[i] = c[i]
    <3>1. i + m \in 1..(n - k) /\ (i + m) + k = i + (k + m)
      BY <1>1, <1>3
    <3> QED
      BY <3>1, <2>1, <2>2, <2>3
  <2>5. b = c
    BY <2>2, <2>3, <2>4, <1>1, <1>3, SeqEqual
  <2> QED
    BY <2>5 DEF a, b, c
<1> QED
  BY <1>1, <1>3, <1>4, <1>5 DEF Wakes, q, n

\* After a step that wakes k waiters and changes the value by as much as the
\* holders it also removes, the books still balance.
LEMMA WakeGood ==
  ASSUME NEW s, NEW W, NEW H, NEW c, Good(s, W, H, c),
         NEW t \in Semaphores, NEW k \in Nat, Wakes(s, t, k),
         NEW G, G \subseteq H, W \intersect H = {},
         t.value + k = s.value + Cardinality(H) - Cardinality(G)
  PROVE  /\ Good(t, W \ Woken(s, t), G \union Woken(s, t), c)
         /\ Woken(s, t) \subseteq W
<1> DEFINE X == Woken(s, t)
<1>1. /\ s \in Semaphores /\ IsFiniteSet(H) /\ c \in Nat
      /\ OnceEach(s)
      /\ InLine(s) = W
      /\ s.value + Cardinality(H) = c
  BY DEF Good, Balanced
<1>2. /\ OnceEach(t)
      /\ InLine(t) = W \ X
      /\ X \subseteq W
      /\ IsFiniteSet(X)
      /\ Cardinality(X) = k
  BY <1>1, WokenFacts
<1> HIDE DEF X
<1>3. IsFiniteSet(G) /\ Cardinality(G) \in Nat /\ Cardinality(H) \in Nat
  BY <1>1, FS_Subset, FS_CardinalityType
<1>4. G \intersect X = {}
  BY <1>2
<1>5. /\ IsFiniteSet(G \union X)
      /\ Cardinality(G \union X) = Cardinality(G) + k
  <2>1. /\ IsFiniteSet(G \union X)
        /\ Cardinality(G \union X) = Cardinality(G) + Cardinality(X) - Cardinality(G \intersect X)
    BY <1>2, <1>3, FS_Union
  <2>2. Cardinality(G \intersect X) = 0
    BY <1>4, FS_EmptySet
  <2> QED
    BY <2>1, <2>2, <1>2, <1>3
<1>6. t.value \in Nat /\ s.value \in Nat
  BY <1>1 DEF Semaphores
<1>7. t.value + Cardinality(G \union X) = c
  <2>1. \A a, b, h, g, y \in Nat : a + k = b + h - g /\ b + h = y => a + (g + k) = y
    OBVIOUS
  <2>2. t.value + (Cardinality(G) + k) = c
    BY <2>1, <1>1, <1>3, <1>6
  <2> QED
    BY <2>2, <1>5
<1>8. Balanced(t, W \ X, G \union X, c)
  BY <1>2, <1>7 DEF Balanced
<1> QED
  BY <1>1, <1>2, <1>5, <1>8 DEF Good, X

\* The three ways a semaphore's state changes when a permit comes back or a
\* woken task resumes, in the terms the actions use.
LEMMA DrainedGood ==
  ASSUME NEW s, NEW W, NEW H, NEW c, Good(s, W, H, c), W \intersect H = {}
  PROVE  /\ Good(Drained(s), W \ Woken(s, Drained(s)), H \union Woken(s, Drained(s)), c)
         /\ Woken(s, Drained(s)) \subseteq W
<1>1. s \in Semaphores /\ IsFiniteSet(H)
  BY DEF Good
<1>2. Drained(s) \in Semaphores
  BY <1>1, DrainedWakes
<1>3. PICK k \in Nat : Wakes(s, Drained(s), k) /\ Drained(s).value + k = s.value
  BY <1>1, DrainedWakes
<1>4. Drained(s).value + k = s.value + Cardinality(H) - Cardinality(H)
  BY <1>1, <1>3, FS_CardinalityType DEF Semaphores
<1> QED
  BY <1>2, <1>3, <1>4, WakeGood

LEMMA ReleasedGood ==
  ASSUME NEW s, NEW W, NEW H, NEW c, Good(s, W, H, c), W \intersect H = {},
         NEW n \in H
  PROVE  /\ Good(Released(s), W \ Woken(s, Released(s)), (H \ {n}) \union Woken(s, Released(s)), c)
         /\ Woken(s, Released(s)) \subseteq W
<1>1. s \in Semaphores /\ IsFiniteSet(H)
  BY DEF Good
<1>2. Released(s) \in Semaphores
  BY <1>1, ReleasedWakes
<1>3. PICK k \in Nat : Wakes(s, Released(s), k) /\ Released(s).value + k = s.value + 1
  BY <1>1, ReleasedWakes
<1>4. Cardinality(H \ {n}) = Cardinality(H) - 1 /\ Cardinality(H) \in Nat
  BY <1>1, FS_RemoveElement, FS_CardinalityType
<1>5. Released(s).value + k = s.value + Cardinality(H) - Cardinality(H \ {n})
  BY <1>1, <1>3, <1>4 DEF Semaphores
<1>6. H \ {n} \subseteq H
  OBVIOUS
<1> QED
  BY <1>2, <1>3, <1>5, <1>6, WakeGood

LEMMA DrainedReleasedGood ==
  ASSUME NEW s, NEW W, NEW H, NEW c, Good(s, W, H, c), W \intersect H = {},
         NEW n \in H, NEW t, t = Released(Drained(s))
  PROVE  /\ Good(t, W \ Woken(s, t), (H \ {n}) \union Woken(s, t), c)
         /\ Woken(s, t) \subseteq W
<1> DEFINE d == Drained(s)
<1>1. s \in Semaphores /\ IsFiniteSet(H)
  BY DEF Good
<1>2. d \in Semaphores
  BY <1>1, DrainedWakes
<1>3. PICK k \in Nat : Wakes(s, d, k) /\ d.value + k = s.value
  BY <1>1, DrainedWakes
<1>4. t \in Semaphores
  BY <1>2, ReleasedWakes
<1>5. PICK m \in Nat : Wakes(d, t, m) /\ t.value + m = d.value + 1
  BY <1>2, ReleasedWakes
<1> HIDE DEF d
<1>6. Wakes(s, t, k + m)
  BY <1>1, <1>2, <1>3, <1>4, <1>5, WakesTwice
<1>7. Cardinality(H \ {n}) = Cardinality(H) - 1 /\ Cardinality(H) \in Nat
  BY <1>1, FS_RemoveElement, FS_CardinalityType
<1>8. t.value + (k + m) = s.value + Cardinality(H) - Cardinality(H \ {n})
  <2>1. s.value \in Nat /\ d.value \in Nat /\ t.value \in Nat
    BY <1>1, <1>2, <1>4 DEF Semaphores
  <2>2. \A a, b, e, h \in Nat : b + k = e /\ a + m = b + 1 => a + (k + m) = e + h - (h - 1)
    OBVIOUS
  <2> QED
    BY <2>1, <2>2, <1>3, <1>5, <1>7
<1>9. k + m \in Nat
  OBVIOUS
<1>10. H \ {n} \subseteq H
  OBVIOUS
<1> QED
  BY <1>4, <1>6, <1>8, <1>9, <1>10, WakeGood

-----------------------------------------------------------------------------
(* The books balance in every reachable state.                              *)

\* PermitsBalanced with the typing the lemmas above need.
AllGood ==
  /\ Good(globalSem, GlobalWaiters, GlobalHolders, MaxConcurrent)
  /\ \A h \in Hosts : Good(hostSem[h], HostWaiters(h), HostHolders(h), PerHost)

LEMMA AllGoodIs ==
  ASSUME TypeOK, PermitsBalanced
  PROVE  AllGood
<1>1. IsFiniteSet(Navs) /\ MaxConcurrent \in Nat /\ PerHost \in Nat
  BY NavsAssumption, LimitsAssumption
<1>2. GlobalHolders \subseteq Navs /\ \A h \in Hosts : HostHolders(h) \subseteq Navs
  BY DEF GlobalHolders, HostHolders
<1>3. IsFiniteSet(GlobalHolders) /\ \A h \in Hosts : IsFiniteSet(HostHolders(h))
  BY <1>1, <1>2, FS_Subset
<1> QED
  BY <1>1, <1>3 DEF AllGood, Good, PermitsBalanced, TypeOK

\* Which callers wait and hold after n moved to `to` and the waiters X of its
\* host and the global waiters Y were granted their permits.
Moved(n, to, X, Y) ==
  LET h == HostOf[n] IN
  /\ pc' \in [Navs -> PCs]
  /\ GlobalWaiters' = ((GlobalWaiters \ {n}) \ Y) \union (IF to = "globalQueue" THEN {n} ELSE {})
  /\ GlobalHolders' = ((GlobalHolders \ {n}) \union Y)
                      \union (IF to \in HasGlobalPermit THEN {n} ELSE {})
  /\ HostWaiters(h)' = ((HostWaiters(h) \ {n}) \ X) \union (IF to = "hostQueue" THEN {n} ELSE {})
  /\ HostHolders(h)' = ((HostHolders(h) \ {n}) \union X)
                       \union (IF to \in HasHostPermit THEN {n} ELSE {})
  /\ \A g \in Hosts \ {h} : HostWaiters(g)' = HostWaiters(g) /\ HostHolders(g)' = HostHolders(g)

LEMMA MoveFacts ==
  ASSUME TypeOK, NEW n \in Navs, NEW to \in PCs, NEW X, NEW Y,
         X \subseteq HostWaiters(HostOf[n]) \ {n},
         Y \subseteq GlobalWaiters \ {n},
         Move(n, to, X, Y)
  PROVE  Moved(n, to, X, Y)
<1>1. /\ \A m \in X : m \in Navs /\ HostOf[m] = HostOf[n] /\ pc[m] = "hostQueue" /\ m # n
      /\ \A m \in Y : m \in Navs /\ pc[m] = "globalQueue" /\ m # n
  BY DEF HostWaiters, GlobalWaiters
<1>2. pc' = [m \in Navs |-> IF m = n THEN to ELSE IF m \in X THEN "hostGranted"
                            ELSE IF m \in Y THEN "globalGranted" ELSE pc[m]]
  BY DEF Move
<1>3. pc \in [Navs -> PCs]
  BY DEF TypeOK
<1>4. pc' \in [Navs -> PCs]
  BY <1>2, <1>3 DEF PCs
<1>5. \A m \in Navs : /\ m = n => pc'[m] = to
                      /\ m \in X => pc'[m] = "hostGranted" /\ pc[m] = "hostQueue"
                      /\ m \in Y => pc'[m] = "globalGranted" /\ pc[m] = "globalQueue"
                      /\ m # n /\ m \notin X /\ m \notin Y => pc'[m] = pc[m]
  BY <1>1, <1>2
<1>6. GlobalWaiters' = ((GlobalWaiters \ {n}) \ Y) \union (IF to = "globalQueue" THEN {n} ELSE {})
  BY <1>1, <1>5 DEF GlobalWaiters
<1>7. GlobalHolders' = ((GlobalHolders \ {n}) \union Y)
                       \union (IF to \in HasGlobalPermit THEN {n} ELSE {})
  BY <1>1, <1>5 DEF GlobalHolders, HasGlobalPermit
<1>8. HostWaiters(HostOf[n])' = ((HostWaiters(HostOf[n]) \ {n}) \ X)
                                \union (IF to = "hostQueue" THEN {n} ELSE {})
  BY <1>1, <1>5 DEF HostWaiters
<1>9. HostHolders(HostOf[n])' = ((HostHolders(HostOf[n]) \ {n}) \union X)
                                \union (IF to \in HasHostPermit THEN {n} ELSE {})
  BY <1>1, <1>5 DEF HostHolders, HasHostPermit
<1>10. ASSUME NEW g \in Hosts \ {HostOf[n]}
       PROVE  /\ HostWaiters(g)' = HostWaiters(g)
              /\ HostHolders(g)' = HostHolders(g)
  BY <1>1, <1>5 DEF HostWaiters, HostHolders, HasHostPermit
<1> QED
  BY <1>4, <1>6, <1>7, <1>8, <1>9, <1>10 DEF Moved

\* A step that touches one host's semaphore leaves the others' books alone.
LEMMA HostUpdated ==
  ASSUME TypeOK, AllGood, NEW n \in Navs, NEW s,
         hostSem' = [hostSem EXCEPT ![HostOf[n]] = s],
         Good(s, HostWaiters(HostOf[n])', HostHolders(HostOf[n])', PerHost),
         \A g \in Hosts \ {HostOf[n]} : /\ HostWaiters(g)' = HostWaiters(g)
                                        /\ HostHolders(g)' = HostHolders(g),
         Good(globalSem', GlobalWaiters', GlobalHolders', MaxConcurrent)
  PROVE  AllGood' /\ hostSem' \in [Hosts -> Semaphores] /\ globalSem' \in Semaphores
<1>1. HostOf[n] \in Hosts
  BY NavsAssumption
<1>2. hostSem \in [Hosts -> Semaphores]
  BY DEF TypeOK
<1>3. s \in Semaphores /\ globalSem' \in Semaphores
  BY DEF Good
<1>4. ASSUME NEW g \in Hosts
      PROVE  Good(hostSem'[g], HostWaiters(g)', HostHolders(g)', PerHost)
  <2>1. CASE g = HostOf[n]
    <3>1. hostSem'[g] = s
      BY <2>1, <1>1, <1>2
    <3> QED
      BY <2>1, <3>1
  <2>2. CASE g # HostOf[n]
    <3>1. hostSem'[g] = hostSem[g] /\ HostWaiters(g)' = HostWaiters(g) /\ HostHolders(g)' = HostHolders(g)
      BY <2>2, <1>1, <1>2
    <3>2. Good(hostSem[g], HostWaiters(g), HostHolders(g), PerHost)
      BY DEF AllGood
    <3> QED
      BY <3>1, <3>2
  <2> QED
    BY <2>1, <2>2
<1> QED
  BY <1>1, <1>2, <1>3, <1>4 DEF AllGood

\* A caller outside acquire() neither waits nor holds; where else a caller
\* stands decides which of the four sets it is in.
LEMMA WhereFacts ==
  ASSUME TypeOK, NEW n \in Navs
  PROVE  /\ HostOf[n] \in Hosts
         /\ n \in GlobalWaiters <=> pc[n] = "globalQueue"
         /\ n \in GlobalHolders <=> pc[n] \in HasGlobalPermit
         /\ n \in HostWaiters(HostOf[n]) <=> pc[n] = "hostQueue"
         /\ n \in HostHolders(HostOf[n]) <=> pc[n] \in HasHostPermit
         /\ GlobalWaiters \intersect GlobalHolders = {}
         /\ HostWaiters(HostOf[n]) \intersect HostHolders(HostOf[n]) = {}
BY NavsAssumption
   DEF GlobalWaiters, GlobalHolders, HostWaiters, HostHolders, HasGlobalPermit, HasHostPermit

\* MoveFacts for a caller that stands outside and wakes nobody.
LEMMA EnterFacts ==
  ASSUME TypeOK, NEW n \in Navs, NEW to \in PCs, pc[n] \in Outside, Move(n, to, {}, {})
  PROVE  /\ pc' \in [Navs -> PCs]
         /\ GlobalWaiters' = IF to = "globalQueue" THEN GlobalWaiters \union {n} ELSE GlobalWaiters
         /\ GlobalHolders' = IF to \in HasGlobalPermit THEN GlobalHolders \union {n} ELSE GlobalHolders
         /\ HostWaiters(HostOf[n])' = IF to = "hostQueue" THEN HostWaiters(HostOf[n]) \union {n}
                                                          ELSE HostWaiters(HostOf[n])
         /\ HostHolders(HostOf[n])' = IF to \in HasHostPermit THEN HostHolders(HostOf[n]) \union {n}
                                                              ELSE HostHolders(HostOf[n])
         /\ \A g \in Hosts \ {HostOf[n]} : /\ HostWaiters(g)' = HostWaiters(g)
                                           /\ HostHolders(g)' = HostHolders(g)
<1>1. /\ n \notin GlobalWaiters /\ n \notin GlobalHolders
      /\ n \notin HostWaiters(HostOf[n]) /\ n \notin HostHolders(HostOf[n])
  BY WhereFacts DEF Outside, HasHostPermit, HasGlobalPermit
<1>2. {} \subseteq HostWaiters(HostOf[n]) \ {n} /\ {} \subseteq GlobalWaiters \ {n}
  OBVIOUS
<1>3. Moved(n, to, {}, {})
  BY <1>2, MoveFacts
<1>4. \A S : n \notin S => (S \ {n}) \ {} = S /\ (S \ {n}) \union {} = S
  OBVIOUS
<1> QED
  BY <1>1, <1>3, <1>4 DEF Moved

\* acquire(): every way of entering it keeps the books.
LEMMA AcquireGood ==
  ASSUME TypeOK, AllGood, NEW n \in Navs, Acquire(n)
  PROVE  AllGood' /\ pc' \in [Navs -> PCs] /\ hostSem' \in [Hosts -> Semaphores] /\ globalSem' \in Semaphores
<1> DEFINE h == HostOf[n]
<1>1. /\ h \in Hosts
      /\ Good(globalSem, GlobalWaiters, GlobalHolders, MaxConcurrent)
      /\ Good(hostSem[h], HostWaiters(h), HostHolders(h), PerHost)
  BY WhereFacts DEF AllGood
<1>2. /\ pc[n] \in Outside
      /\ n \notin GlobalWaiters /\ n \notin GlobalHolders
      /\ n \notin HostWaiters(h) /\ n \notin HostHolders(h)
  BY WhereFacts DEF Acquire, FailFast, QueueOnHost, QueueOnGlobal, AcquireAtOnce,
                    Outside, HasHostPermit, HasGlobalPermit
<1>3. hostSem \in [Hosts -> Semaphores]
  BY DEF TypeOK
<1>4. CASE FailFast(n)
  <2>1. Move(n, "refused", {}, {}) /\ hostSem' = hostSem /\ globalSem' = globalSem
    BY <1>4 DEF FailFast
  <2>2. /\ pc' \in [Navs -> PCs]
        /\ GlobalWaiters' = GlobalWaiters /\ GlobalHolders' = GlobalHolders
        /\ HostWaiters(h)' = HostWaiters(h) /\ HostHolders(h)' = HostHolders(h)
        /\ \A g \in Hosts \ {h} : HostWaiters(g)' = HostWaiters(g) /\ HostHolders(g)' = HostHolders(g)
    BY <1>2, <2>1, EnterFacts DEF PCs, Outside, HasHostPermit, HasGlobalPermit
  <2>3. hostSem' = [hostSem EXCEPT ![h] = hostSem[h]]
    BY <2>1, <1>1, <1>3
  <2> QED
    BY <2>1, <2>2, <2>3, <1>1, HostUpdated
<1>5. CASE QueueOnHost(n)
  <2>1. /\ Move(n, "hostQueue", {}, {}) /\ globalSem' = globalSem
        /\ hostSem' = [hostSem EXCEPT ![h] = Queued(hostSem[h], n)]
    BY <1>5 DEF QueueOnHost
  <2>2. /\ pc' \in [Navs -> PCs]
        /\ GlobalWaiters' = GlobalWaiters /\ GlobalHolders' = GlobalHolders
        /\ HostWaiters(h)' = HostWaiters(h) \union {n} /\ HostHolders(h)' = HostHolders(h)
        /\ \A g \in Hosts \ {h} : HostWaiters(g)' = HostWaiters(g) /\ HostHolders(g)' = HostHolders(g)
    BY <1>2, <2>1, EnterFacts DEF PCs, Outside, HasHostPermit, HasGlobalPermit
  <2>3. Good(Queued(hostSem[h], n), HostWaiters(h)', HostHolders(h)', PerHost)
    BY <2>2, <1>1, <1>2, QueuedGood
  <2> QED
    BY <2>1, <2>2, <2>3, <1>1, HostUpdated
<1>6. CASE QueueOnGlobal(n)
  <2>1. /\ Move(n, "globalQueue", {}, {}) /\ globalSem' = Queued(globalSem, n)
        /\ hostSem' = [hostSem EXCEPT ![h] = Minus(hostSem[h])]
        /\ hostSem[h].value # 0
    BY <1>6 DEF QueueOnGlobal, HostLocked
  <2>2. /\ pc' \in [Navs -> PCs]
        /\ GlobalWaiters' = GlobalWaiters \union {n} /\ GlobalHolders' = GlobalHolders
        /\ HostWaiters(h)' = HostWaiters(h) /\ HostHolders(h)' = HostHolders(h) \union {n}
        /\ \A g \in Hosts \ {h} : HostWaiters(g)' = HostWaiters(g) /\ HostHolders(g)' = HostHolders(g)
    BY <1>2, <2>1, EnterFacts DEF PCs, Outside, HasHostPermit, HasGlobalPermit
  <2>3. Good(Minus(hostSem[h]), HostWaiters(h)', HostHolders(h)', PerHost)
    BY <2>1, <2>2, <1>1, <1>2, MinusGood
  <2>4. Good(globalSem', GlobalWaiters', GlobalHolders', MaxConcurrent)
    BY <2>1, <2>2, <1>1, <1>2, QueuedGood
  <2> QED
    BY <2>1, <2>2, <2>3, <2>4, HostUpdated
<1>7. CASE AcquireAtOnce(n)
  <2>1. /\ Move(n, "navigating", {}, {}) /\ globalSem' = Minus(globalSem)
        /\ hostSem' = [hostSem EXCEPT ![h] = Minus(hostSem[h])]
        /\ hostSem[h].value # 0 /\ globalSem.value # 0
    BY <1>7 DEF AcquireAtOnce, HostLocked, GlobalLocked
  <2>2. /\ pc' \in [Navs -> PCs]
        /\ GlobalWaiters' = GlobalWaiters /\ GlobalHolders' = GlobalHolders \union {n}
        /\ HostWaiters(h)' = HostWaiters(h) /\ HostHolders(h)' = HostHolders(h) \union {n}
        /\ \A g \in Hosts \ {h} : HostWaiters(g)' = HostWaiters(g) /\ HostHolders(g)' = HostHolders(g)
    BY <1>2, <2>1, EnterFacts DEF PCs, Outside, HasHostPermit, HasGlobalPermit
  <2>3. Good(Minus(hostSem[h]), HostWaiters(h)', HostHolders(h)', PerHost)
    BY <2>1, <2>2, <1>1, <1>2, MinusGood
  <2>4. Good(globalSem', GlobalWaiters', GlobalHolders', MaxConcurrent)
    BY <2>1, <2>2, <1>1, <1>2, MinusGood
  <2> QED
    BY <2>1, <2>2, <2>3, <2>4, HostUpdated
<1> QED
  BY <1>4, <1>5, <1>6, <1>7 DEF Acquire

\* A granted host waiter that resumes keeps the books, whichever way it goes on.
LEMMA ResumeHostGood ==
  ASSUME TypeOK, AllGood, NEW n \in Navs, ResumeHost(n)
  PROVE  AllGood' /\ pc' \in [Navs -> PCs] /\ hostSem' \in [Hosts -> Semaphores] /\ globalSem' \in Semaphores
<1> DEFINE h == HostOf[n]
           d == Drained(hostSem[h])
           X == Woken(hostSem[h], d)
<1>1. /\ h \in Hosts
      /\ Good(globalSem, GlobalWaiters, GlobalHolders, MaxConcurrent)
      /\ Good(hostSem[h], HostWaiters(h), HostHolders(h), PerHost)
      /\ HostWaiters(h) \intersect HostHolders(h) = {}
  BY WhereFacts DEF AllGood
<1>2. /\ n \notin GlobalWaiters /\ n \notin GlobalHolders
      /\ n \notin HostWaiters(h) /\ n \in HostHolders(h)
  BY WhereFacts DEF ResumeHost, ResumeHostThenQueue, ResumeHostThenHandOut, ResumeHostThenRefuse,
                    HasHostPermit, HasGlobalPermit
<1>3. /\ Good(d, HostWaiters(h) \ X, HostHolders(h) \union X, PerHost)
      /\ X \subseteq HostWaiters(h)
  BY <1>1, DrainedGood
<1>4. X \subseteq HostWaiters(h) \ {n} /\ {} \subseteq GlobalWaiters \ {n}
  BY <1>2, <1>3
<1> HIDE DEF X, d
<1>5. CASE ResumeHostThenQueue(n)
  <2>1. /\ Move(n, "globalQueue", X, {}) /\ globalSem' = Queued(globalSem, n)
        /\ hostSem' = [hostSem EXCEPT ![h] = d]
    BY <1>5 DEF ResumeHostThenQueue, X, d
  <2>2. Moved(n, "globalQueue", X, {})
    BY <1>4, <2>1, MoveFacts DEF PCs
  <2>3. /\ GlobalWaiters' = GlobalWaiters \union {n} /\ GlobalHolders' = GlobalHolders
        /\ HostWaiters(h)' = HostWaiters(h) \ X /\ HostHolders(h)' = HostHolders(h) \union X
    BY <2>2, <1>2, <1>4 DEF Moved, HasHostPermit, HasGlobalPermit
  <2>4. Good(globalSem', GlobalWaiters', GlobalHolders', MaxConcurrent)
    BY <2>1, <2>3, <1>1, <1>2, QueuedGood
  <2>5. Good(d, HostWaiters(h)', HostHolders(h)', PerHost)
    BY <2>3, <1>3
  <2> QED
    BY <2>1, <2>2, <2>4, <2>5, HostUpdated DEF Moved
<1>6. CASE ResumeHostThenHandOut(n)
  <2>1. /\ Move(n, "navigating", X, {}) /\ globalSem' = Minus(globalSem)
        /\ hostSem' = [hostSem EXCEPT ![h] = d] /\ globalSem.value # 0
    BY <1>6 DEF ResumeHostThenHandOut, GlobalLocked, X, d
  <2>2. Moved(n, "navigating", X, {})
    BY <1>4, <2>1, MoveFacts DEF PCs
  <2>3. /\ GlobalWaiters' = GlobalWaiters /\ GlobalHolders' = GlobalHolders \union {n}
        /\ HostWaiters(h)' = HostWaiters(h) \ X /\ HostHolders(h)' = HostHolders(h) \union X
    BY <2>2, <1>2, <1>4 DEF Moved, HasHostPermit, HasGlobalPermit
  <2>4. Good(globalSem', GlobalWaiters', GlobalHolders', MaxConcurrent)
    BY <2>1, <2>3, <1>1, <1>2, MinusGood
  <2>5. Good(d, HostWaiters(h)', HostHolders(h)', PerHost)
    BY <2>3, <1>3
  <2> QED
    BY <2>1, <2>2, <2>4, <2>5, HostUpdated DEF Moved
<1>7. CASE ResumeHostThenRefuse(n)
  <2> DEFINE s == Released(Drained(hostSem[h]))
             Z == Woken(hostSem[h], s)
  <2>1. /\ Good(s, HostWaiters(h) \ Z, (HostHolders(h) \ {n}) \union Z, PerHost)
        /\ Z \subseteq HostWaiters(h)
    BY <1>1, <1>2, DrainedReleasedGood
  <2>2. Z \subseteq HostWaiters(h) \ {n}
    BY <2>1, <1>2
  <2> HIDE DEF Z, s
  <2>3. /\ Move(n, "refused", Z, {}) /\ globalSem' = globalSem
        /\ hostSem' = [hostSem EXCEPT ![h] = s]
    BY <1>7 DEF ResumeHostThenRefuse, Z, s
  <2>4. Moved(n, "refused", Z, {})
    BY <1>4, <2>2, <2>3, MoveFacts DEF PCs, Outside
  <2>5. /\ GlobalWaiters' = GlobalWaiters /\ GlobalHolders' = GlobalHolders
        /\ HostWaiters(h)' = HostWaiters(h) \ Z /\ HostHolders(h)' = (HostHolders(h) \ {n}) \union Z
    BY <2>4, <1>2, <2>2 DEF Moved, HasHostPermit, HasGlobalPermit
  <2>6. Good(globalSem', GlobalWaiters', GlobalHolders', MaxConcurrent)
    BY <2>3, <2>5, <1>1
  <2>7. Good(s, HostWaiters(h)', HostHolders(h)', PerHost)
    BY <2>5, <2>1
  <2> QED
    BY <2>3, <2>4, <2>6, <2>7, HostUpdated DEF Moved
<1> QED
  BY <1>5, <1>6, <1>7 DEF ResumeHost

\* A granted global waiter that resumes keeps the books.
LEMMA ResumeGlobalGood ==
  ASSUME TypeOK, AllGood, NEW n \in Navs, ResumeGlobal(n)
  PROVE  AllGood' /\ pc' \in [Navs -> PCs] /\ hostSem' \in [Hosts -> Semaphores] /\ globalSem' \in Semaphores
<1> DEFINE h == HostOf[n]
<1>1. /\ h \in Hosts
      /\ Good(globalSem, GlobalWaiters, GlobalHolders, MaxConcurrent)
      /\ Good(hostSem[h], HostWaiters(h), HostHolders(h), PerHost)
      /\ HostWaiters(h) \intersect HostHolders(h) = {}
      /\ GlobalWaiters \intersect GlobalHolders = {}
  BY WhereFacts DEF AllGood
<1>2. /\ n \notin GlobalWaiters /\ n \in GlobalHolders
      /\ n \notin HostWaiters(h) /\ n \in HostHolders(h)
  BY WhereFacts DEF ResumeGlobal, ResumeGlobalThenHandOut, ResumeGlobalThenRefuse,
                    HasHostPermit, HasGlobalPermit
<1>3. CASE ResumeGlobalThenHandOut(n)
  <2> DEFINE g == Drained(globalSem)
             Y == Woken(globalSem, g)
  <2>1. /\ Good(g, GlobalWaiters \ Y, GlobalHolders \union Y, MaxConcurrent)
        /\ Y \subseteq GlobalWaiters
    BY <1>1, DrainedGood
  <2>2. Y \subseteq GlobalWaiters \ {n} /\ {} \subseteq HostWaiters(h) \ {n}
    BY <2>1, <1>2
  <2> HIDE DEF Y, g
  <2>3. /\ Move(n, "navigating", {}, Y) /\ globalSem' = g /\ hostSem' = hostSem
    BY <1>3 DEF ResumeGlobalThenHandOut, Y, g
  <2>4. Moved(n, "navigating", {}, Y)
    BY <2>2, <2>3, MoveFacts DEF PCs
  <2>5. /\ GlobalWaiters' = GlobalWaiters \ Y /\ GlobalHolders' = GlobalHolders \union Y
        /\ HostWaiters(h)' = HostWaiters(h) /\ HostHolders(h)' = HostHolders(h)
    BY <2>4, <1>2, <2>2 DEF Moved, HasHostPermit, HasGlobalPermit
  <2>6. Good(globalSem', GlobalWaiters', GlobalHolders', MaxConcurrent)
    BY <2>1, <2>3, <2>5
  <2>7. hostSem' = [hostSem EXCEPT ![h] = hostSem[h]]
    BY <2>3, <1>1 DEF TypeOK
  <2>8. Good(hostSem[h], HostWaiters(h)', HostHolders(h)', PerHost)
    BY <2>5, <1>1
  <2> QED
    BY <2>4, <2>6, <2>7, <2>8, HostUpdated DEF Moved
<1>4. CASE ResumeGlobalThenRefuse(n)
  <2> DEFINE g == Released(Drained(globalSem))
             Y == Woken(globalSem, g)
             s == Released(hostSem[h])
             X == Woken(hostSem[h], s)
  <2>1. /\ Good(g, GlobalWaiters \ Y, (GlobalHolders \ {n}) \union Y, MaxConcurrent)
        /\ Y \subseteq GlobalWaiters
    BY <1>1, <1>2, DrainedReleasedGood
  <2>2. /\ Good(s, HostWaiters(h) \ X, (HostHolders(h) \ {n}) \union X, PerHost)
        /\ X \subseteq HostWaiters(h)
    BY <1>1, <1>2, ReleasedGood
  <2>3. Y \subseteq GlobalWaiters \ {n} /\ X \subseteq HostWaiters(h) \ {n}
    BY <2>1, <2>2, <1>2
  <2> HIDE DEF Y, g, X, s
  <2>4. /\ Move(n, "refused", X, Y) /\ globalSem' = g
        /\ hostSem' = [hostSem EXCEPT ![h] = s]
    BY <1>4 DEF ResumeGlobalThenRefuse, X, Y, g, s
  <2>5. Moved(n, "refused", X, Y)
    BY <2>3, <2>4, MoveFacts DEF PCs, Outside
  <2>6. /\ GlobalWaiters' = GlobalWaiters \ Y /\ GlobalHolders' = (GlobalHolders \ {n}) \union Y
        /\ HostWaiters(h)' = HostWaiters(h) \ X /\ HostHolders(h)' = (HostHolders(h) \ {n}) \union X
    BY <2>5, <1>2, <2>3 DEF Moved, HasHostPermit, HasGlobalPermit
  <2>7. Good(globalSem', GlobalWaiters', GlobalHolders', MaxConcurrent)
    BY <2>1, <2>4, <2>6
  <2>8. Good(s, HostWaiters(h)', HostHolders(h)', PerHost)
    BY <2>2, <2>6
  <2> QED
    BY <2>4, <2>5, <2>7, <2>8, HostUpdated DEF Moved
<1> QED
  BY <1>3, <1>4 DEF ResumeGlobal

\* So does a caller cancelled while it waits for its host, granted or not.
LEMMA CancelHostGood ==
  ASSUME TypeOK, AllGood, NEW n \in Navs, CancelHostWait(n)
  PROVE  AllGood' /\ pc' \in [Navs -> PCs] /\ hostSem' \in [Hosts -> Semaphores] /\ globalSem' \in Semaphores
<1> DEFINE h == HostOf[n]
           before == IF pc[n] = "hostQueue" THEN Without(hostSem[h], n) ELSE Plus(hostSem[h])
           s == Drained(before)
           X == Woken(before, s)
           W == HostWaiters(h) \ {n}
           H == HostHolders(h) \ {n}
<1>1. /\ h \in Hosts
      /\ Good(globalSem, GlobalWaiters, GlobalHolders, MaxConcurrent)
      /\ Good(hostSem[h], HostWaiters(h), HostHolders(h), PerHost)
      /\ HostWaiters(h) \intersect HostHolders(h) = {}
  BY WhereFacts DEF AllGood
<1>2. n \notin GlobalWaiters /\ n \notin GlobalHolders
  BY WhereFacts DEF CancelHostWait, HasGlobalPermit
<1>3. Good(before, W, H, PerHost)
  <2>1. CASE pc[n] = "hostQueue"
    <3>1. n \in HostWaiters(h) /\ n \notin HostHolders(h) /\ HostHolders(h) \ {n} = HostHolders(h)
      BY <2>1, WhereFacts DEF HasHostPermit
    <3>2. Good(Without(hostSem[h], n), HostWaiters(h) \ {n}, HostHolders(h), PerHost)
      BY <3>1, <1>1, WithoutGood
    <3> QED
      BY <2>1, <3>1, <3>2
  <2>2. CASE pc[n] = "hostGranted"
    <3>1. n \notin HostWaiters(h) /\ n \in HostHolders(h) /\ HostWaiters(h) \ {n} = HostWaiters(h)
      BY <2>2, WhereFacts DEF HasHostPermit
    <3>2. Good(Plus(hostSem[h]), HostWaiters(h), HostHolders(h) \ {n}, PerHost)
      BY <3>1, <1>1, PlusGood
    <3> QED
      BY <2>2, <3>1, <3>2
  <2> QED
    BY <2>1, <2>2 DEF CancelHostWait
<1>4. W \intersect H = {}
  BY <1>1
<1> HIDE DEF before
<1>5. Good(s, W \ X, H \union X, PerHost) /\ X \subseteq W
  BY <1>3, <1>4, DrainedGood
<1>6. {} \subseteq GlobalWaiters \ {n}
  OBVIOUS
<1> HIDE DEF s, X
<1>7. /\ Move(n, "idle", X, {}) /\ globalSem' = globalSem
      /\ hostSem' = [hostSem EXCEPT ![h] = s]
  BY DEF CancelHostWait, before, s, X
<1>8. Moved(n, "idle", X, {})
  BY <1>5, <1>6, <1>7, MoveFacts DEF PCs, Outside
<1>9. /\ GlobalWaiters' = GlobalWaiters /\ GlobalHolders' = GlobalHolders
      /\ HostWaiters(h)' = W \ X /\ HostHolders(h)' = H \union X
  BY <1>8, <1>2 DEF Moved, HasHostPermit, HasGlobalPermit
<1>10. Good(globalSem', GlobalWaiters', GlobalHolders', MaxConcurrent)
  BY <1>1, <1>7, <1>9
<1>11. Good(s, HostWaiters(h)', HostHolders(h)', PerHost)
  BY <1>5, <1>9
<1> QED
  BY <1>7, <1>8, <1>10, <1>11, HostUpdated DEF Moved

\* ... or for a global permit, granted or not, giving its host's permit back.
LEMMA CancelGlobalGood ==
  ASSUME TypeOK, AllGood, NEW n \in Navs, CancelGlobalWait(n)
  PROVE  AllGood' /\ pc' \in [Navs -> PCs] /\ hostSem' \in [Hosts -> Semaphores] /\ globalSem' \in Semaphores
<1> DEFINE h == HostOf[n]
           before == IF pc[n] = "globalQueue" THEN Without(globalSem, n) ELSE Plus(globalSem)
           g == Drained(before)
           Y == Woken(before, g)
           W == GlobalWaiters \ {n}
           H == GlobalHolders \ {n}
           s == Released(hostSem[h])
           X == Woken(hostSem[h], s)
<1>1. /\ h \in Hosts
      /\ Good(globalSem, GlobalWaiters, GlobalHolders, MaxConcurrent)
      /\ Good(hostSem[h], HostWaiters(h), HostHolders(h), PerHost)
      /\ HostWaiters(h) \intersect HostHolders(h) = {}
      /\ GlobalWaiters \intersect GlobalHolders = {}
  BY WhereFacts DEF AllGood
<1>2. n \notin HostWaiters(h) /\ n \in HostHolders(h)
  BY WhereFacts DEF CancelGlobalWait, HasHostPermit
<1>3. Good(before, W, H, MaxConcurrent)
  <2>1. CASE pc[n] = "globalQueue"
    <3>1. n \in GlobalWaiters /\ n \notin GlobalHolders /\ GlobalHolders \ {n} = GlobalHolders
      BY <2>1, WhereFacts DEF HasGlobalPermit
    <3>2. Good(Without(globalSem, n), GlobalWaiters \ {n}, GlobalHolders, MaxConcurrent)
      BY <3>1, <1>1, WithoutGood
    <3> QED
      BY <2>1, <3>1, <3>2
  <2>2. CASE pc[n] = "globalGranted"
    <3>1. n \notin GlobalWaiters /\ n \in GlobalHolders /\ GlobalWaiters \ {n} = GlobalWaiters
      BY <2>2, WhereFacts DEF HasGlobalPermit
    <3>2. Good(Plus(globalSem), GlobalWaiters, GlobalHolders \ {n}, MaxConcurrent)
      BY <3>1, <1>1, PlusGood
    <3> QED
      BY <2>2, <3>1, <3>2
  <2> QED
    BY <2>1, <2>2 DEF CancelGlobalWait
<1>4. W \intersect H = {}
  BY <1>1
<1> HIDE DEF before
<1>5. Good(g, W \ Y, H \union Y, MaxConcurrent) /\ Y \subseteq W
  BY <1>3, <1>4, DrainedGood
<1>6. /\ Good(s, HostWaiters(h) \ X, (HostHolders(h) \ {n}) \union X, PerHost)
      /\ X \subseteq HostWaiters(h)
  BY <1>1, <1>2, ReleasedGood
<1>7. X \subseteq HostWaiters(h) \ {n}
  BY <1>2, <1>6
<1> HIDE DEF g, Y, s, X
<1>8. /\ Move(n, "idle", X, Y) /\ globalSem' = g
      /\ hostSem' = [hostSem EXCEPT ![h] = s]
  BY DEF CancelGlobalWait, before, g, Y, s, X
<1>9. Moved(n, "idle", X, Y)
  BY <1>5, <1>7, <1>8, MoveFacts DEF PCs, Outside
<1>10. /\ GlobalWaiters' = W \ Y /\ GlobalHolders' = H \union Y
       /\ HostWaiters(h)' = HostWaiters(h) \ X /\ HostHolders(h)' = (HostHolders(h) \ {n}) \union X
  BY <1>9, <1>2, <1>7 DEF Moved, HasHostPermit, HasGlobalPermit
<1>11. Good(globalSem', GlobalWaiters', GlobalHolders', MaxConcurrent)
  BY <1>5, <1>8, <1>10
<1>12. Good(s, HostWaiters(h)', HostHolders(h)', PerHost)
  BY <1>6, <1>10
<1> QED
  BY <1>8, <1>9, <1>11, <1>12, HostUpdated DEF Moved

\* release() gives both permits back, to the next in line or to the semaphore.
LEMMA ReleaseGood ==
  ASSUME TypeOK, AllGood, NEW n \in Navs, Release(n)
  PROVE  AllGood' /\ pc' \in [Navs -> PCs] /\ hostSem' \in [Hosts -> Semaphores] /\ globalSem' \in Semaphores
<1> DEFINE h == HostOf[n]
           g == Released(globalSem)
           Y == Woken(globalSem, g)
           s == Released(hostSem[h])
           X == Woken(hostSem[h], s)
<1>1. /\ h \in Hosts
      /\ Good(globalSem, GlobalWaiters, GlobalHolders, MaxConcurrent)
      /\ Good(hostSem[h], HostWaiters(h), HostHolders(h), PerHost)
      /\ HostWaiters(h) \intersect HostHolders(h) = {}
      /\ GlobalWaiters \intersect GlobalHolders = {}
  BY WhereFacts DEF AllGood
<1>2. /\ n \notin GlobalWaiters /\ n \in GlobalHolders
      /\ n \notin HostWaiters(h) /\ n \in HostHolders(h)
  BY WhereFacts DEF Release, HasHostPermit, HasGlobalPermit
<1>3. /\ Good(g, GlobalWaiters \ Y, (GlobalHolders \ {n}) \union Y, MaxConcurrent)
      /\ Y \subseteq GlobalWaiters
  BY <1>1, <1>2, ReleasedGood
<1>4. /\ Good(s, HostWaiters(h) \ X, (HostHolders(h) \ {n}) \union X, PerHost)
      /\ X \subseteq HostWaiters(h)
  BY <1>1, <1>2, ReleasedGood
<1>5. Y \subseteq GlobalWaiters \ {n} /\ X \subseteq HostWaiters(h) \ {n}
  BY <1>2, <1>3, <1>4
<1> HIDE DEF g, Y, s, X
<1>6. /\ Move(n, "idle", X, Y) /\ globalSem' = g
      /\ hostSem' = [hostSem EXCEPT ![h] = s]
  BY DEF Release, g, Y, s, X
<1>7. Moved(n, "idle", X, Y)
  BY <1>5, <1>6, MoveFacts DEF PCs, Outside
<1>8. /\ GlobalWaiters' = GlobalWaiters \ Y /\ GlobalHolders' = (GlobalHolders \ {n}) \union Y
      /\ HostWaiters(h)' = HostWaiters(h) \ X /\ HostHolders(h)' = (HostHolders(h) \ {n}) \union X
  BY <1>7, <1>2, <1>5 DEF Moved, HasHostPermit, HasGlobalPermit
<1>9. Good(globalSem', GlobalWaiters', GlobalHolders', MaxConcurrent)
  BY <1>3, <1>6, <1>8
<1>10. Good(s, HostWaiters(h)', HostHolders(h)', PerHost)
  BY <1>4, <1>8
<1> QED
  BY <1>6, <1>7, <1>9, <1>10, HostUpdated DEF Moved

\* Settling a slot, the clock and stuttering touch neither callers nor queues.
LEMMA StillGood ==
  ASSUME TypeOK, AllGood, UNCHANGED <<pc, hostSem, globalSem>>
  PROVE  AllGood' /\ pc' \in [Navs -> PCs] /\ hostSem' \in [Hosts -> Semaphores] /\ globalSem' \in Semaphores
BY DEF TypeOK, AllGood, GlobalWaiters, GlobalHolders, HostWaiters, HostHolders

-----------------------------------------------------------------------------
\* What the semaphore lemmas leave of TypeOK.
RestTyped ==
  /\ outcome \in [Navs -> Outcomes]
  /\ inFlight \in Nat /\ peak \in Nat
  /\ refusals \in [Hosts -> Nat] /\ openUntil \in [Hosts -> Nat]
  /\ now \in Nat \ {0}

LEMMA HandOutTyped ==
  ASSUME RestTyped, NEW n \in Navs, HandOut(n)
  PROVE  inFlight' \in Nat /\ peak' \in Nat /\ outcome' \in [Navs -> Outcomes]
BY DEF HandOut, RestTyped, Outcomes

LEMMA ForgetTyped ==
  ASSUME RestTyped, NEW h \in Hosts, ForgetIfElapsed(h)
  PROVE  refusals' \in [Hosts -> Nat] /\ openUntil' \in [Hosts -> Nat]
<1>1. refusals' = refusals \/ refusals' = [refusals EXCEPT ![h] = 0]
  BY DEF ForgetIfElapsed
<1>2. openUntil' = openUntil \/ openUntil' = [openUntil EXCEPT ![h] = 0]
  BY DEF ForgetIfElapsed
<1> QED
  BY <1>1, <1>2 DEF RestTyped

LEMMA RestStep ==
  ASSUME RestTyped, [Next]_vars
  PROVE  RestTyped'
<1> USE LimitsAssumption
<1>h. \A n \in Navs : HostOf[n] \in Hosts
  BY NavsAssumption
<1>1. ASSUME NEW n \in Navs, Acquire(n)
      PROVE  RestTyped'
  <2>1. CASE FailFast(n)
    BY <2>1 DEF FailFast, RestTyped
  <2>2. CASE QueueOnHost(n) \/ QueueOnGlobal(n)
    <3>1. ForgetIfElapsed(HostOf[n]) /\ UNCHANGED <<outcome, inFlight, peak, now>>
      BY <2>2 DEF QueueOnHost, QueueOnGlobal
    <3> QED
      BY <3>1, <1>h, ForgetTyped DEF RestTyped
  <2>3. CASE AcquireAtOnce(n)
    <3>1. ForgetIfElapsed(HostOf[n]) /\ HandOut(n) /\ UNCHANGED now
      BY <2>3 DEF AcquireAtOnce
    <3> QED
      BY <3>1, <1>h, ForgetTyped, HandOutTyped DEF RestTyped
  <2> QED
    BY <1>1, <2>1, <2>2, <2>3 DEF Acquire
<1>2. ASSUME NEW n \in Navs, ResumeHost(n) \/ ResumeGlobal(n)
      PROVE  RestTyped'
  <2>1. CASE ResumeHostThenQueue(n) \/ ResumeHostThenRefuse(n) \/ ResumeGlobalThenRefuse(n)
    BY <2>1 DEF ResumeHostThenQueue, ResumeHostThenRefuse, ResumeGlobalThenRefuse, RestTyped
  <2>2. CASE ResumeHostThenHandOut(n) \/ ResumeGlobalThenHandOut(n)
    <3>1. ForgetIfElapsed(HostOf[n]) /\ HandOut(n) /\ UNCHANGED now
      BY <2>2 DEF ResumeHostThenHandOut, ResumeGlobalThenHandOut
    <3> QED
      BY <3>1, <1>h, ForgetTyped, HandOutTyped DEF RestTyped
  <2> QED
    BY <1>2, <2>1, <2>2 DEF ResumeHost, ResumeGlobal
<1>3. ASSUME NEW n \in Navs, CancelHostWait(n) \/ CancelGlobalWait(n)
      PROVE  RestTyped'
  BY <1>3 DEF CancelHostWait, CancelGlobalWait, RestTyped
<1>4. ASSUME NEW n \in Navs, Settle(n)
      PROVE  RestTyped'
  <2>1. CASE SettleOk(n)
    BY <2>1, <1>h DEF SettleOk, RestTyped, Outcomes
  <2>2. CASE SettleRefused(n)
    <3>1. refusals' \in [Hosts -> Nat]
      BY <2>2, <1>h DEF SettleRefused, RestTyped
    <3>2. now + BreakerCooldown \in Nat
      BY DEF RestTyped
    <3>3. openUntil' = openUntil \/ openUntil' = [openUntil EXCEPT ![HostOf[n]] = now + BreakerCooldown]
      BY <2>2 DEF SettleRefused
    <3>4. openUntil' \in [Hosts -> Nat]
      BY <3>2, <3>3 DEF RestTyped
    <3> QED
      BY <2>2, <3>1, <3>4 DEF SettleRefused, RestTyped, Outcomes
  <2>3. CASE SettleNeutral(n)
    BY <2>3 DEF SettleNeutral, RestTyped, Outcomes
  <2> QED
    BY <1>4, <2>1, <2>2, <2>3 DEF Settle
<1>5. ASSUME NEW n \in Navs, Release(n)
      PROVE  RestTyped'
  BY <1>5 DEF Release, RestTyped, Outcomes
<1>6. CASE Tick \/ UNCHANGED vars
  BY <1>6 DEF Tick, vars, RestTyped
<1> QED
  BY <1>1, <1>2, <1>3, <1>4, <1>5, <1>6 DEF Next

\* Every step preserves the type invariant and the balance.
LEMMA PermitStep ==
  ASSUME TypeOK, AllGood, [Next]_vars
  PROVE  TypeOK' /\ AllGood'
<1>1. RestTyped'
  BY RestStep DEF TypeOK, RestTyped
<1>2. AllGood' /\ pc' \in [Navs -> PCs] /\ hostSem' \in [Hosts -> Semaphores] /\ globalSem' \in Semaphores
  <2>1. CASE \E n \in Navs : Acquire(n)
    BY <2>1, AcquireGood
  <2>2. CASE \E n \in Navs : ResumeHost(n)
    BY <2>2, ResumeHostGood
  <2>3. CASE \E n \in Navs : ResumeGlobal(n)
    BY <2>3, ResumeGlobalGood
  <2>4. CASE \E n \in Navs : CancelHostWait(n)
    BY <2>4, CancelHostGood
  <2>5. CASE \E n \in Navs : CancelGlobalWait(n)
    BY <2>5, CancelGlobalGood
  <2>6. CASE \E n \in Navs : Settle(n)
    BY <2>6, StillGood DEF Settle, SettleOk, SettleRefused, SettleNeutral
  <2>7. CASE \E n \in Navs : Release(n)
    BY <2>7, ReleaseGood
  <2>8. CASE Tick \/ UNCHANGED vars
    BY <2>8, StillGood DEF Tick, vars
  <2> QED
    BY <2>1, <2>2, <2>3, <2>4, <2>5, <2>6, <2>7, <2>8 DEF Next
<1> QED
  BY <1>1, <1>2 DEF TypeOK, RestTyped

LEMMA PermitInit ==
  ASSUME Init
  PROVE  TypeOK /\ PermitsBalanced
<1> USE LimitsAssumption, NavsAssumption
<1>1. Sem(PerHost, <<>>) \in Semaphores /\ Sem(MaxConcurrent, <<>>) \in Semaphores
  BY DEF Sem, Semaphores
<1>2. TypeOK
  BY <1>1 DEF Init, TypeOK, PCs, Outside, Outcomes
<1>3. /\ GlobalWaiters = {} /\ GlobalHolders = {}
      /\ \A h \in Hosts : HostWaiters(h) = {} /\ HostHolders(h) = {}
  BY DEF Init, GlobalWaiters, GlobalHolders, HostWaiters, HostHolders, HasGlobalPermit, HasHostPermit
<1>4. \A c \in Nat : Balanced(Sem(c, <<>>), {}, {}, c)
  BY FS_EmptySet DEF Balanced, OnceEach, InLine, Sem
<1>5. PermitsBalanced
  BY <1>3, <1>4 DEF Init, PermitsBalanced
<1> QED
  BY <1>2, <1>5

LEMMA PermitInvariant == Spec => [](TypeOK /\ PermitsBalanced)
<1>1. Init => TypeOK /\ PermitsBalanced
  BY PermitInit
<1>2. TypeOK /\ PermitsBalanced /\ [Next]_vars => (TypeOK /\ PermitsBalanced)'
  <2> SUFFICES ASSUME TypeOK, PermitsBalanced, [Next]_vars
               PROVE  (TypeOK /\ PermitsBalanced)'
    OBVIOUS
  <2>1. TypeOK' /\ AllGood'
    BY AllGoodIs, PermitStep
  <2> QED
    BY <2>1 DEF AllGood, Good, PermitsBalanced
<1> QED
  BY <1>1, <1>2, PTL DEF Spec

\* Every reachable state is well typed.
THEOREM TypeCorrect == Spec => []TypeOK
BY PermitInvariant, PTL

\* In every reachable state no permit is lost or duplicated, and every waiter is
\* in its queue once: the semaphore discipline of acquire() and release().
THEOREM PermitsAlwaysBalanced == Spec => []PermitsBalanced
BY PermitInvariant, PTL

-----------------------------------------------------------------------------
(* Who navigates, and which hosts are paused.                               *)

\* What one caller may do.
Acts(n) ==
  \/ Acquire(n) \/ ResumeHost(n) \/ ResumeGlobal(n) \/ CancelHostWait(n) \/ CancelGlobalWait(n)
  \/ Settle(n) \/ Release(n)

LEMMA NextIs == [Next]_vars => (\E n \in Navs : Acts(n)) \/ Tick \/ UNCHANGED vars
BY DEF Next, Acts

\* Whoever a step wakes stood in the queue.
LEMMA WokenInLine ==
  ASSUME NEW s \in Semaphores, NEW t \in Semaphores
  PROVE  Woken(s, t) \subseteq InLine(s)
<1>1. Len(s.queue) \in Nat /\ Len(t.queue) \in Nat
  BY DEF Semaphores
<1>2. \A i \in 1..(Len(s.queue) - Len(t.queue)) : i \in 1..Len(s.queue)
  BY <1>1
<1> QED
  BY <1>2 DEF Woken, InLine

\* n moves to `to`, and those who are granted a permit were not navigating.
LEMMA NavigatingMoves ==
  ASSUME TypeOK, NEW n \in Navs, NEW to \in PCs, NEW X, NEW Y, Move(n, to, X, Y),
         \A m \in Navs : m \in X \/ m \in Y => pc[m] # "navigating"
  PROVE  Navigating' = (Navigating \ {n}) \union (IF to = "navigating" THEN {n} ELSE {})
<1>1. \A m \in Navs : pc'[m] = IF m = n THEN to ELSE IF m \in X THEN "hostGranted"
                               ELSE IF m \in Y THEN "globalGranted" ELSE pc[m]
  BY DEF Move
<1>2. \A m \in Navs : pc'[m] = "navigating" <=> IF m = n THEN to = "navigating" ELSE pc[m] = "navigating"
  BY <1>1
<1> QED
  BY <1>2 DEF Navigating

\* A step that turns the semaphore of n's host or the global one, or either
\* after n left its line, into another wakes only callers that do not navigate.
LEMMA HostWokenWait ==
  ASSUME TypeOK, AllGood, NEW h \in Hosts, NEW t \in Semaphores
  PROVE  \A m \in Woken(hostSem[h], t) : pc[m] = "hostQueue"
<1>1. hostSem[h] \in Semaphores /\ InLine(hostSem[h]) = HostWaiters(h)
  BY DEF AllGood, Good, Balanced
<1> QED
  BY <1>1, WokenInLine DEF HostWaiters

LEMMA GlobalWokenWait ==
  ASSUME TypeOK, AllGood, NEW t \in Semaphores
  PROVE  \A m \in Woken(globalSem, t) : pc[m] = "globalQueue"
<1>1. globalSem \in Semaphores /\ InLine(globalSem) = GlobalWaiters
  BY DEF AllGood, Good, Balanced
<1> QED
  BY <1>1, WokenInLine DEF GlobalWaiters

\* The steps that hand a slot out.
HandsOut(n) == AcquireAtOnce(n) \/ ResumeHostThenHandOut(n) \/ ResumeGlobalThenHandOut(n)

LEMMA HandsOutEnters ==
  ASSUME TypeOK, AllGood, TypeOK', NEW n \in Navs, HandsOut(n)
  PROVE  n \notin Navigating /\ Navigating' = Navigating \union {n}
<1> DEFINE h == HostOf[n]
<1>1. /\ h \in Hosts /\ hostSem \in [Hosts -> Semaphores]
      /\ hostSem' \in [Hosts -> Semaphores] /\ globalSem' \in Semaphores
  BY NavsAssumption DEF TypeOK
<1>2. pc[n] \in PCs \ {"navigating"}
  BY DEF HandsOut, AcquireAtOnce, ResumeHostThenHandOut, ResumeGlobalThenHandOut, Outside, PCs
<1>3. CASE AcquireAtOnce(n)
  <2>1. Move(n, "navigating", {}, {})
    BY <1>3 DEF AcquireAtOnce
  <2> QED
    BY <1>2, <2>1, NavigatingMoves DEF PCs, Navigating
<1>4. CASE ResumeHostThenHandOut(n)
  <2>1. /\ Move(n, "navigating", Woken(hostSem[h], Drained(hostSem[h])), {})
        /\ hostSem' = [hostSem EXCEPT ![h] = Drained(hostSem[h])]
    BY <1>4 DEF ResumeHostThenHandOut
  <2>2. Drained(hostSem[h]) \in Semaphores
    BY <1>1, <2>1
  <2>3. \A m \in Woken(hostSem[h], Drained(hostSem[h])) : pc[m] = "hostQueue"
    BY <1>1, <2>2, HostWokenWait
  <2> QED
    BY <1>2, <2>1, <2>3, NavigatingMoves DEF PCs, Navigating
<1>5. CASE ResumeGlobalThenHandOut(n)
  <2>1. /\ Move(n, "navigating", {}, Woken(globalSem, Drained(globalSem)))
        /\ globalSem' = Drained(globalSem)
    BY <1>5 DEF ResumeGlobalThenHandOut
  <2>2. \A m \in Woken(globalSem, Drained(globalSem)) : pc[m] = "globalQueue"
    BY <1>1, <2>1, GlobalWokenWait
  <2> QED
    BY <1>2, <2>1, <2>2, NavigatingMoves DEF PCs, Navigating
<1> QED
  BY <1>3, <1>4, <1>5 DEF HandsOut

LEMMA ReleaseLeaves ==
  ASSUME TypeOK, AllGood, TypeOK', NEW n \in Navs, Release(n)
  PROVE  n \in Navigating /\ Navigating' = Navigating \ {n}
<1> DEFINE h == HostOf[n]
           s == Released(hostSem[h])
           g == Released(globalSem)
<1>1. /\ h \in Hosts /\ hostSem \in [Hosts -> Semaphores]
      /\ hostSem' \in [Hosts -> Semaphores] /\ globalSem' \in Semaphores
  BY NavsAssumption DEF TypeOK
<1>2. /\ Move(n, "idle", Woken(hostSem[h], s), Woken(globalSem, g))
      /\ hostSem' = [hostSem EXCEPT ![h] = s] /\ globalSem' = g
  BY DEF Release
<1>3. s \in Semaphores /\ g \in Semaphores
  BY <1>1, <1>2
<1>4. /\ \A m \in Woken(hostSem[h], s) : pc[m] = "hostQueue"
      /\ \A m \in Woken(globalSem, g) : pc[m] = "globalQueue"
  BY <1>1, <1>3, HostWokenWait, GlobalWokenWait
<1> HIDE DEF s, g
<1> QED
  BY <1>2, <1>4, NavigatingMoves DEF Release, PCs, Outside, Navigating

\* The steps of a caller that neither begin nor end a navigation.
Waits(n) ==
  \/ FailFast(n) \/ QueueOnHost(n) \/ QueueOnGlobal(n) \/ ResumeHostThenQueue(n)
  \/ ResumeHostThenRefuse(n) \/ ResumeGlobalThenRefuse(n) \/ CancelHostWait(n) \/ CancelGlobalWait(n)

\* A cancelled caller's semaphore, without it, wakes callers of the old line.
LEMMA CancelledLine ==
  ASSUME NEW s, NEW W, NEW H, NEW c, Good(s, W, H, c), NEW n, NEW b, NEW t \in Semaphores,
         b = IF n \in W THEN Without(s, n) ELSE Plus(s)
  PROVE  Woken(b, t) \subseteq W
<1>1. CASE n \in W
  <2>1. Good(Without(s, n), W \ {n}, H, c)
    BY <1>1, WithoutGood
  <2>2. b \in Semaphores /\ InLine(b) = W \ {n}
    BY <1>1, <2>1 DEF Good, Balanced
  <2> QED
    BY <2>2, WokenInLine
<1>2. CASE n \notin W
  <2>1. /\ b = [value |-> s.value + 1, queue |-> s.queue]
        /\ s.value \in Nat /\ s.queue \in Seq(Navs)
    BY <1>2 DEF Good, Semaphores, Plus, Sem
  <2>2. s.value + 1 \in Nat
    BY <2>1
  <2>3. b \in Semaphores
    BY <2>1, <2>2 DEF Semaphores
  <2>4. b.queue = s.queue
    BY <2>1
  <2>5. InLine(b) = InLine(s)
    BY <2>4 DEF InLine
  <2>6. InLine(s) = W
    BY DEF Good, Balanced
  <2> QED
    BY <2>3, <2>5, <2>6, WokenInLine
<1> QED
  BY <1>1, <1>2

\* A caller that was not navigating and is not afterwards changes nothing.
LEMMA WaiterMoves ==
  ASSUME TypeOK, NEW n \in Navs, NEW to \in {"refused", "hostQueue", "globalQueue", "idle"},
         NEW X, NEW Y, Move(n, to, X, Y), pc[n] # "navigating",
         \A m \in Navs : m \in X \/ m \in Y => pc[m] # "navigating"
  PROVE  Navigating' = Navigating
<1>1. to \in PCs /\ to # "navigating"
  BY DEF PCs, Outside
<1>2. Navigating' = Navigating \ {n}
  BY <1>1, NavigatingMoves
<1> QED
  BY <1>2 DEF Navigating

LEMMA WaitsStays ==
  ASSUME TypeOK, AllGood, TypeOK', NEW n \in Navs, Waits(n)
  PROVE  Navigating' = Navigating
<1> DEFINE h == HostOf[n]
<1>1. /\ h \in Hosts /\ hostSem \in [Hosts -> Semaphores] /\ globalSem \in Semaphores
      /\ hostSem' \in [Hosts -> Semaphores] /\ globalSem' \in Semaphores
  BY NavsAssumption DEF TypeOK
<1>2. \A t \in Semaphores, m \in Navs :
        m \in Woken(hostSem[h], t) \/ m \in Woken(globalSem, t) => pc[m] # "navigating"
  BY <1>1, HostWokenWait, GlobalWokenWait
<1>n. pc[n] # "navigating"
  BY DEF Waits, FailFast, QueueOnHost, QueueOnGlobal, ResumeHostThenQueue, ResumeHostThenRefuse,
         ResumeGlobalThenRefuse, CancelHostWait, CancelGlobalWait, Outside
<1>3. CASE FailFast(n) \/ QueueOnHost(n) \/ QueueOnGlobal(n)
  <2>1. PICK to \in {"refused", "hostQueue", "globalQueue"} : Move(n, to, {}, {})
    BY <1>3 DEF FailFast, QueueOnHost, QueueOnGlobal
  <2> QED
    BY <1>n, <2>1, WaiterMoves
<1>4. CASE ResumeHostThenQueue(n)
  <2> DEFINE s == Drained(hostSem[h])
  <2>1. Move(n, "globalQueue", Woken(hostSem[h], s), {}) /\ hostSem' = [hostSem EXCEPT ![h] = s]
    BY <1>4 DEF ResumeHostThenQueue
  <2>2. s \in Semaphores
    BY <1>1, <2>1
  <2> HIDE DEF s
  <2> QED
    BY <1>n, <1>2, <2>1, <2>2, WaiterMoves
<1>5. CASE ResumeHostThenRefuse(n)
  <2> DEFINE s == Released(Drained(hostSem[h]))
  <2>1. Move(n, "refused", Woken(hostSem[h], s), {}) /\ hostSem' = [hostSem EXCEPT ![h] = s]
    BY <1>5 DEF ResumeHostThenRefuse
  <2>2. s \in Semaphores
    BY <1>1, <2>1
  <2> HIDE DEF s
  <2> QED
    BY <1>n, <1>2, <2>1, <2>2, WaiterMoves
<1>6. CASE ResumeGlobalThenRefuse(n)
  <2> DEFINE s == Released(hostSem[h])
             g == Released(Drained(globalSem))
  <2>1. /\ Move(n, "refused", Woken(hostSem[h], s), Woken(globalSem, g))
        /\ hostSem' = [hostSem EXCEPT ![h] = s] /\ globalSem' = g
    BY <1>6 DEF ResumeGlobalThenRefuse
  <2>2. s \in Semaphores /\ g \in Semaphores
    BY <1>1, <2>1
  <2> HIDE DEF s, g
  <2> QED
    BY <1>n, <1>2, <2>1, <2>2, WaiterMoves
<1>7. CASE CancelHostWait(n)
  <2> DEFINE b == IF pc[n] = "hostQueue" THEN Without(hostSem[h], n) ELSE Plus(hostSem[h])
             s == Drained(b)
  <2>1. Move(n, "idle", Woken(b, s), {}) /\ hostSem' = [hostSem EXCEPT ![h] = s]
    BY <1>7 DEF CancelHostWait
  <2>2. s \in Semaphores
    BY <1>1, <2>1
  <2>3. Good(hostSem[h], HostWaiters(h), HostHolders(h), PerHost)
    BY <1>1 DEF AllGood
  <2>4. b = IF n \in HostWaiters(h) THEN Without(hostSem[h], n) ELSE Plus(hostSem[h])
    BY WhereFacts
  <2> HIDE DEF b, s
  <2>5. Woken(b, s) \subseteq HostWaiters(h)
    BY <2>2, <2>3, <2>4, CancelledLine
  <2> QED
    BY <1>n, <2>1, <2>5, WaiterMoves DEF HostWaiters
<1>8. CASE CancelGlobalWait(n)
  <2> DEFINE b == IF pc[n] = "globalQueue" THEN Without(globalSem, n) ELSE Plus(globalSem)
             g == Drained(b)
             s == Released(hostSem[h])
  <2>1. /\ Move(n, "idle", Woken(hostSem[h], s), Woken(b, g))
        /\ hostSem' = [hostSem EXCEPT ![h] = s] /\ globalSem' = g
    BY <1>8 DEF CancelGlobalWait
  <2>2. s \in Semaphores /\ g \in Semaphores
    BY <1>1, <2>1
  <2>3. Good(globalSem, GlobalWaiters, GlobalHolders, MaxConcurrent)
    BY DEF AllGood
  <2>4. b = IF n \in GlobalWaiters THEN Without(globalSem, n) ELSE Plus(globalSem)
    BY WhereFacts
  <2> HIDE DEF b, g, s
  <2>5. Woken(b, g) \subseteq GlobalWaiters
    BY <2>2, <2>3, <2>4, CancelledLine
  <2> QED
    BY <1>n, <1>2, <2>1, <2>2, <2>5, WaiterMoves DEF GlobalWaiters
<1> QED
  BY <1>3, <1>4, <1>5, <1>6, <1>7, <1>8 DEF Waits

-----------------------------------------------------------------------------
(* The budget implements NavigationAdmission.                               *)

Paused == {h \in Hosts : Refusing(h)}

\* A fresh chance is given only to a host that is no longer paused.
LEMMA ForgetPauses ==
  ASSUME TypeOK, NEW h \in Hosts, ForgetIfElapsed(h), now' = now
  PROVE  Paused' = Paused
<1>1. now \in Nat /\ openUntil \in [Hosts -> Nat]
  BY DEF TypeOK
<1>2. ASSUME NEW g \in Hosts
      PROVE  Refusing(g)' <=> Refusing(g)
  <2>1. CASE Elapsed(h) /\ g = h
    BY <1>1, <2>1 DEF ForgetIfElapsed, Refusing, Elapsed
  <2>2. CASE ~(Elapsed(h) /\ g = h)
    BY <1>1, <2>2 DEF ForgetIfElapsed, Refusing
  <2> QED
    BY <2>1, <2>2
<1> QED
  BY <1>2 DEF Paused

\* A slot is handed out only to a caller that fits and whose host accepts it.
LEMMA HandOutAdmits ==
  ASSUME TypeOK, AllGood, TypeOK', AllGood', NEW n \in Navs, HandsOut(n)
  PROVE  /\ HostOf[n] \notin Paused
         /\ Cardinality(Navigating) < MaxConcurrent
         /\ Cardinality({m \in Navigating : HostOf[m] = HostOf[n]}) < PerHost
         /\ Paused' = Paused
<1> DEFINE h == HostOf[n]
           On == {m \in Navigating : HostOf[m] = h}
<1>1. h \in Hosts /\ IsFiniteSet(Navs) /\ HostOf \in [Navs -> Hosts]
  BY NavsAssumption
<1>2. ~Refusing(h) /\ ForgetIfElapsed(h) /\ now' = now
  BY DEF HandsOut, AcquireAtOnce, ResumeHostThenHandOut, ResumeGlobalThenHandOut
<1>3. n \notin Navigating /\ Navigating' = Navigating \union {n}
  BY HandsOutEnters
<1>4. Cardinality(Navigating) < MaxConcurrent
  <2>1. /\ globalSem'.value \in Nat /\ IsFiniteSet(GlobalHolders')
        /\ globalSem'.value + Cardinality(GlobalHolders') = MaxConcurrent
        /\ MaxConcurrent \in Nat
    BY DEF AllGood, Good, Balanced, Semaphores
  <2>2. Navigating' \subseteq GlobalHolders'
    BY DEF Navigating, GlobalHolders, HasGlobalPermit
  <2>3. /\ IsFiniteSet(Navigating')
        /\ Cardinality(Navigating') <= Cardinality(GlobalHolders')
    BY <2>1, <2>2, FS_Subset
  <2>4. IsFiniteSet(Navigating)
    BY <2>3, <1>3, FS_Subset
  <2>5. Cardinality(Navigating') = Cardinality(Navigating) + 1
    BY <2>4, <1>3, FS_AddElement
  <2>6. Cardinality(Navigating) \in Nat /\ Cardinality(GlobalHolders') \in Nat
    BY <2>1, <2>4, FS_CardinalityType
  <2> QED
    BY <2>1, <2>3, <2>5, <2>6
<1>5. Cardinality(On) < PerHost
  <2>1. Good(hostSem'[h], HostWaiters(h)', HostHolders(h)', PerHost)
    BY <1>1 DEF AllGood
  <2>2. /\ hostSem'[h].value \in Nat /\ IsFiniteSet(HostHolders(h)')
        /\ hostSem'[h].value + Cardinality(HostHolders(h)') = PerHost
        /\ PerHost \in Nat
    BY <2>1 DEF Good, Balanced, Semaphores
  <2>3. Navigating' = {m \in Navs : pc'[m] = "navigating"}
    BY DEF Navigating
  <2>4. \A m \in On \union {n} : m \in Navigating' /\ HostOf[m] = h
    BY <1>3
  <2>5. On \union {n} \subseteq HostHolders(h)'
    BY <2>3, <2>4 DEF HostHolders, HasHostPermit
  <2>6. /\ IsFiniteSet(On \union {n})
        /\ Cardinality(On \union {n}) <= Cardinality(HostHolders(h)')
    BY <2>2, <2>5, FS_Subset
  <2>7. IsFiniteSet(On) /\ n \notin On
    BY <2>6, <1>3, FS_Subset
  <2>8. Cardinality(On \union {n}) = Cardinality(On) + 1
    BY <2>7, FS_AddElement
  <2>9. Cardinality(On) \in Nat /\ Cardinality(HostHolders(h)') \in Nat
    BY <2>2, <2>7, FS_CardinalityType
  <2> QED
    BY <2>2, <2>6, <2>8, <2>9
<1>6. Paused' = Paused
  BY <1>1, <1>2, ForgetPauses
<1> QED
  BY <1>2, <1>4, <1>5, <1>6 DEF Paused

\* Waiting and being turned away leave the breakers as they are.
LEMMA WaitsPauses ==
  ASSUME TypeOK, NEW n \in Navs, Waits(n)
  PROVE  Paused' = Paused
<1>1. HostOf[n] \in Hosts
  BY NavsAssumption
<1>2. CASE QueueOnHost(n) \/ QueueOnGlobal(n)
  <2>1. ForgetIfElapsed(HostOf[n]) /\ now' = now
    BY <1>2 DEF QueueOnHost, QueueOnGlobal
  <2> QED
    BY <1>1, <2>1, ForgetPauses
<1>3. CASE UNCHANGED <<openUntil, now>>
  BY <1>3 DEF Paused, Refusing
<1> QED
  BY <1>2, <1>3 DEF Waits, FailFast, ResumeHostThenQueue, ResumeHostThenRefuse,
         ResumeGlobalThenRefuse, CancelHostWait, CancelGlobalWait

\* A settled outcome pauses at most the host that was navigated to, and never
\* touches who navigates.
LEMMA SettlePauses ==
  ASSUME TypeOK, NEW n \in Navs, Settle(n)
  PROVE  /\ n \in Navigating /\ Navigating' = Navigating
         /\ Paused' \subseteq Paused \/ Paused' = Paused \union {HostOf[n]}
<1> DEFINE h == HostOf[n]
<1>1. /\ h \in Hosts /\ openUntil \in [Hosts -> Nat] /\ now \in Nat /\ BreakerCooldown \in Nat
  BY NavsAssumption, LimitsAssumption DEF TypeOK
<1>2. n \in Navigating /\ Navigating' = Navigating /\ now' = now
  BY DEF Settle, SettleOk, SettleRefused, SettleNeutral, Navigating
<1>3. \E u \in Nat : openUntil' = [openUntil EXCEPT ![h] = u]
  <2>1. CASE SettleOk(n)
    BY <2>1 DEF SettleOk
  <2>2. CASE SettleRefused(n)
    <3>1. now + BreakerCooldown \in Nat /\ openUntil[h] \in Nat
      BY <1>1
    <3>2. openUntil = [openUntil EXCEPT ![h] = openUntil[h]]
      BY <1>1
    <3> QED
      BY <2>2, <3>1, <3>2 DEF SettleRefused
  <2>3. CASE SettleNeutral(n)
    <3>1. openUntil' = openUntil /\ openUntil[h] \in Nat
      BY <2>3, <1>1 DEF SettleNeutral
    <3> QED
      BY <3>1, <1>1
  <2> QED
    BY <2>1, <2>2, <2>3 DEF Settle
<1>4. PICK u \in Nat : openUntil' = [openUntil EXCEPT ![h] = u]
  BY <1>3
<1>5. \A g \in Hosts : g # h => (Refusing(g)' <=> Refusing(g))
  BY <1>1, <1>2, <1>4 DEF Refusing
<1>6. Refusing(h)' => Paused' = Paused \union {h}
  BY <1>1, <1>5 DEF Paused
<1>7. ~Refusing(h)' => Paused' \subseteq Paused
  BY <1>1, <1>5 DEF Paused
<1> QED
  BY <1>2, <1>6, <1>7

\* Both modules count with the same operator.
LEMMA SameCount == \A S : Admission!Cardinality(S) = Cardinality(S)
BY DEF Admission!Cardinality, Cardinality

\* Every step of the budget is a step of the promise, or stutters.
LEMMA BudgetAdmits ==
  ASSUME TypeOK, AllGood, TypeOK', AllGood', [Next]_vars
  PROVE  Admission!Next \/ UNCHANGED <<Navigating, Paused>>
<1> DEFINE Admits == Admission!Next \/ UNCHANGED <<Navigating, Paused>>
<1>0. HostOf \in [Navs -> Hosts]
  BY NavsAssumption
<1>1. ASSUME NEW n \in Navs, HandsOut(n)
      PROVE  Admits
  <2>1. n \notin Navigating /\ Navigating' = Navigating \union {n}
    BY <1>1, HandsOutEnters
  <2>2. /\ HostOf[n] \notin Paused /\ Paused' = Paused
        /\ Cardinality(Navigating) < MaxConcurrent
        /\ Cardinality({m \in Navigating : HostOf[m] = HostOf[n]}) < PerHost
    BY <1>1, HandOutAdmits
  <2>3. Admission!Enter(n)
    BY <2>1, <2>2, SameCount DEF Admission!Enter, Admission!On, Paused
  <2> QED
    BY <2>3 DEF Admission!Next
<1>2. ASSUME NEW n \in Navs, Waits(n)
      PROVE  Admits
  BY <1>2, WaitsStays, WaitsPauses
<1>3. ASSUME NEW n \in Navs, Settle(n)
      PROVE  Admits
  <2>1. /\ n \in Navigating /\ Navigating' = Navigating
        /\ Paused' \subseteq Paused \/ Paused' = Paused \union {HostOf[n]}
    BY <1>3, SettlePauses
  <2>2. CASE Paused' \subseteq Paused
    <3>1. Admission!Resume
      BY <2>1, <2>2 DEF Admission!Resume, Paused
    <3> QED
      BY <3>1 DEF Admission!Next
  <2>3. CASE Paused' = Paused \union {HostOf[n]}
    <3>1. Admission!Pause(HostOf[n])
      BY <2>1, <2>3 DEF Admission!Pause, Admission!On, Paused
    <3> QED
      BY <1>0, <3>1 DEF Admission!Next
  <2> QED
    BY <2>1, <2>2, <2>3
<1>4. ASSUME NEW n \in Navs, Release(n)
      PROVE  Admits
  <2>1. n \in Navigating /\ Navigating' = Navigating \ {n}
    BY <1>4, ReleaseLeaves
  <2>2. Paused' = Paused
    BY <1>4 DEF Release, Paused, Refusing
  <2>3. Admission!Leave(n)
    BY <2>1, <2>2 DEF Admission!Leave, Paused
  <2> QED
    BY <2>3 DEF Admission!Next
<1>5. ASSUME Tick
      PROVE  Admits
  <2>1. Navigating' = Navigating /\ openUntil' = openUntil /\ now' = now + 1 /\ now \in Nat
        /\ openUntil \in [Hosts -> Nat]
    BY <1>5 DEF Tick, Navigating, TypeOK
  <2>2. Paused' \subseteq Paused
    BY <2>1 DEF Paused, Refusing
  <2>3. Admission!Resume
    BY <2>1, <2>2 DEF Admission!Resume, Paused
  <2> QED
    BY <2>3 DEF Admission!Next
<1>6. ASSUME UNCHANGED vars
      PROVE  Admits
  BY <1>6 DEF vars, Navigating, Paused, Refusing
<1> HIDE DEF Admits
<1>7. ASSUME NEW n \in Navs, Acts(n)
      PROVE  Admits
  <2>1. HandsOut(n) \/ Waits(n) \/ Settle(n) \/ Release(n)
    BY <1>7 DEF Acts, HandsOut, Waits, Acquire, ResumeHost, ResumeGlobal
  <2> QED
    BY <2>1, <1>1, <1>2, <1>3, <1>4
<1>8. Admits
  BY <1>5, <1>6, <1>7, NextIs
<1> QED
  BY <1>8 DEF Admits

\* cdp_budget.py keeps its promise to navigations whatever the queues, the
\* cancellations and the breaker do: the bounds hold, nobody starts on a host
\* that is refusing, and only a host's own navigations pause it.
THEOREM BudgetImplementsAdmission == Spec => ImplementsAdmission
<1>1. Init => Admission!Init
  <2> SUFFICES ASSUME Init
               PROVE  Admission!Init
    OBVIOUS
  <2>1. Navigating = {}
    BY DEF Init, Navigating
  <2>2. {h \in Hosts : Refusing(h)} = {}
    BY DEF Init, Refusing
  <2> QED
    BY <2>1, <2>2 DEF Admission!Init
<1>2. TypeOK /\ PermitsBalanced /\ TypeOK' /\ PermitsBalanced' /\ [Next]_vars => [Admission!Next]_(Admission!vars)
  <2> SUFFICES ASSUME TypeOK, PermitsBalanced, TypeOK', PermitsBalanced', [Next]_vars
               PROVE  [Admission!Next]_(Admission!vars)
    OBVIOUS
  <2>1. AllGood
    BY AllGoodIs
  <2>2. AllGood'
    BY <2>1, PermitStep
  <2>3. Admission!Next \/ UNCHANGED <<Navigating, Paused>>
    BY <2>1, <2>2, BudgetAdmits
  <2> QED
    BY <2>3 DEF Admission!vars, Paused
<1> QED
  BY <1>1, <1>2, PermitInvariant, PTL DEF Spec, ImplementsAdmission, Admission!Spec

-----------------------------------------------------------------------------
(* The breaker's clock.                                                     *)

\* No breaker is open for longer than one cooldown from now.
WithinCooldown == \A h \in Hosts : openUntil[h] <= now + BreakerCooldown

LEMMA BreakerStep ==
  ASSUME TypeOK, WithinCooldown, [Next]_vars
  PROVE  /\ WithinCooldown'
         /\ \A h \in Hosts : Refusing(h) =>
              \/ openUntil'[h] >= openUntil[h]
              \/ \E n \in Navigating : HostOf[n] = h /\ outcome[n] = "none" /\ outcome'[n] = "ok"
<1> DEFINE Kept == \A h \in Hosts : Refusing(h) =>
              \/ openUntil'[h] >= openUntil[h]
              \/ \E n \in Navigating : HostOf[n] = h /\ outcome[n] = "none" /\ outcome'[n] = "ok"
<1>0. /\ now \in Nat /\ openUntil \in [Hosts -> Nat] /\ BreakerCooldown \in Nat
      /\ HostOf \in [Navs -> Hosts] /\ outcome \in [Navs -> Outcomes]
  BY NavsAssumption, LimitsAssumption DEF TypeOK
<1>1. ASSUME UNCHANGED <<openUntil, now>>
      PROVE  WithinCooldown' /\ Kept
  BY <1>0, <1>1 DEF WithinCooldown
<1>2. ASSUME NEW h \in Hosts, ForgetIfElapsed(h), now' = now
      PROVE  WithinCooldown' /\ Kept
  <2>1. \A g \in Hosts : openUntil'[g] = openUntil[g] \/ (g = h /\ Elapsed(h) /\ openUntil'[g] = 0)
    BY <1>0, <1>2 DEF ForgetIfElapsed
  <2>2. \A g \in Hosts : Refusing(g) => openUntil'[g] = openUntil[g]
    BY <1>0, <2>1 DEF Refusing, Elapsed
  <2>3. WithinCooldown'
    BY <1>0, <1>2, <2>1 DEF WithinCooldown
  <2> QED
    BY <1>0, <2>2, <2>3
<1>3. ASSUME NEW n \in Navs, SettleOk(n)
      PROVE  WithinCooldown' /\ Kept
  <2>1. /\ n \in Navigating /\ outcome[n] = "none" /\ outcome'[n] = "ok" /\ now' = now
        /\ \A g \in Hosts : openUntil'[g] = IF g = HostOf[n] THEN 0 ELSE openUntil[g]
    BY <1>0, <1>3 DEF SettleOk, Navigating
  <2>2. WithinCooldown'
    BY <1>0, <2>1 DEF WithinCooldown
  <2> QED
    BY <1>0, <2>1, <2>2
<1>4. ASSUME NEW n \in Navs, SettleRefused(n)
      PROVE  WithinCooldown' /\ Kept
  <2>1. /\ now' = now
        /\ \A g \in Hosts : \/ openUntil'[g] = openUntil[g]
                             \/ openUntil'[g] = now + BreakerCooldown
    BY <1>0, <1>4 DEF SettleRefused
  <2> QED
    BY <1>0, <2>1 DEF WithinCooldown
<1>5. ASSUME Tick
      PROVE  WithinCooldown' /\ Kept
  BY <1>0, <1>5 DEF Tick, WithinCooldown
<1> HIDE DEF Kept
<1>6. ASSUME NEW n \in Navs, Acts(n)
      PROVE  WithinCooldown' /\ Kept
  <2> DEFINE Does == \/ UNCHANGED <<openUntil, now>>
                     \/ ForgetIfElapsed(HostOf[n]) /\ now' = now
                     \/ SettleOk(n) \/ SettleRefused(n)
  <2>h. HostOf[n] \in Hosts
    BY <1>0
  <2>4. CASE UNCHANGED <<openUntil, now>>
    BY <2>4, <1>1
  <2>5. CASE ForgetIfElapsed(HostOf[n]) /\ now' = now
    BY <2>h, <2>5, <1>2
  <2>6. CASE SettleOk(n) \/ SettleRefused(n)
    BY <2>6, <1>3, <1>4
  <2>1. Acquire(n) => Does
    BY DEF Acquire, FailFast, QueueOnHost, QueueOnGlobal, AcquireAtOnce
  <2>2. ResumeHost(n) \/ ResumeGlobal(n) => Does
    BY DEF ResumeHost, ResumeHostThenQueue, ResumeHostThenHandOut, ResumeHostThenRefuse,
                ResumeGlobal, ResumeGlobalThenHandOut, ResumeGlobalThenRefuse
  <2>3. CancelHostWait(n) \/ CancelGlobalWait(n) \/ Settle(n) \/ Release(n) => Does
    BY DEF CancelHostWait, CancelGlobalWait, Settle, SettleNeutral, Release
  <2>7. Does
    BY <1>6, <2>1, <2>2, <2>3 DEF Acts
  <2> QED
    BY <2>4, <2>5, <2>6, <2>7
<1>7. UNCHANGED vars => UNCHANGED <<openUntil, now>>
  BY DEF vars
<1>8. WithinCooldown' /\ Kept
  BY <1>1, <1>5, <1>6, <1>7, NextIs
<1> QED
  BY <1>8 DEF Kept

\* An open breaker stays open for its whole cooldown unless a page of that host
\* loaded meanwhile.
THEOREM OpenBreakerAlwaysKept == Spec => OpenBreakerKept
<1>1. Init => WithinCooldown
  BY LimitsAssumption DEF Init, WithinCooldown
<1>2. TypeOK /\ WithinCooldown /\ [Next]_vars => WithinCooldown'
  BY BreakerStep
<1>3. TypeOK /\ WithinCooldown /\ [Next]_vars =>
        [\A h \in Hosts : Refusing(h) =>
           \/ openUntil'[h] >= openUntil[h]
           \/ \E n \in Navigating : HostOf[n] = h /\ outcome[n] = "none" /\ outcome'[n] = "ok"]_vars
  BY BreakerStep
<1> QED
  BY <1>1, <1>2, <1>3, TypeCorrect, PTL DEF Spec, OpenBreakerKept
=============================================================================
