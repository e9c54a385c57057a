---------------------------- MODULE TTLCacheProofs ----------------------------
(***************************************************************************)
(* Theorems about TTLCache, for every number of calls, keys and entries.   *)
(*                                                                         *)
(* Two things carry them.  Nobody fetches but the holder of the lock, and  *)
(* what it fetches is not in the cache: it looked, and only it could have  *)
(* stored the page since.  And the cache lies in the order of last use, so *)
(* its first entry is the one to push out.                                 *)
(***************************************************************************)
EXTENDS TTLCache, SequenceTheorems, TLAPS

-----------------------------------------------------------------------------
(* Lines: sequences that hold each of their members once.                   *)

InLine(q)   == {q[i] : i \in 1..Len(q)}
OnceEach(q) == \A i, j \in 1..Len(q) : q[i] = q[j] => i = j

\* a stands before b in the line.
Precedes(q, a, b) == \E i, j \in 1..Len(q) : i < j /\ q[i] = a /\ q[j] = b

\* What RemoveAt leaves, and where.
LEMMA Removed ==
  ASSUME NEW S, NEW q \in Seq(S), NEW p \in 1..Len(q)
  PROVE  /\ RemoveAt(q, p) \in Seq(S) /\ Len(RemoveAt(q, p)) = Len(q) - 1
         /\ \A i \in 1..(Len(q) - 1) : RemoveAt(q, p)[i] = q[IF i < p THEN i ELSE i + 1]
<1> DEFINE a == SubSeq(q, 1, p - 1)
           b == SubSeq(q, p + 1, Len(q))
           r == RemoveAt(q, p)
<1>1. Len(q) \in Nat /\ p \in Int
  OBVIOUS
<1>2. r = a \o b
  BY DEF RemoveAt
<1>3. /\ a \in Seq(S) /\ Len(a) = p - 1
      /\ \A i \in 1..(p - 1) : a[i] = q[i]
  BY <1>1
<1>4. /\ b \in Seq(S) /\ Len(b) = Len(q) - p
      /\ \A i \in 1..(Len(q) - p) : b[i] = q[i + p]
  BY <1>1
<1> HIDE DEF a, b, r
<1>5. /\ r \in Seq(S) /\ Len(r) = Len(q) - 1
      /\ \A i \in 1..(Len(q) - 1) : r[i] = IF i <= p - 1 THEN a[i] ELSE b[i - (p - 1)]
  BY <1>1, <1>2, <1>3, <1>4
<1>6. ASSUME NEW i \in 1..(Len(q) - 1)
      PROVE  r[i] = q[IF i < p THEN i ELSE i + 1]
  <2>1. CASE i < p
    <3>1. i \in 1..(p - 1) /\ i <= p - 1
      BY <2>1, <1>1
    <3> QED
      BY <3>1, <2>1, <1>3, <1>5
  <2>2. CASE ~(i < p)
    <3>1. i - (p - 1) \in 1..(Len(q) - p) /\ (i - (p - 1)) + p = i + 1 /\ ~(i <= p - 1)
      BY <2>2, <1>1
    <3> QED
      BY <3>1, <2>2, <1>4, <1>5
  <2> QED
    BY <2>1, <2>2
<1> QED
  BY <1>5, <1>6 DEF r

\* A newcomer joins a line at its end.
LEMMA Joined ==
  ASSUME NEW S, NEW q \in Seq(S), OnceEach(q), NEW c \in S, c \notin InLine(q)
  PROVE  /\ Append(q, c) \in Seq(S) /\ OnceEach(Append(q, c))
         /\ InLine(Append(q, c)) = InLine(q) \union {c}
         /\ \A a, b : Precedes(q, a, b) => Precedes(Append(q, c), a, b)
         /\ \A a \in InLine(q) : Precedes(Append(q, c), a, c)
<1> DEFINE r == Append(q, c)
<1>1. /\ r \in Seq(S) /\ Len(r) = Len(q) + 1 /\ Len(q) \in Nat
      /\ \A i \in 1..Len(q) : r[i] = q[i]
      /\ r[Len(q) + 1] = c
  OBVIOUS
<1>2. \A i \in 1..Len(q) : q[i] # c
  BY DEF InLine
<1> HIDE DEF r
<1>3. /\ \A i \in 1..(Len(q) + 1) : i \in 1..Len(q) \/ i = Len(q) + 1
      /\ \A i \in 1..Len(q) : i \in 1..(Len(q) + 1) /\ i < Len(q) + 1
      /\ Len(q) + 1 \in 1..(Len(q) + 1)
  BY <1>1
<1>4. OnceEach(r)
  BY <1>1, <1>2, <1>3 DEF OnceEach
<1>5. InLine(r) = InLine(q) \union {c}
  BY <1>1, <1>3 DEF InLine
<1>6. \A a, b : Precedes(q, a, b) => Precedes(r, a, b)
  BY <1>1, <1>3 DEF Precedes
<1>7. \A a \in InLine(q) : Precedes(r, a, c)
  BY <1>1, <1>3 DEF Precedes, InLine
<1> QED
  BY <1>1, <1>4, <1>5, <1>6, <1>7 DEF r

\* The first in line leaves it.
LEMMA FirstLeaves ==
  ASSUME NEW S, NEW q \in Seq(S), OnceEach(q), q # <<>>
  PROVE  /\ Tail(q) \in Seq(S) /\ OnceEach(Tail(q))
         /\ Head(q) \in InLine(q)
         /\ InLine(Tail(q)) = InLine(q) \ {Head(q)}
<1> DEFINE r == Tail(q)
<1>1. /\ r \in Seq(S) /\ Len(r) = Len(q) - 1 /\ Len(q) \in Nat /\ Len(q) >= 1
      /\ \A i \in 1..(Len(q) - 1) : r[i] = q[i + 1]
      /\ Head(q) = q[1]
  OBVIOUS
<1> HIDE DEF r
<1>2. /\ \A i \in 1..(Len(q) - 1) : i + 1 \in 1..Len(q) /\ i + 1 # 1
      /\ \A i, j \in 1..(Len(q) - 1) : i + 1 = j + 1 => i = j
      /\ \A j \in 1..Len(q) : j # 1 => j - 1 \in 1..(Len(q) - 1) /\ (j - 1) + 1 = j
      /\ 1 \in 1..Len(q)
  BY <1>1
<1>3. OnceEach(r)
  BY <1>1, <1>2 DEF OnceEach
<1>4. \A i \in 1..(Len(q) - 1) : r[i] \in InLine(q) \ {q[1]}
  BY <1>1, <1>2 DEF OnceEach, InLine
<1>5. ASSUME NEW m \in InLine(q) \ {q[1]}
      PROVE  \E i \in 1..(Len(q) - 1) : r[i] = m
  <2>1. PICK j \in 1..Len(q) : q[j] = m
    BY DEF InLine
  <2>2. j - 1 \in 1..(Len(q) - 1) /\ (j - 1) + 1 = j
    BY <2>1, <1>2
  <2> QED
    BY <2>1, <2>2, <1>1
<1>6. InLine(r) = {r[i] : i \in 1..(Len(q) - 1)}
  BY <1>1 DEF InLine
<1>7. q[1] \in InLine(q)
  BY <1>2 DEF InLine
<1> QED
  BY <1>1, <1>3, <1>4, <1>5, <1>6, <1>7 DEF r

\* One in the line, or perhaps not, leaves it; the others keep their order.
LEMMA OneLeaves ==
  ASSUME NEW S, NEW q \in Seq(S), OnceEach(q), NEW c
  PROVE  /\ RemoveFirst(q, c) \in Seq(S) /\ OnceEach(RemoveFirst(q, c))
         /\ InLine(RemoveFirst(q, c)) = InLine(q) \ {c}
         /\ \A a, b : a # c /\ b # c /\ Precedes(q, a, b) => Precedes(RemoveFirst(q, c), a, b)
<1>1. CASE c \notin InLine(q)
  <2>1. RemoveFirst(q, c) = q
    BY <1>1 DEF RemoveFirst, InLine
  <2> QED
    BY <1>1, <2>1
<1>2. CASE c \in InLine(q)
  <2> DEFINE I == {i \in 1..Len(q) : q[i] = c}
             r == RemoveFirst(q, c)
  <2>1. PICK p \in 1..Len(q) : q[p] = c
    BY <1>2 DEF InLine
  <2>2. I = {p}
    BY <2>1 DEF OnceEach
  <2>3. Len(q) \in Nat /\ p \in Int
    OBVIOUS
  <2>4. Min(I) = p
    BY <2>2, <2>3 DEF Min
  <2>5. SelectInSeq(q, LAMBDA v : v = c) = p
    BY <2>2, <2>4 DEF SelectInSeq
  <2>6. r = RemoveAt(q, p)
    BY <2>1, <2>5 DEF RemoveFirst
  <2> HIDE DEF r, I
  <2>7. /\ r \in Seq(S) /\ Len(r) = Len(q) - 1
        /\ \A i \in 1..(Len(q) - 1) : r[i] = q[IF i < p THEN i ELSE i + 1]
    BY <2>6, Removed
  <2> DEFINE from(i) == IF i < p THEN i ELSE i + 1
             to(j)   == IF j < p THEN j ELSE j - 1
  <2>8. /\ \A i \in 1..(Len(q) - 1) : from(i) \in 1..Len(q) /\ from(i) # p
        /\ \A i, j \in 1..(Len(q) - 1) : from(i) = from(j) => i = j
        /\ \A j \in 1..Len(q) : j # p => to(j) \in 1..(Len(q) - 1) /\ from(to(j)) = j
        /\ \A i, j \in 1..Len(q) : i # p /\ j # p /\ i < j => to(i) < to(j)
    BY <2>3
  <2>9. /\ \A i \in 1..(Len(q) - 1) : r[i] = q[from(i)]
        /\ \A j \in 1..Len(q) : q[j] = c => j = p
        /\ \A i, j \in 1..Len(q) : q[i] = q[j] => i = j
    BY <2>1, <2>7 DEF OnceEach
  <2> HIDE DEF from, to
  <2>10. \A i, j \in 1..(Len(q) - 1) : r[i] = r[j] => i = j
    BY <2>8, <2>9
  <2>11. OnceEach(r)
    BY <2>7, <2>10 DEF OnceEach
  <2>12. \A j \in 1..Len(q) : j # p => to(j) \in 1..(Len(q) - 1) /\ r[to(j)] = q[j]
    BY <2>8, <2>9
  <2>13. InLine(r) = {r[i] : i \in 1..(Len(q) - 1)}
    BY <2>7 DEF InLine
  <2>14. \A i \in 1..(Len(q) - 1) : r[i] \in InLine(q) \ {c}
    BY <2>8, <2>9 DEF InLine
  <2>15. ASSUME NEW m \in InLine(q) \ {c}
         PROVE  \E i \in 1..(Len(q) - 1) : r[i] = m
    <3>1. PICK j \in 1..Len(q) : q[j] = m
      BY DEF InLine
    <3>2. j # p
      BY <3>1, <2>1
    <3> QED
      BY <3>1, <3>2, <2>12
  <2>16. InLine(r) = InLine(q) \ {c}
    BY <2>13, <2>14, <2>15
  <2>17. ASSUME NEW a, NEW b, a # c, b # c, Precedes(q, a, b)
         PROVE  Precedes(r, a, b)
    <3>1. PICK i \in 1..Len(q), j \in 1..Len(q) : i < j /\ q[i] = a /\ q[j] = b
      BY <2>17 DEF Precedes
    <3>2. i # p /\ j # p
      BY <3>1, <2>1, <2>17
    <3>3. to(i) < to(j) /\ to(i) \in 1..(Len(q) - 1) /\ to(j) \in 1..(Len(q) - 1) /\ r[to(i)] = a /\ r[to(j)] = b
      BY <3>1, <3>2, <2>8, <2>12
    <3> QED
      BY <3>3, <2>7 DEF Precedes
  <2> QED
    BY <2>7, <2>11, <2>16, <2>17 DEF r
<1> QED
  BY <1>1, <1>2

-----------------------------------------------------------------------------
(* The inductive invariant.                                                 *)

CallType == [pc : {"idle", "queued", "fetching"}, key : Keys \union {None}]

\* The lock and its queue are those the calls take themselves for.
LockAgrees ==
  /\ holder \in Callers \union {None}
  /\ queue \in Seq(Callers) /\ OnceEach(queue)
  /\ caller \in [Callers -> CallType]
  /\ \A c \in Callers : /\ caller[c].pc = "fetching" <=> holder = c
                        /\ caller[c].pc = "queued" <=> c \in InLine(queue)
                        /\ caller[c].pc # "idle" => caller[c].key \in Keys

\* The cache is bounded, holds content only, and lies in the order of last use.
Good(d, rec) ==
  /\ d \in Seq(Entries) /\ Len(d) <= MaxEntries
  /\ \A i \in 1..Len(d) : d[i].page \in Content /\ d[i].key \in InLine(rec)
  /\ \A i, j \in 1..Len(d) : i < j => Precedes(rec, d[i].key, d[j].key)

CacheGood ==
  /\ recent \in Seq(Keys) /\ OnceEach(recent)
  /\ Good(data, recent)

\* What is being fetched is not in the cache.
FetchedIsAbsent == \A c \in Callers : caller[c].pc = "fetching" => ~Holds(data, caller[c].key)

IInv == LockAgrees /\ CacheGood /\ FetchedIsAbsent

\* A step pushes a live page out of a full cache only, and the oldest one.
Evicts ==
  \A k \in Keys : Live(data, k) /\ ~Holds(data', k) =>
    /\ Len(data) = MaxEntries
    /\ \A i \in 1..Len(data) : Rank(k) <= Rank(data[i].key)

\* What the properties say of a step.
StepGood ==
  /\ Evicts
  /\ \A c \in Callers : Starts(c) =>
       /\ \A d \in Callers : caller[d].pc # "fetching"
       /\ ~Live(data, caller'[c].key)

-----------------------------------------------------------------------------
(* The cache.                                                               *)

\* Nobody stands before itself.
LEMMA NotBeforeItself ==
  ASSUME NEW q, OnceEach(q), NEW a, Len(q) \in Nat
  PROVE  ~Precedes(q, a, a)
BY DEF OnceEach, Precedes

LEMMA KeysOnce ==
  ASSUME NEW d, NEW rec \in Seq(Keys), OnceEach(rec), Good(d, rec)
  PROVE  \A i, j \in 1..Len(d) : d[i].key = d[j].key => i = j
<1>1. \A i \in 1..Len(d), j \in 1..Len(d) : i < j => d[i].key # d[j].key
  BY NotBeforeItself DEF Good
<1>2. Len(d) \in Nat
  BY DEF Good
<1>3. \A i, j \in 1..Len(d) : i = j \/ i < j \/ j < i
  BY <1>2
<1> QED
  BY <1>1, <1>3

\* Dropping a key leaves the others, in their order, and not the key.
LEMMA Drops ==
  ASSUME CacheAssumption, NEW rec \in Seq(Keys), OnceEach(rec), NEW d, Good(d, rec), NEW k
  PROVE  /\ Good(Dropped(d, k), rec)
         /\ ~Holds(Dropped(d, k), k)
         /\ \A m : m # k => (Holds(Dropped(d, k), m) <=> Holds(d, m))
         /\ \A i \in 1..Len(Dropped(d, k)) : \E j \in 1..Len(d) : Dropped(d, k)[i] = d[j]
         /\ Holds(d, k) => Len(Dropped(d, k)) = Len(d) - 1
<1>1. CASE ~Holds(d, k)
  BY <1>1 DEF Dropped
<1>2. CASE Holds(d, k)
  <2>1. PICK p \in 1..Len(d) : p = At(d, k) /\ d[p].key = k
    BY <1>2 DEF Holds, At
  <2>2. d \in Seq(Entries) /\ Len(d) \in Nat /\ p \in Int
    BY DEF Good
  <2> DEFINE r == Dropped(d, k)
             from(i) == IF i < p THEN i ELSE i + 1
             to(j)   == IF j < p THEN j ELSE j - 1
  <2>3. r = RemoveAt(d, p)
    BY <1>2, <2>1 DEF Dropped
  <2> HIDE DEF r
  <2>4. /\ r \in Seq(Entries) /\ Len(r) = Len(d) - 1
        /\ \A i \in 1..(Len(d) - 1) : r[i] = d[IF i < p THEN i ELSE i + 1]
    BY <2>2, <2>3, Removed
  <2>5. /\ \A i \in 1..(Len(d) - 1) : from(i) \in 1..Len(d) /\ from(i) # p
        /\ \A i, j \in 1..(Len(d) - 1) : i < j => from(i) < from(j)
        /\ \A j \in 1..Len(d) : j # p => to(j) \in 1..(Len(d) - 1) /\ from(to(j)) = j
    BY <2>2
  <2>6. \A i \in 1..Len(r) : r[i] = d[from(i)] /\ from(i) \in 1..Len(d) /\ from(i) # p
    BY <2>4, <2>5
  <2>7. \A i, j \in 1..Len(r) : i < j => from(i) < from(j)
    BY <2>4, <2>5
  <2>8. \A j \in 1..Len(d) : j # p => to(j) \in 1..Len(r) /\ r[to(j)] = d[j]
    BY <2>4, <2>5, <2>6
  <2> HIDE DEF from, to
  <2>9. Good(r, rec)
    <3>1. MaxEntries \in Nat
      BY DEF CacheAssumption
    <3>2. \A i \in 1..Len(r) : r[i].page \in Content /\ r[i].key \in InLine(rec)
      BY <2>6 DEF Good
    <3>3. \A i, j \in 1..Len(r) : i < j => Precedes(rec, r[i].key, r[j].key)
      BY <2>6, <2>7 DEF Good
    <3>4. Len(r) <= MaxEntries
      BY <3>1, <2>2, <2>4 DEF Good
    <3> QED
      BY <2>4, <3>2, <3>3, <3>4 DEF Good
  <2>10. ~Holds(r, k)
    BY <2>1, <2>6, KeysOnce DEF Holds
  <2>11. ASSUME NEW m, m # k
         PROVE  Holds(r, m) <=> Holds(d, m)
    <3>1. Holds(r, m) => Holds(d, m)
      BY <2>6 DEF Holds
    <3>2. ASSUME Holds(d, m)
          PROVE  Holds(r, m)
      <4>1. PICK j \in 1..Len(d) : d[j].key = m
        BY <3>2 DEF Holds
      <4>2. j # p
        BY <4>1, <2>1, <2>11
      <4> QED
        BY <4>1, <4>2, <2>8 DEF Holds
    <3> QED
      BY <3>1, <3>2
  <2> QED
    BY <2>4, <2>6, <2>9, <2>10, <2>11 DEF r
<1> QED
  BY <1>1, <1>2

\* What the order of use is once a key is used again.
LEMMA UsedOrder ==
  ASSUME recent \in Seq(Keys), OnceEach(recent), NEW k \in Keys
  PROVE  /\ Used(k) \in Seq(Keys) /\ OnceEach(Used(k))
         /\ InLine(Used(k)) = InLine(recent) \union {k}
         /\ \A a, b : a # k /\ b # k /\ Precedes(recent, a, b) => Precedes(Used(k), a, b)
         /\ \A a \in InLine(recent) : a # k => Precedes(Used(k), a, k)
<1> DEFINE w == RemoveFirst(recent, k)
<1>1. /\ w \in Seq(Keys) /\ OnceEach(w) /\ InLine(w) = InLine(recent) \ {k}
      /\ \A a, b : a # k /\ b # k /\ Precedes(recent, a, b) => Precedes(w, a, b)
  BY OneLeaves
<1>2. Used(k) = Append(w, k)
  BY DEF Used
<1> HIDE DEF w
<1>3. k \notin InLine(w)
  BY <1>1
<1>4. /\ Append(w, k) \in Seq(Keys) /\ OnceEach(Append(w, k))
      /\ InLine(Append(w, k)) = InLine(w) \union {k}
      /\ \A a, b : Precedes(w, a, b) => Precedes(Append(w, k), a, b)
      /\ \A a \in InLine(w) : Precedes(Append(w, k), a, k)
  BY <1>1, <1>3, Joined
<1> QED
  BY <1>1, <1>2, <1>4

\* An entry used or stored last goes to the end.
LEMMA GoesLast ==
  ASSUME recent \in Seq(Keys), OnceEach(recent), NEW d, Good(d, recent),
         NEW e \in Entries, e.page \in Content, ~Holds(d, e.key), Len(d) + 1 <= MaxEntries
  PROVE  Good(Append(d, e), Used(e.key))
<1> DEFINE r == Append(d, e)
           u == Used(e.key)
<1>1. e.key \in Keys
  BY DEF Entries
<1>2. /\ InLine(u) = InLine(recent) \union {e.key}
      /\ \A a, b : a # e.key /\ b # e.key /\ Precedes(recent, a, b) => Precedes(u, a, b)
      /\ \A a \in InLine(recent) : a # e.key => Precedes(u, a, e.key)
  BY <1>1, UsedOrder
<1>3. /\ r \in Seq(Entries) /\ Len(r) = Len(d) + 1 /\ Len(d) \in Nat
      /\ \A i \in 1..Len(d) : r[i] = d[i]
      /\ r[Len(d) + 1] = e
  BY DEF Good
<1>4. /\ \A i \in 1..(Len(d) + 1) : i \in 1..Len(d) \/ i = Len(d) + 1
      /\ \A i, j \in 1..(Len(d) + 1) : i < j => i \in 1..Len(d)
  BY <1>3
<1>5. \A i \in 1..Len(d) : /\ d[i].page \in Content /\ d[i].key \in InLine(recent)
                           /\ d[i].key # e.key
  BY DEF Good, Holds
<1>6. \A i, j \in 1..Len(d) : i < j => Precedes(recent, d[i].key, d[j].key)
  BY DEF Good
<1> HIDE DEF r, u
<1>7. \A i \in 1..Len(r) : r[i].page \in Content /\ r[i].key \in InLine(u)
  BY <1>2, <1>3, <1>4, <1>5
<1>8. ASSUME NEW i \in 1..Len(r), NEW j \in 1..Len(r), i < j
      PROVE  Precedes(u, r[i].key, r[j].key)
  <2>1. i \in 1..Len(d) /\ r[i] = d[i]
    BY <1>3, <1>4, <1>8
  <2>2. CASE j \in 1..Len(d)
    BY <2>1, <2>2, <1>2, <1>3, <1>5, <1>6, <1>8
  <2>3. CASE j = Len(d) + 1
    BY <2>1, <2>3, <1>2, <1>3, <1>5
  <2> QED
    BY <2>2, <2>3, <1>3, <1>4
<1>9. Len(r) <= MaxEntries
  BY <1>3
<1>10. Good(r, u)
  BY <1>3, <1>7, <1>8, <1>9 DEF Good
<1> QED
  BY <1>10 DEF r, u

\* get() on a live page.
LEMMA LookedLive ==
  ASSUME CacheAssumption, CacheGood, NEW k \in Keys, Live(data, k)
  PROVE  /\ Good(Looked(data, k), Used(k))
         /\ \A m : Holds(Looked(data, k), m) <=> Holds(data, m)
<1>1. Holds(data, k)
  BY DEF Live, Holds
<1>2. PICK p \in 1..Len(data) : p = At(data, k) /\ data[p].key = k
  BY <1>1 DEF Holds, At
<1> DEFINE r == Dropped(data, k)
           e == data[p]
<1>3. Looked(data, k) = Append(r, e)
  BY <1>2 DEF Looked
<1>4. /\ Good(r, recent) /\ ~Holds(r, k) /\ Len(r) = Len(data) - 1
      /\ \A m : m # k => (Holds(r, m) <=> Holds(data, m))
  BY <1>1, Drops DEF CacheGood
<1>5. e \in Entries /\ e.key = k /\ e.page \in Content /\ Len(data) \in Nat /\ Len(data) <= MaxEntries
  BY <1>2 DEF CacheGood, Good
<1> HIDE DEF r, e
<1>6. Len(r) + 1 <= MaxEntries /\ recent \in Seq(Keys) /\ OnceEach(recent)
  BY <1>4, <1>5 DEF CacheGood
<1>7. Good(Append(r, e), Used(k))
  BY <1>4, <1>5, <1>6, GoesLast
<1>8. \A m : Holds(Append(r, e), m) <=> (Holds(r, m) \/ m = k)
  <2>1. /\ Len(Append(r, e)) = Len(r) + 1 /\ Len(r) \in Nat
        /\ \A i \in 1..Len(r) : Append(r, e)[i] = r[i]
        /\ Append(r, e)[Len(r) + 1] = e
    BY <1>4, <1>5 DEF Good
  <2>2. /\ \A i \in 1..(Len(r) + 1) : i \in 1..Len(r) \/ i = Len(r) + 1
        /\ \A i \in 1..Len(r) : i \in 1..(Len(r) + 1)
        /\ Len(r) + 1 \in 1..(Len(r) + 1)
    BY <2>1
  <2> QED
    BY <2>1, <2>2, <1>5 DEF Holds
<1> QED
  BY <1>1, <1>3, <1>4, <1>7, <1>8

\* get() on a page that is not there, or expired.
LEMMA LookedDead ==
  ASSUME CacheAssumption, CacheGood, NEW k \in Keys, ~Live(data, k)
  PROVE  /\ Good(Looked(data, k), recent) /\ ~Holds(Looked(data, k), k)
         /\ \A m : m # k => (Holds(Looked(data, k), m) <=> Holds(data, m))
<1>1. Looked(data, k) = Dropped(data, k)
  BY DEF Looked
<1> QED
  BY <1>1, Drops DEF CacheGood

\* A disabled cache has no live page.
LEMMA Disabled ==
  ASSUME CacheAssumption, CacheGood, NEW k, ~(Enabled /\ Live(data, k))
  PROVE  ~Live(data, k)
<1>1. CASE ~Enabled
  <2>1. TTL = 0
    BY <1>1 DEF Enabled, CacheAssumption
  <2>2. \A i \in 1..Len(data) : data[i] \in Entries
    BY DEF CacheGood, Good
  <2>3. \A i \in 1..Len(data) : data[i].left \in 0..TTL
    BY <2>2 DEF Entries
  <2>4. \A i \in 1..Len(data) : ~(data[i].left > 0)
    BY <2>1, <2>3
  <2> QED
    BY <2>4 DEF Live
<1> QED
  BY <1>1

\* The first entry is the one used longest ago.
LEMMA OldestFirst ==
  ASSUME CacheGood, data # <<>>
  PROVE  \A i \in 1..Len(data) : Rank(data[1].key) <= Rank(data[i].key)
<1>1. /\ data \in Seq(Entries) /\ Len(data) \in Nat /\ Len(data) >= 1 /\ 1 \in 1..Len(data)
      /\ Len(recent) \in Nat
      /\ \A i \in 1..Len(data) : data[i].key \in InLine(recent)
      /\ \A i, j \in 1..Len(data) : i < j => Precedes(recent, data[i].key, data[j].key)
  BY DEF CacheGood, Good
<1>2. ASSUME NEW k \in InLine(recent)
      PROVE  /\ Rank(k) \in 1..Len(recent) /\ recent[Rank(k)] = k
             /\ \A i \in 1..Len(recent) : recent[i] = k => Rank(k) = i
  <2>1. \E i \in 1..Len(recent) : recent[i] = k
    BY DEF InLine
  <2>2. Rank(k) \in 1..Len(recent) /\ recent[Rank(k)] = k
    BY <2>1 DEF Rank
  <2> QED
    BY <2>2 DEF CacheGood, OnceEach
<1>3. ASSUME NEW i \in 1..Len(data), i # 1
      PROVE  Rank(data[1].key) <= Rank(data[i].key)
  <2>1. Precedes(recent, data[1].key, data[i].key)
    BY <1>1, <1>3
  <2>2. PICK a \in 1..Len(recent), b \in 1..Len(recent) :
          a < b /\ recent[a] = data[1].key /\ recent[b] = data[i].key
    BY <2>1 DEF Precedes
  <2>3. Rank(data[1].key) = a /\ Rank(data[i].key) = b
    BY <2>2, <1>1, <1>2
  <2> QED
    BY <2>2, <2>3, <1>1
<1>4. Rank(data[1].key) <= Rank(data[1].key)
  <2>1. Rank(data[1].key) \in 1..Len(recent)
    BY <1>1, <1>2
  <2> QED
    BY <2>1, <1>1
<1> QED
  BY <1>3, <1>4

\* Making room takes the first entry.
LEMMA MakesRoom ==
  ASSUME CacheAssumption, CacheGood, data # <<>>
  PROVE  /\ Good(Tail(data), recent)
         /\ Len(Tail(data)) = Len(data) - 1
         /\ \A m : Holds(Tail(data), m) => Holds(data, m)
         /\ \A m : Holds(data, m) => Holds(Tail(data), m) \/ m = data[1].key
<1> DEFINE r == Tail(data)
<1>1. /\ r \in Seq(Entries) /\ Len(r) = Len(data) - 1 /\ Len(data) \in Nat /\ Len(data) >= 1
      /\ \A i \in 1..(Len(data) - 1) : r[i] = data[i + 1]
  BY DEF CacheGood, Good
<1> HIDE DEF r
<1>2. /\ \A i \in 1..Len(r) : r[i] = data[i + 1] /\ i + 1 \in 1..Len(data)
      /\ \A i, j \in 1..Len(r) : i < j => i + 1 < j + 1
      /\ \A j \in 1..Len(data) : j # 1 => j - 1 \in 1..Len(r) /\ (j - 1) + 1 = j
  BY <1>1
<1>3. \A j \in 1..Len(data) : j # 1 => r[j - 1] = data[j] /\ j - 1 \in 1..Len(r)
  BY <1>2
<1>4. \A i \in 1..Len(r) : r[i].page \in Content /\ r[i].key \in InLine(recent)
  BY <1>2 DEF CacheGood, Good
<1>5. \A i, j \in 1..Len(r) : i < j => Precedes(recent, r[i].key, r[j].key)
  BY <1>2 DEF CacheGood, Good
<1>6. Len(r) <= MaxEntries
  BY <1>1 DEF CacheGood, Good, CacheAssumption
<1>7. Good(r, recent)
  BY <1>1, <1>4, <1>5, <1>6 DEF Good
<1>8. \A m : Holds(r, m) => Holds(data, m)
  BY <1>2 DEF Holds
<1>9. \A m : Holds(data, m) => Holds(r, m) \/ m = data[1].key
  BY <1>3 DEF Holds
<1> QED
  BY <1>1, <1>7, <1>8, <1>9 DEF r

\* set() of a page that is not there: room is made if need be, and it goes last.
LEMMA StoresLast ==
  ASSUME CacheAssumption, CacheGood, NEW k \in Keys, NEW p, ~Holds(data, k)
  PROVE  \E x : /\ Stored(data, k, p) = Append(x, [key |-> k, page |-> p, left |-> TTL])
                /\ Good(x, recent) /\ ~Holds(x, k) /\ Len(x) + 1 <= MaxEntries
                /\ \A m : Holds(x, m) => Holds(data, m)
                /\ \A m : Holds(data, m) /\ ~Holds(x, m) =>
                     data # <<>> /\ Len(data) = MaxEntries /\ m = data[1].key
<1> DEFINE e == [key |-> k, page |-> p, left |-> TTL]
           y == Append(data, e)
<1>1. Stored(data, k, p) = IF Len(y) > MaxEntries THEN Tail(y) ELSE y
  BY DEF Stored, Dropped
<1>2. Len(y) = Len(data) + 1 /\ Len(data) \in Nat /\ Len(data) <= MaxEntries /\ MaxEntries \in Nat
      /\ MaxEntries > 0 /\ Good(data, recent) /\ data \in Seq(Entries)
  BY DEF CacheGood, Good, CacheAssumption
<1>3. CASE Len(data) < MaxEntries
  <2>1. Stored(data, k, p) = Append(data, e) /\ Len(data) + 1 <= MaxEntries
    BY <1>1, <1>2, <1>3
  <2> QED
    BY <2>1, <1>2
<1>4. CASE Len(data) = MaxEntries
  <2>1. Stored(data, k, p) = Tail(y) /\ data # <<>>
    BY <1>1, <1>2, <1>4
  <2>2. Tail(y) = Append(Tail(data), e)
    BY <2>1, <1>2
  <2>3. Len(Tail(data)) + 1 <= MaxEntries
    BY <2>1, <1>2, <1>4, MakesRoom
  <2>4. /\ Good(Tail(data), recent)
        /\ \A m : Holds(Tail(data), m) => Holds(data, m)
        /\ \A m : Holds(data, m) => Holds(Tail(data), m) \/ m = data[1].key
    BY <2>1, MakesRoom
  <2> HIDE DEF y, e
  <2>5. ~Holds(Tail(data), k)
    BY <2>4
  <2>6. Stored(data, k, p) = Append(Tail(data), e)
    BY <2>1, <2>2
  <2>7. \A m : Holds(data, m) /\ ~Holds(Tail(data), m) =>
          data # <<>> /\ Len(data) = MaxEntries /\ m = data[1].key
    BY <2>1, <2>4, <1>4
  <2>8. WITNESS Tail(data)
  <2> QED
    BY <2>3, <2>4, <2>5, <2>6, <2>7 DEF e
<1> QED
  BY <1>2, <1>3, <1>4

\* A page that is stored and dropped in one step leaves the rest as it was.
LEMMA StoredThenDropped ==
  ASSUME NEW x, Good(x, recent), NEW e, ~Holds(x, e.key)
  PROVE  Dropped(Append(x, e), e.key) = x
<1> DEFINE S == Entries \union {e}
           y == Append(x, e)
           n == Len(x) + 1
<1>1. x \in Seq(Entries) /\ Len(x) \in Nat
  BY DEF Good
<1>2. \A i \in 1..Len(x) : x[i] \in S
  BY <1>1
<1>3. x \in Seq(S)
  BY <1>1, <1>2
<1>4. /\ y \in Seq(S) /\ Len(y) = n /\ n \in 1..n /\ y[n] = e
      /\ \A i \in 1..Len(x) : y[i] = x[i]
      /\ \A i \in 1..n : i \in 1..Len(x) \/ i = n
      /\ \A i \in 1..(n - 1) : i \in 1..Len(x) /\ i < n
      /\ n - 1 = Len(x)
  BY <1>1, <1>3
<1> HIDE DEF y, n, S
<1>5. Holds(y, e.key)
  BY <1>4 DEF Holds
<1>6. \A i \in 1..Len(y) : y[i].key = e.key => i = n
  BY <1>4 DEF Holds
<1>7. At(y, e.key) = n
  BY <1>4, <1>6 DEF At
<1>8. Dropped(y, e.key) = RemoveAt(y, n)
  BY <1>5, <1>7 DEF Dropped
<1>9. /\ RemoveAt(y, n) \in Seq(S) /\ Len(RemoveAt(y, n)) = Len(x)
      /\ \A i \in 1..Len(x) : RemoveAt(y, n)[i] = x[i]
  <2>1. n \in 1..Len(y)
    BY <1>4
  <2>2. /\ RemoveAt(y, n) \in Seq(S) /\ Len(RemoveAt(y, n)) = Len(y) - 1
        /\ \A i \in 1..(Len(y) - 1) : RemoveAt(y, n)[i] = y[IF i < n THEN i ELSE i + 1]
    BY <2>1, <1>4, Removed
  <2> QED
    BY <2>2, <1>4
<1>10. RemoveAt(y, n) = x
  BY <1>3, <1>9, SeqEqual
<1> QED
  BY <1>8, <1>10 DEF y

-----------------------------------------------------------------------------
(* The lock.                                                                *)

\* One call moves, and the lock and its queue move with it.
LEMMA CallMoves ==
  ASSUME CacheAssumption, LockAgrees, NEW c \in Callers, NEW x \in CallType,
         x.pc # "idle" => x.key \in Keys,
         caller' = [caller EXCEPT ![c] = x],
         queue' \in Seq(Callers), OnceEach(queue'),
         InLine(queue') = IF x.pc = "queued" THEN InLine(queue) \union {c} ELSE InLine(queue) \ {c},
         holder' = IF x.pc = "fetching" THEN c ELSE IF holder = c THEN None ELSE holder,
         x.pc = "fetching" => holder \in {None, c}
  PROVE  LockAgrees'
<1>1. caller' \in [Callers -> CallType] /\ \A d \in Callers : caller'[d] = IF d = c THEN x ELSE caller[d]
  BY DEF LockAgrees
<1>2. None \notin Callers
  BY DEF CacheAssumption
<1>3. holder' \in Callers \union {None}
  BY DEF LockAgrees
<1>4. ASSUME NEW d \in Callers
      PROVE  /\ caller'[d].pc = "fetching" <=> holder' = d
             /\ caller'[d].pc = "queued" <=> d \in InLine(queue')
             /\ caller'[d].pc # "idle" => caller'[d].key \in Keys
  <2>1. CASE d = c
    BY <2>1, <1>1, <1>2
  <2>2. CASE d # c
    BY <2>2, <1>1, <1>2 DEF LockAgrees
  <2> QED
    BY <2>1, <2>2
<1> QED
  BY <1>1, <1>3, <1>4 DEF LockAgrees

\* The records a call goes through.
LEMMA CallRecords ==
  /\ NoCall \in CallType /\ NoCall.pc = "idle"
  /\ \A at \in {"queued", "fetching"}, k \in Keys :
       /\ [pc |-> at, key |-> k] \in CallType
       /\ [pc |-> at, key |-> k].pc = at /\ [pc |-> at, key |-> k].key = k
BY DEF NoCall, CallType

\* Whoever takes its turn has been queued, and is in the queue no more.
LEMMA TurnTaken ==
  ASSUME LockAgrees, NEW c \in Callers, holder = None, queue # <<>>, c = Head(queue), queue' = Tail(queue)
  PROVE  /\ caller[c].pc = "queued" /\ caller[c].key \in Keys
         /\ queue' \in Seq(Callers) /\ OnceEach(queue') /\ InLine(queue') = InLine(queue) \ {c}
<1>1. /\ Tail(queue) \in Seq(Callers) /\ OnceEach(Tail(queue))
      /\ Head(queue) \in InLine(queue)
      /\ InLine(Tail(queue)) = InLine(queue) \ {Head(queue)}
  BY FirstLeaves DEF LockAgrees
<1> QED
  BY <1>1 DEF LockAgrees

-----------------------------------------------------------------------------
(* The steps.                                                               *)

Kept == IInv' /\ StepGood

\* No step but a fetch that ends pushes a live page out.
LEMMA NothingEvicted ==
  ASSUME \A m \in Keys : Live(data, m) => Holds(data', m)
  PROVE  Evicts
BY DEF Evicts

LEMMA LiveHeld == \A d, m : Live(d, m) => Holds(d, m)
BY DEF Live, Holds

\* A call that starts to fetch is alone, and finds its page missing.
LEMMA StartsRight ==
  ASSUME CacheAssumption, LockAgrees, NEW c \in Callers, NEW x, caller' = [caller EXCEPT ![c] = x],
         x.pc = "fetching" => holder = None /\ ~Live(data, x.key)
  PROVE  \A d \in Callers : Starts(d) =>
           /\ \A e \in Callers : caller[e].pc # "fetching"
           /\ ~Live(data, caller'[d].key)
<1>1. \A d \in Callers : caller'[d] = IF d = c THEN x ELSE caller[d]
  BY DEF LockAgrees
<1>2. holder = None => \A e \in Callers : caller[e].pc # "fetching"
  BY DEF CacheAssumption, LockAgrees
<1> QED
  BY <1>1, <1>2 DEF Starts

LEMMA HitKeeps ==
  ASSUME CacheAssumption, IInv, NEW c \in Callers, NEW k \in Keys, Hit(c, k)
  PROVE  Kept
<1>1. /\ Live(data, k) /\ data' = Looked(data, k) /\ recent' = Used(k)
      /\ UNCHANGED <<holder, queue, caller>>
  BY DEF Hit
<1>2. Good(data', recent') /\ \A m : Holds(data', m) <=> Holds(data, m)
  BY <1>1, LookedLive DEF IInv
<1>3. CacheGood'
  BY <1>1, <1>2, UsedOrder DEF IInv, CacheGood
<1>4. LockAgrees' /\ FetchedIsAbsent'
  BY <1>1, <1>2 DEF IInv, LockAgrees, FetchedIsAbsent
<1>5. StepGood
  BY <1>1, <1>2, LiveHeld DEF StepGood, Starts, Evicts
<1> QED
  BY <1>3, <1>4, <1>5 DEF Kept, IInv

LEMMA MissKeeps ==
  ASSUME CacheAssumption, IInv, NEW c \in Callers, NEW k \in Keys, MissAndFetch(c, k) \/ MissAndQueue(c, k)
  PROVE  Kept
<1>1. /\ caller[c].pc = "idle" /\ ~(Enabled /\ Live(data, k))
      /\ data' = Looked(data, k) /\ recent' = recent
  BY DEF MissAndFetch, MissAndQueue
<1>2. ~Live(data, k)
  BY <1>1, Disabled DEF IInv
<1>3. /\ Good(data', recent) /\ ~Holds(data', k)
      /\ \A m : m # k => (Holds(data', m) <=> Holds(data, m))
  BY <1>1, <1>2, LookedDead DEF IInv
<1>4. CacheGood'
  BY <1>1, <1>3 DEF IInv, CacheGood
<1>5. Evicts
  BY <1>2, <1>3, LiveHeld, NothingEvicted
<1>6. c \notin InLine(queue) /\ holder # c
  BY <1>1 DEF IInv, LockAgrees
<1>7. PICK x \in CallType : /\ caller' = [caller EXCEPT ![c] = x] /\ x.key = k
                            /\ x.pc \in {"queued", "fetching"}
                            /\ x.pc = "fetching" => holder = None
                            /\ LockAgrees'
  <2>1. CASE MissAndFetch(c, k)
    <3>1. PICK x \in CallType : x = [pc |-> "fetching", key |-> k] /\ x.pc = "fetching" /\ x.key = k
      BY CallRecords
    <3>2. /\ caller' = [caller EXCEPT ![c] = x] /\ holder = None /\ holder' = c /\ queue' = queue
      BY <2>1, <3>1 DEF MissAndFetch, LockFree
    <3>3. queue' \in Seq(Callers) /\ OnceEach(queue') /\ InLine(queue') = InLine(queue) \ {c}
      BY <3>2, <1>6 DEF IInv, LockAgrees
    <3>4. LockAgrees'
      BY <3>1, <3>2, <3>3, CallMoves DEF IInv
    <3> QED
      BY <3>1, <3>2, <3>4
  <2>2. CASE MissAndQueue(c, k)
    <3>1. PICK x \in CallType : x = [pc |-> "queued", key |-> k] /\ x.pc = "queued" /\ x.key = k
      BY CallRecords
    <3>2. /\ caller' = [caller EXCEPT ![c] = x] /\ holder' = holder /\ queue' = Append(queue, c)
      BY <2>2, <3>1 DEF MissAndQueue
    <3>3. queue' \in Seq(Callers) /\ OnceEach(queue') /\ InLine(queue') = InLine(queue) \union {c}
      BY <3>2, <1>6, Joined DEF IInv, LockAgrees
    <3>4. LockAgrees'
      BY <3>1, <3>2, <3>3, <1>6, CallMoves DEF IInv
    <3> QED
      BY <3>1, <3>2, <3>4
  <2> QED
    BY <2>1, <2>2
<1>8. FetchedIsAbsent'
  <2>1. \A d \in Callers : caller'[d] = IF d = c THEN x ELSE caller[d]
    BY <1>7 DEF IInv, LockAgrees
  <2> QED
    BY <2>1, <1>3, <1>7 DEF IInv, FetchedIsAbsent
<1>9. StepGood
  BY <1>2, <1>5, <1>7, StartsRight DEF StepGood, IInv
<1> QED
  BY <1>4, <1>7, <1>8, <1>9 DEF Kept, IInv

LEMMA TurnKeeps ==
  ASSUME CacheAssumption, IInv, NEW c \in Callers, TurnHit(c) \/ TurnMiss(c)
  PROVE  Kept
<1>1. holder = None /\ queue # <<>> /\ c = Head(queue) /\ queue' = Tail(queue)
  BY DEF TurnHit, TurnMiss
<1>2. /\ caller[c].pc = "queued" /\ caller[c].key \in Keys
      /\ queue' \in Seq(Callers) /\ OnceEach(queue') /\ InLine(queue') = InLine(queue) \ {c}
  BY <1>1, TurnTaken DEF IInv
<1>3. PICK k \in Keys : k = caller[c].key
  BY <1>2
<1>4. \A e \in Callers : caller[e].pc # "fetching"
  BY <1>1 DEF CacheAssumption, IInv, LockAgrees
<1>5. holder # c
  BY <1>1 DEF CacheAssumption
<1>6. CASE TurnHit(c)
  <2>1. /\ Live(data, k) /\ data' = Looked(data, k) /\ recent' = Used(k)
        /\ caller' = [caller EXCEPT ![c] = NoCall] /\ holder' = holder
    BY <1>3, <1>6 DEF TurnHit
  <2>2. Good(data', recent') /\ \A m : Holds(data', m) <=> Holds(data, m)
    BY <2>1, LookedLive DEF IInv
  <2>3. CacheGood'
    BY <2>1, <2>2, UsedOrder DEF IInv, CacheGood
  <2>4. LockAgrees'
    BY <1>2, <1>5, <2>1, CallMoves, CallRecords DEF IInv
  <2>5. FetchedIsAbsent'
    <3>1. \A d \in Callers : caller'[d] = IF d = c THEN NoCall ELSE caller[d]
      BY <2>1 DEF IInv, LockAgrees
    <3> QED
      BY <3>1, <1>4, CallRecords DEF FetchedIsAbsent
  <2>6. Evicts
    BY <2>2, LiveHeld, NothingEvicted
  <2>7. StepGood
    BY <2>1, <2>6, StartsRight, CallRecords DEF StepGood, IInv
  <2> QED
    BY <2>3, <2>4, <2>5, <2>7 DEF Kept, IInv
<1>7. CASE TurnMiss(c)
  <2>1. PICK x \in CallType : x = [pc |-> "fetching", key |-> k] /\ x.pc = "fetching" /\ x.key = k
    BY CallRecords
  <2>2. /\ ~(Enabled /\ Live(data, k)) /\ data' = Looked(data, k) /\ recent' = recent
        /\ caller' = [caller EXCEPT ![c].pc = "fetching"] /\ holder' = c
    BY <1>3, <1>7 DEF TurnMiss
  <2>3. caller' = [caller EXCEPT ![c] = x]
    <3>1. caller[c] \in CallType
      BY DEF IInv, LockAgrees
    <3>2. [caller[c] EXCEPT !.pc = "fetching"] = x
      BY <3>1, <1>3, <2>1 DEF CallType
    <3> QED
      BY <2>2, <3>2
  <2>4. ~Live(data, k)
    BY <2>2, Disabled DEF IInv
  <2>5. /\ Good(data', recent) /\ ~Holds(data', k)
        /\ \A m : m # k => (Holds(data', m) <=> Holds(data, m))
    BY <2>2, <2>4, LookedDead DEF IInv
  <2>6. CacheGood'
    BY <2>2, <2>5 DEF IInv, CacheGood
  <2>7. LockAgrees'
    BY <1>1, <1>2, <2>1, <2>2, <2>3, CallMoves DEF IInv
  <2>8. FetchedIsAbsent'
    <3>1. \A d \in Callers : caller'[d] = IF d = c THEN x ELSE caller[d]
      BY <2>3 DEF IInv, LockAgrees
    <3> QED
      BY <3>1, <1>4, <2>1, <2>5 DEF FetchedIsAbsent
  <2>9. Evicts
    BY <2>4, <2>5, LiveHeld, NothingEvicted
  <2>10. StepGood
    BY <1>1, <2>1, <2>3, <2>4, <2>9, StartsRight DEF StepGood, IInv
  <2> QED
    BY <2>6, <2>7, <2>8, <2>10 DEF Kept, IInv
<1> QED
  BY <1>6, <1>7

\* What the end of a fetch leaves in the cache.
LEMMA FetchedLeaves ==
  ASSUME CacheAssumption, IInv, NEW c \in Callers, NEW p \in Pages, Fetched(c, p)
  PROVE  CacheGood' /\ Evicts
<1>1. PICK k \in Keys : k = caller[c].key
  BY DEF Fetched, IInv, LockAgrees
<1>2. ~Holds(data, k) /\ CacheGood
  BY <1>1 DEF Fetched, IInv, FetchedIsAbsent
<1>3. CASE ~Enabled
  <2>1. data' = data /\ recent' = recent
    BY <1>1, <1>2, <1>3 DEF Fetched, Dropped
  <2>2. CacheGood'
    BY <1>2, <2>1 DEF CacheGood
  <2> QED
    BY <2>1, <2>2, LiveHeld, NothingEvicted
<1>4. CASE Enabled
  <2>1. PICK e : e = [key |-> k, page |-> p, left |-> TTL]
    OBVIOUS
  <2>2. e.key = k /\ e.page = p /\ e \in Entries
    BY <2>1 DEF Entries, CacheAssumption
  <2>3. PICK x : /\ Stored(data, k, p) = Append(x, e)
                 /\ Good(x, recent) /\ ~Holds(x, k) /\ Len(x) + 1 <= MaxEntries
                 /\ \A m : Holds(x, m) => Holds(data, m)
                 /\ \A m : Holds(data, m) /\ ~Holds(x, m) =>
                      data # <<>> /\ Len(data) = MaxEntries /\ m = data[1].key
    BY <1>2, <2>1, StoresLast
  <2>4. CASE p \in Content
    <3>1. data' = Append(x, e) /\ recent' = Used(k)
      BY <1>1, <1>4, <2>3, <2>4 DEF Fetched
    <3>2. Good(data', recent')
      BY <1>2, <2>2, <2>3, <2>4, <3>1, GoesLast DEF CacheGood
    <3>3. CacheGood'
      BY <1>2, <3>1, <3>2, UsedOrder DEF CacheGood
    <3>4. \A m : Holds(x, m) => Holds(data', m)
      <4>1. /\ Len(Append(x, e)) = Len(x) + 1 /\ Len(x) \in Nat
            /\ \A i \in 1..Len(x) : Append(x, e)[i] = x[i]
        BY <2>2, <2>3 DEF Good
      <4>2. \A i \in 1..Len(x) : i \in 1..(Len(x) + 1)
        BY <4>1
      <4> QED
        BY <3>1, <4>1, <4>2 DEF Holds
    <3>5. Evicts
      <4> SUFFICES ASSUME NEW m \in Keys, Live(data, m), ~Holds(data', m)
                   PROVE  /\ Len(data) = MaxEntries
                          /\ \A i \in 1..Len(data) : Rank(m) <= Rank(data[i].key)
        BY DEF Evicts
      <4>1. data # <<>> /\ Len(data) = MaxEntries /\ m = data[1].key
        BY <2>3, <3>4, LiveHeld
      <4> QED
        BY <4>1, <1>2, OldestFirst
    <3> QED
      BY <3>3, <3>5
  <2>5. CASE p \notin Content
    <3>1. data' = Dropped(Append(x, e), k) /\ recent' = recent
      BY <1>1, <1>4, <2>3, <2>5 DEF Fetched
    <3>2. data' = x
      BY <2>2, <2>3, <3>1, StoredThenDropped
    <3>3. CacheGood'
      BY <1>2, <2>3, <3>1, <3>2 DEF CacheGood
    <3>4. Evicts
      <4> SUFFICES ASSUME NEW m \in Keys, Live(data, m), ~Holds(data', m)
                   PROVE  /\ Len(data) = MaxEntries
                          /\ \A i \in 1..Len(data) : Rank(m) <= Rank(data[i].key)
        BY DEF Evicts
      <4>1. data # <<>> /\ Len(data) = MaxEntries /\ m = data[1].key
        BY <2>3, <3>2, LiveHeld
      <4> QED
        BY <4>1, <1>2, OldestFirst
    <3> QED
      BY <3>3, <3>4
  <2> QED
    BY <2>4, <2>5
<1> QED
  BY <1>3, <1>4

LEMMA FetchKeeps ==
  ASSUME CacheAssumption, IInv, NEW c \in Callers, FetchDone(c)
  PROVE  Kept
<1>1. /\ caller[c].pc = "fetching" /\ holder = c /\ holder' = None /\ queue' = queue
      /\ caller' = [caller EXCEPT ![c] = NoCall]
  BY DEF FetchDone, FetchEnds, Fetched, IInv, LockAgrees
<1>2. CacheGood' /\ Evicts
  <2>1. CASE FetchEnds(c)
    <3>1. data' = data /\ recent' = recent
      BY <2>1 DEF FetchEnds
    <3> QED
      BY <3>1, LiveHeld, NothingEvicted DEF IInv, CacheGood
  <2> QED
    BY <2>1, FetchedLeaves DEF FetchDone
<1>3. queue' \in Seq(Callers) /\ OnceEach(queue') /\ InLine(queue') = InLine(queue) \ {c}
  BY <1>1 DEF IInv, LockAgrees
<1>4. LockAgrees'
  BY <1>1, <1>3, CallMoves, CallRecords DEF IInv
<1>5. FetchedIsAbsent'
  <2>1. \A d \in Callers : caller'[d].pc # "fetching"
    BY <1>1, <1>4 DEF LockAgrees, CacheAssumption
  <2> QED
    BY <2>1 DEF FetchedIsAbsent
<1>6. StepGood
  BY <1>1, <1>2, StartsRight, CallRecords DEF StepGood, IInv
<1> QED
  BY <1>2, <1>4, <1>5, <1>6 DEF Kept, IInv

LEMMA LeftKeeps ==
  ASSUME CacheAssumption, IInv, NEW c \in Callers, QueueLeft(c)
  PROVE  Kept
<1>1. /\ caller[c].pc = "queued" /\ queue' = RemoveFirst(queue, c)
      /\ caller' = [caller EXCEPT ![c] = NoCall] /\ UNCHANGED <<data, holder, recent>>
  BY DEF QueueLeft
<1>2. queue' \in Seq(Callers) /\ OnceEach(queue') /\ InLine(queue') = InLine(queue) \ {c}
  BY <1>1, OneLeaves DEF IInv, LockAgrees
<1>3. holder # c
  BY <1>1 DEF IInv, LockAgrees
<1>4. LockAgrees'
  BY <1>1, <1>2, <1>3, CallMoves, CallRecords DEF IInv
<1>5. CacheGood'
  BY <1>1 DEF IInv, CacheGood
<1>6. FetchedIsAbsent'
  <2>1. \A d \in Callers : caller'[d] = IF d = c THEN NoCall ELSE caller[d]
    BY <1>1 DEF IInv, LockAgrees
  <2> QED
    BY <2>1, <1>1, CallRecords DEF IInv, FetchedIsAbsent
<1>7. Evicts
  BY <1>1, LiveHeld, NothingEvicted
<1>8. StepGood
  BY <1>1, <1>7, StartsRight, CallRecords DEF StepGood, IInv
<1> QED
  BY <1>4, <1>5, <1>6, <1>8 DEF Kept, IInv

LEMMA TickKeeps ==
  ASSUME CacheAssumption, IInv, Tick
  PROVE  Kept
<1>1. /\ data' = [i \in 1..Len(data) |-> [data[i] EXCEPT !.left = IF @ = 0 THEN 0 ELSE @ - 1]]
      /\ UNCHANGED <<holder, queue, caller, recent>>
  BY DEF Tick
<1>2. data \in Seq(Entries) /\ Len(data) \in Nat /\ TTL \in Nat
  BY DEF IInv, CacheGood, Good, CacheAssumption
<1>3. ASSUME NEW i \in 1..Len(data)
      PROVE  /\ data'[i] \in Entries /\ data'[i].key = data[i].key /\ data'[i].page = data[i].page
  <2>1. PICK e \in Entries : e = data[i]
    BY <1>2
  <2>2. PICK n \in 0..TTL : n = IF e.left = 0 THEN 0 ELSE e.left - 1
    <3>1. e.left \in 0..TTL
      BY DEF Entries
    <3> QED
      BY <3>1, <1>2
  <2>3. data'[i] = [e EXCEPT !.left = n]
    BY <1>1, <2>1, <2>2
  <2> QED
    BY <2>1, <2>3 DEF Entries
<1>4. data' \in Seq(Entries) /\ Len(data') = Len(data)
  <2>1. DOMAIN data' = 1..Len(data)
    BY <1>1
  <2>2. data' \in [1..Len(data) -> Entries]
    BY <1>1, <1>3
  <2> QED
    BY <2>1, <2>2, <1>2
<1>5. Good(data', recent')
  BY <1>1, <1>3, <1>4 DEF IInv, CacheGood, Good
<1>6. CacheGood'
  BY <1>1, <1>5 DEF IInv, CacheGood
<1>7. \A m : Holds(data', m) <=> Holds(data, m)
  BY <1>3, <1>4 DEF Holds
<1>8. LockAgrees' /\ FetchedIsAbsent'
  BY <1>1, <1>7 DEF IInv, LockAgrees, FetchedIsAbsent
<1>9. Evicts
  BY <1>7, LiveHeld, NothingEvicted
<1>10. StepGood
  BY <1>1, <1>9 DEF StepGood, Starts
<1> QED
  BY <1>6, <1>8, <1>10 DEF Kept, IInv

-----------------------------------------------------------------------------
(* The theorems.                                                            *)

LEMMA Begins == ASSUME CacheAssumption, Init PROVE IInv
<1>1. InLine(queue) = {} /\ OnceEach(queue) /\ OnceEach(recent)
  BY DEF Init, InLine, OnceEach
<1>2. LockAgrees
  BY <1>1, CallRecords DEF Init, LockAgrees, CacheAssumption
<1>3. Good(data, recent)
  BY DEF Init, Good, CacheAssumption
<1>4. CacheGood
  BY <1>1, <1>3 DEF Init, CacheGood
<1>5. FetchedIsAbsent
  BY CallRecords DEF Init, FetchedIsAbsent
<1> QED
  BY <1>2, <1>4, <1>5 DEF IInv

LEMMA NextKeeps == ASSUME CacheAssumption, IInv, [Next]_vars PROVE Kept
<1>1. CASE Next
  BY <1>1, HitKeeps, MissKeeps, TurnKeeps, FetchKeeps, LeftKeeps, TickKeeps DEF Next
<1>2. CASE UNCHANGED vars
  <2>1. IInv'
    BY <1>2 DEF vars, IInv, LockAgrees, CacheGood, FetchedIsAbsent
  <2>2. StepGood
    BY <1>2, LiveHeld DEF vars, StepGood, Evicts, Starts
  <2> QED
    BY <2>1, <2>2 DEF Kept
<1> QED
  BY <1>1, <1>2

LEMMA Inductive == ASSUME CacheAssumption PROVE Spec => []IInv
<1>1. Init => IInv
  BY Begins
<1>2. IInv /\ [Next]_vars => IInv'
  BY NextKeeps DEF Kept
<1> QED
  BY <1>1, <1>2, PTL DEF Spec

\* The cache never holds a page twice, more than max_entries pages or a page
\* that is no content, whoever stores, drops and looks in between (cache.py).
THEOREM CacheSound == ASSUME CacheAssumption PROVE Spec => [](TypeOK /\ ContentOnly)
<1>1. IInv => TypeOK
  <2> SUFFICES ASSUME IInv PROVE TypeOK
    OBVIOUS
  <2>1. \A i, j \in 1..Len(data) : data[i].key = data[j].key => i = j
    BY KeysOnce DEF IInv, CacheGood
  <2> QED
    BY <2>1 DEF IInv, LockAgrees, CacheGood, Good, TypeOK, CallType
<1>2. IInv => ContentOnly
  BY DEF IInv, CacheGood, Good, ContentOnly
<1> QED
  BY <1>1, <1>2, Inductive, PTL

\* get_or_fetch() goes upstream for one call at a time, and for none whose page
\* is in the cache by then.
THEOREM OneFlight == ASSUME CacheAssumption PROVE Spec => SingleFlight
<1>1. IInv /\ [Next]_vars =>
        \A c \in Callers : Starts(c) =>
          /\ \A d \in Callers : caller[d].pc # "fetching"
          /\ ~Live(data, caller'[c].key)
  BY NextKeeps DEF Kept, StepGood
<1> QED
  BY <1>1, Inductive, PTL DEF Spec, SingleFlight

\* A live page leaves the cache only to make room in a full one, as the one
\* whose last use is the longest ago (set()).
THEOREM OldestEvicted == ASSUME CacheAssumption PROVE Spec => EvictsLeastRecent
<1>1. IInv /\ [Next]_vars =>
        \A k \in Keys : Live(data, k) /\ ~Holds(data', k) =>
          /\ Len(data) = MaxEntries
          /\ \A i \in 1..Len(data) : Rank(k) <= Rank(data[i].key)
  BY NextKeeps DEF Kept, StepGood, Evicts
<1> QED
  BY <1>1, Inductive, PTL DEF Spec, EvictsLeastRecent
=============================================================================
