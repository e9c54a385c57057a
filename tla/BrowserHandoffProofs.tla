------------------------- MODULE BrowserHandoffProofs -------------------------
(***************************************************************************)
(* Theorems about BrowserHandoff, for every number of calls, operations    *)
(* and pages.  The inductive invariant says what a lease may hold in each  *)
(* state of its worker; a step either leaves who is held where, lets one   *)
(* call join one page, or ends one page's requests.                        *)
(***************************************************************************)
EXTENDS BrowserHandoff, FiniteSetTheorems, TLAPS

LeaseRecords ==
  [key : Keys \union {None}, pc : Running \union {"hiding", "done"},
   cur : Callers \union {None}, queue : Seq(Callers),
   busy : BOOLEAN, cleaning : BOOLEAN, cancel : BOOLEAN, cancelled : BOOLEAN,
   life : Nat, idle : Nat, wait : Nat]

CallRecords ==
  [pc : {"out", "retry", "result", "task", "stopping"}, kind : {"read", "snapshot"},
   key : Keys \union {None}, lease : Leases \union {None}]

Futures == {"none", "pending", "data", "challenge", "error", "cancelled"}

TypeOK ==
  /\ registry \in [Keys -> Leases \union {None}]
  /\ lease \in [Leases -> LeaseRecords]
  /\ caller \in [Callers -> CallRecords]
  /\ fut \in [Callers -> Futures]
  /\ \A c \in Callers : caller[c].pc # "out" => caller[c].key \in Keys /\ caller[c].lease \in Leases

-----------------------------------------------------------------------------
(* The inductive invariant.                                                 *)

Holds(l, c) == lease[l].cur = c \/ \E i \in 1..Len(lease[l].queue) : lease[l].queue[i] = c

Runs(l) == lease[l].pc \in Running

Empty(l) == lease[l].cur = None /\ lease[l].queue = <<>>

\* What a lease may hold: one request at most, none unless it is busy and its
\* worker runs, one in service exactly while the worker serves.
SlotOK(l) ==
  /\ lease[l].cur # None => lease[l].queue = <<>>
  /\ Len(lease[l].queue) <= 1
  /\ ~lease[l].busy => Empty(l)
  /\ ~Runs(l) => Empty(l)
  /\ lease[l].pc \in {"opening", "reading", "revealing"} => lease[l].cur # None
  /\ lease[l].pc = "waiting" => lease[l].cur = None

SlotsOK == \A l \in Leases : SlotOK(l)

HeldOnce == \A c \in Callers : \A l, m \in Leases : Holds(l, c) /\ Holds(m, c) => l = m

PendingHeld == \A c \in Callers : fut[c] = "pending" => \E l \in Leases : Runs(l) /\ Holds(l, c)

\* A call that waits for an expired page has no request anywhere.
RetryFree == \A c \in Callers : caller[c].pc = "retry" => ~Referenced(c)

Listed == \A k \in Registered : lease[registry[k]].key = k /\ Runs(registry[k])

Bounded == IsFiniteSet(Registered) /\ Cardinality(Registered) <= MaxLeases

IInv == TypeOK /\ SlotsOK /\ HeldOnce /\ PendingHeld /\ RetryFree /\ Listed /\ Bounded

\* The invariant implies what the runs check.
LEMMA InvariantImplies ==
  ASSUME IInv
  PROVE  RequestsAccounted /\ RegistrySound
<1>1. OneRequestPerPage
  <2> SUFFICES ASSUME NEW l \in Leases
               PROVE  Len(lease[l].queue) + (IF lease[l].cur = None THEN 0 ELSE 1) <= 1
    BY DEF OneRequestPerPage
  <2>1. lease[l].queue \in Seq(Callers) /\ SlotOK(l)
    BY DEF IInv, TypeOK, LeaseRecords, SlotsOK
  <2>2. CASE lease[l].cur = None
    BY <2>1, <2>2 DEF SlotOK
  <2>3. CASE lease[l].cur # None
    <3>1. Len(lease[l].queue) = 0
      BY <2>1, <2>3 DEF SlotOK
    <3> QED
      BY <2>3, <3>1
  <2> QED
    BY <2>2, <2>3
<1>2. ASSUME NEW c \in Callers, fut[c] = "pending"
      PROVE  /\ Cardinality(Places(c)) = 1
             /\ \E l \in Leases : /\ lease[l].pc \in Running
                                  /\ lease[l].cur = c \/ \E i \in 1..Len(lease[l].queue) : lease[l].queue[i] = c
  <2>1. PICK l \in Leases : Runs(l) /\ Holds(l, c)
    BY <1>2 DEF IInv, PendingHeld
  <2>2. \A m \in Leases : Holds(m, c) => m = l
    BY <2>1 DEF IInv, HeldOnce
  <2>3. /\ lease[l].queue \in Seq(Callers) /\ SlotOK(l) /\ c # None
    BY HandoffAssumption DEF IInv, TypeOK, LeaseRecords, SlotsOK
  <2>4. CASE lease[l].cur = c
    <3>1. lease[l].queue = <<>>
      BY <2>3, <2>4 DEF SlotOK
    <3>2. \A m \in Leases : lease[m].cur = c <=> m = l
      BY <2>2, <2>4 DEF Holds
    <3>3. ASSUME NEW m \in Leases, NEW i \in 1..Cardinality(Callers),
                 i <= Len(lease[m].queue), lease[m].queue[i] = c
          PROVE  FALSE
      <4>t. lease[m].queue \in Seq(Callers) /\ Cardinality(Callers) \in Nat
        BY HandoffAssumption, FS_CardinalityType DEF IInv, TypeOK, LeaseRecords
      <4>1. Len(lease[m].queue) \in Nat /\ i \in 1..Len(lease[m].queue)
        BY <3>3, <4>t
      <4>2. m = l
        BY <2>2, <3>3, <4>1 DEF Holds
      <4> QED
        BY <3>1, <4>1, <4>2
    <3>4. Places(c) = {l}
      BY <3>2, <3>3 DEF Places
    <3> QED
      BY <2>1, <3>4, FS_Singleton DEF Runs, Holds
  <2>5. CASE lease[l].cur # c
    <3>1. Len(lease[l].queue) = 1 /\ lease[l].queue[1] = c
      <4>1. Len(lease[l].queue) \in Nat /\ Len(lease[l].queue) <= 1
        BY <2>3 DEF SlotOK
      <4>2. PICK i \in 1..Len(lease[l].queue) : lease[l].queue[i] = c
        BY <2>1, <2>5 DEF Holds
      <4>n. \A n \in Nat : \A j \in 1..n : n <= 1 => n = 1 /\ j = 1
        OBVIOUS
      <4>3. Len(lease[l].queue) = 1 /\ i = 1
        BY <4>1, <4>n
      <4> QED
        BY <4>2, <4>3
    <3>2. Cardinality(Callers) \in Nat /\ Cardinality(Callers) # 0
      BY HandoffAssumption, FS_CardinalityType, FS_EmptySet
    <3>3. \A m \in Leases : lease[m].cur # c
      BY <2>2, <2>5 DEF Holds
    <3>4. \A m \in Leases, i \in 1..Cardinality(Callers) :
            i <= Len(lease[m].queue) /\ lease[m].queue[i] = c <=> m = l /\ i = 1
      <4>1. \A m \in Leases : Len(lease[m].queue) \in Nat
        BY DEF IInv, TypeOK, LeaseRecords
      <4> QED
        BY <2>2, <3>1, <3>2, <4>1 DEF Holds
    <3>5. Places(c) = {<<l, 1>>}
      BY <3>2, <3>3, <3>4 DEF Places
    <3> QED
      BY <2>1, <3>5, FS_Singleton DEF Runs, Holds
  <2> QED
    BY <2>4, <2>5
<1>3. RegistrySound
  BY DEF IInv, Listed, Bounded, RegistrySound, Runs
<1> QED
  BY <1>1, <1>2, <1>3 DEF RequestsAccounted

-----------------------------------------------------------------------------
(* Three kinds of step.                                                     *)

\* Lease l holds the calls it held, under its key, and its worker runs on.
Still(l) ==
  /\ SlotOK(l)'
  /\ Runs(l)' <=> Runs(l)
  /\ Runs(l) => lease'[l].key = lease[l].key
  /\ \A c \in Callers : Holds(l, c)' <=> Holds(l, c)

Untouched(l) == lease'[l] = lease[l]

LEMMA UntouchedStill ==
  ASSUME IInv, NEW l \in Leases, Untouched(l)
  PROVE  Still(l)
BY DEF IInv, SlotsOK, Untouched, Still, SlotOK, Runs, Empty, Holds

\* Nobody joins or leaves a page; entries of the registry may go.
Quiet ==
  /\ \A l \in Leases : Still(l)
  /\ \A c \in Callers : fut'[c] = "pending" => fut[c] = "pending"
  /\ \A c \in Callers : caller'[c].pc = "retry" => caller[c].pc = "retry" \/ ~Referenced(c)
  /\ \A k \in Keys : registry'[k] = registry[k] \/ registry'[k] = None

\* Call c, held nowhere, joins page l, which held nobody.
Joins(c, l) ==
  /\ ~Referenced(c) /\ Empty(l)
  /\ SlotOK(l)' /\ Runs(l)'
  /\ \A d \in Callers : Holds(l, d)' <=> d = c
  /\ \A m \in Leases \ {l} : Still(m)
  /\ \A d \in Callers \ {c} : fut'[d] = fut[d] /\ caller'[d] = caller[d]
  /\ caller'[c].pc # "retry"

\* Everybody page l held is answered.
Leaves(l) ==
  /\ SlotOK(l)' /\ Empty(l)'
  /\ \A m \in Leases \ {l} : Still(m)
  /\ \A d \in Callers : fut'[d] = "pending" => fut[d] = "pending" /\ ~Holds(l, d)
  /\ caller' = caller

\* What the three do to the calls.
Accounted == SlotsOK /\ HeldOnce /\ PendingHeld /\ RetryFree

LEMMA ReferencedIs == \A c \in Callers : Referenced(c) <=> \E l \in Leases : Holds(l, c)
BY DEF Referenced, Holds

LEMMA QuietAccounted ==
  ASSUME IInv, Quiet
  PROVE  Accounted'
<1>1. SlotsOK'
  BY DEF Quiet, Still, SlotsOK
<1>2. HeldOnce'
  BY DEF Quiet, Still, IInv, HeldOnce
<1>3. PendingHeld'
  BY DEF Quiet, Still, IInv, PendingHeld
<1>4. \A c \in Callers : Referenced(c)' <=> Referenced(c)
  <2>1. \A c \in Callers : Referenced(c)' <=> \E l \in Leases : Holds(l, c)'
    BY DEF Referenced, Holds
  <2> QED
    BY <2>1, ReferencedIs DEF Quiet, Still
<1>5. RetryFree'
  BY <1>4 DEF Quiet, IInv, RetryFree
<1> QED
  BY <1>1, <1>2, <1>3, <1>5 DEF Accounted

LEMMA JoinsAccounted ==
  ASSUME IInv, NEW c \in Callers, NEW l \in Leases, Joins(c, l)
  PROVE  Accounted'
<1>0. \A m \in Leases : ~Holds(m, c)
  BY ReferencedIs DEF Joins
<1>e. \A d \in Callers : ~Holds(l, d)
  BY HandoffAssumption DEF Joins, Empty, Holds
<1>1. SlotsOK'
  BY DEF Joins, Still, SlotsOK
<1>2. HeldOnce'
  BY <1>0 DEF Joins, Still, IInv, HeldOnce
<1>3. PendingHeld'
  <2> SUFFICES ASSUME NEW d \in Callers, fut'[d] = "pending"
               PROVE  \E m \in Leases : Runs(m)' /\ Holds(m, d)'
    BY DEF PendingHeld
  <2>1. CASE d = c
    BY <2>1 DEF Joins
  <2>2. CASE d # c
    <3>1. PICK m \in Leases : Runs(m) /\ Holds(m, d)
      BY <2>2 DEF Joins, IInv, PendingHeld
    <3> QED
      BY <3>1, <1>e DEF Joins, Still
  <2> QED
    BY <2>1, <2>2
<1>4. \A d \in Callers : Referenced(d)' => d = c \/ Referenced(d)
  <2>1. \A d \in Callers : Referenced(d)' <=> \E m \in Leases : Holds(m, d)'
    BY DEF Referenced, Holds
  <2> QED
    BY <2>1, ReferencedIs DEF Joins, Still
<1>5. RetryFree'
  BY <1>4 DEF Joins, IInv, RetryFree
<1> QED
  BY <1>1, <1>2, <1>3, <1>5 DEF Accounted

LEMMA LeavesAccounted ==
  ASSUME IInv, NEW l \in Leases, Leaves(l)
  PROVE  Accounted'
<1>e. \A d \in Callers : ~Holds(l, d)'
  BY HandoffAssumption DEF Leaves, Empty, Holds
<1>1. SlotsOK'
  BY DEF Leaves, Still, SlotsOK
<1>2. HeldOnce'
  BY <1>e DEF Leaves, Still, IInv, HeldOnce
<1>3. PendingHeld'
  <2> SUFFICES ASSUME NEW d \in Callers, fut'[d] = "pending"
               PROVE  \E m \in Leases : Runs(m)' /\ Holds(m, d)'
    BY DEF PendingHeld
  <2>1. PICK m \in Leases : Runs(m) /\ Holds(m, d)
    BY DEF Leaves, IInv, PendingHeld
  <2> QED
    BY <2>1 DEF Leaves, Still
<1>4. \A d \in Callers : Referenced(d)' => Referenced(d)
  <2>1. \A d \in Callers : Referenced(d)' <=> \E m \in Leases : Holds(m, d)'
    BY DEF Referenced, Holds
  <2> QED
    BY <2>1, <1>e, ReferencedIs DEF Leaves, Still
<1>5. RetryFree'
  BY <1>4 DEF Leaves, IInv, RetryFree
<1> QED
  BY <1>1, <1>2, <1>3, <1>5 DEF Accounted

-----------------------------------------------------------------------------
(* The registry.                                                            *)

\* Entries only go, and those that stay keep their running lease.
LEMMA RegistryShrinks ==
  ASSUME IInv,
         \A k \in Keys : registry'[k] = registry[k] \/ registry'[k] = None,
         \A k \in Keys : registry'[k] # None =>
            lease'[registry[k]].key = lease[registry[k]].key /\ Runs(registry[k])'
  PROVE  Listed' /\ Bounded'
<1>1. Registered' \subseteq Registered
  BY DEF Registered
<1>2. Listed'
  BY <1>1 DEF Registered, IInv, Listed, Runs
<1>3. Bounded'
  <2>1. /\ IsFiniteSet(Registered')
        /\ Cardinality(Registered') <= Cardinality(Registered)
    BY <1>1, FS_Subset DEF IInv, Bounded
  <2>2. Cardinality(Registered') \in Nat /\ Cardinality(Registered) \in Nat /\ MaxLeases \in Nat
    BY <2>1, FS_CardinalityType, HandoffAssumption DEF IInv, Bounded
  <2> QED
    BY <2>1, <2>2 DEF IInv, Bounded
<1> QED
  BY <1>2, <1>3

\* A new lease l is listed under k while there was room for it.
LEMMA RegistryGrows ==
  ASSUME IInv, NEW k \in Keys, NEW l \in Leases, NEW reg,
         reg \in [Keys -> Leases \union {None}],
         \A j \in Keys : reg[j] = registry[j] \/ reg[j] = None,
         Cardinality({j \in Keys : reg[j] # None}) < MaxLeases,
         registry' = [reg EXCEPT ![k] = l],
         \A j \in Keys : registry[j] # l,
         \A m \in Leases \ {l} : Untouched(m),
         lease'[l].key = k, Runs(l)'
  PROVE  Listed' /\ Bounded'
<1> DEFINE R == {j \in Keys : reg[j] # None}
<1>r. /\ registry'[k] = l
      /\ \A j \in Keys \ {k} : registry'[j] = reg[j]
  OBVIOUS
<1>1. Registered' \subseteq R \union {k} /\ R \subseteq Registered
  BY <1>r DEF Registered
<1>c. Cardinality(R) < MaxLeases
  OBVIOUS
<1> HIDE DEF R
<1>2. Listed'
  <2> SUFFICES ASSUME NEW j \in Keys, registry'[j] # None
               PROVE  (lease[registry[j]].key = j /\ Runs(registry[j]))'
    BY DEF Listed, Registered
  <2>1. CASE j = k
    BY <1>r, <2>1 DEF Runs
  <2>2. CASE j # k
    <3>1. registry'[j] = registry[j] /\ registry[j] \in Leases \ {l} /\ j \in Registered
      BY <1>r, <2>2 DEF IInv, TypeOK, Registered
    <3> QED
      BY <3>1 DEF IInv, Listed, Untouched, Runs
  <2> QED
    BY <2>1, <2>2
<1>3. Bounded'
  <2>1. IsFiniteSet(R) /\ Cardinality(R) \in Nat /\ MaxLeases \in Nat
    BY <1>1, FS_Subset, FS_CardinalityType, HandoffAssumption DEF IInv, Bounded
  <2>2. IsFiniteSet(R \union {k}) /\ Cardinality(R \union {k}) <= Cardinality(R) + 1
    BY <2>1, FS_AddElement
  <2>3. Cardinality(R \union {k}) \in Nat
    BY <2>2, FS_CardinalityType
  <2>4. IsFiniteSet(Registered') /\ Cardinality(Registered') <= Cardinality(R \union {k})
    BY <1>1, <2>2, FS_Subset
  <2>5. Cardinality(Registered') \in Nat
    BY <2>4, FS_CardinalityType
  <2> QED
    BY <1>c, <2>1, <2>2, <2>3, <2>4, <2>5 DEF Bounded
<1> QED
  BY <1>2, <1>3
-----------------------------------------------------------------------------
(* From kinds of steps to the invariant.                                    *)

LEMMA QuietStep ==
  ASSUME IInv, TypeOK', Quiet
  PROVE  IInv'
<1>1. Accounted'
  BY QuietAccounted
<1>2. \A k \in Keys : registry'[k] = registry[k] \/ registry'[k] = None
  BY DEF Quiet
<1>3. ASSUME NEW k \in Keys, registry'[k] # None
      PROVE  lease'[registry[k]].key = lease[registry[k]].key /\ Runs(registry[k])'
  <2>1. registry'[k] = registry[k] /\ registry[k] \in Leases /\ k \in Registered
    BY <1>2, <1>3 DEF IInv, TypeOK, Registered
  <2>2. Runs(registry[k])
    BY <2>1 DEF IInv, Listed
  <2>3. PICK l \in Leases : l = registry[k]
    BY <2>1
  <2>4. Runs(l)' /\ lease'[l].key = lease[l].key
    BY <2>2, <2>3 DEF Quiet, Still
  <2> QED
    BY <2>1, <2>3, <2>4 DEF Runs
<1>4. Listed' /\ Bounded'
  BY <1>2, <1>3, RegistryShrinks
<1> QED
  BY <1>1, <1>4 DEF IInv, Accounted

\* The registry stands and its leases keep key and worker.
LEMMA RegistryStands ==
  ASSUME IInv, registry' = registry, NEW l \in Leases,
         \A m \in Leases \ {l} : Still(m),
         Runs(l) => Runs(l)' /\ lease'[l].key = lease[l].key
  PROVE  Listed' /\ Bounded'
<1>1. ASSUME NEW k \in Keys, registry'[k] # None
      PROVE  lease'[registry[k]].key = lease[registry[k]].key /\ Runs(registry[k])'
  <2>1. registry[k] \in Leases /\ Runs(registry[k])
    BY <1>1 DEF IInv, TypeOK, Registered, Listed
  <2>2. PICK m \in Leases : m = registry[k]
    BY <2>1
  <2>3. Runs(m)' /\ lease'[m].key = lease[m].key
    BY <2>1, <2>2 DEF Still
  <2> QED
    BY <2>2, <2>3 DEF Runs
<1> QED
  BY <1>1, RegistryShrinks

-----------------------------------------------------------------------------
(* What the actions do to one lease.                                        *)

\* The others are untouched when one lease is replaced by r.
LEMMA LeaseUpdated ==
  ASSUME IInv, NEW l \in Leases, NEW r \in LeaseRecords, lease' = [lease EXCEPT ![l] = r]
  PROVE  /\ lease' \in [Leases -> LeaseRecords]
         /\ lease'[l] = r
         /\ \A m \in Leases \ {l} : Untouched(m) /\ Still(m)
<1>1. lease \in [Leases -> LeaseRecords]
  BY DEF IInv, TypeOK
<1>2. \A m \in Leases \ {l} : Untouched(m)
  BY <1>1 DEF Untouched
<1> QED
  BY <1>1, <1>2, UntouchedStill

\* A lease that keeps its requests and does not start to serve or to wait.
LEMMA SameHeld ==
  ASSUME IInv, NEW l \in Leases,
         lease'[l].cur = lease[l].cur, lease'[l].queue = lease[l].queue,
         Runs(l)' <=> Runs(l),
         Runs(l) => /\ lease'[l].key = lease[l].key
                    /\ lease[l].busy => lease'[l].busy,
         lease'[l].pc \in {"opening", "reading", "revealing"} => lease[l].pc \in {"opening", "reading", "revealing"},
         lease'[l].pc = "waiting" => lease[l].pc = "waiting"
  PROVE  Still(l)
<1>1. SlotOK(l)
  BY DEF IInv, SlotsOK
<1>2. \A c \in Callers : Holds(l, c)' <=> Holds(l, c)
  BY DEF Holds
<1>3. Empty(l)' <=> Empty(l)
  BY DEF Empty
<1>4. ~lease'[l].busy => Empty(l)
  BY <1>1 DEF SlotOK
<1>5. SlotOK(l)'
  BY <1>1, <1>3, <1>4 DEF SlotOK
<1> QED
  BY <1>2, <1>5 DEF Still

\* _stop() changes nothing but the cancellation it asks for.
LEMMA StoppedFacts ==
  ASSUME IInv, NEW l \in Leases
  PROVE  /\ Stopped(l) \in LeaseRecords
         /\ [Stopped(l) EXCEPT !.busy = TRUE] \in LeaseRecords
         /\ Stopped(l).cur = lease[l].cur /\ Stopped(l).queue = lease[l].queue
         /\ Stopped(l).pc = lease[l].pc /\ Stopped(l).key = lease[l].key
         /\ Stopped(l).busy = lease[l].busy
         /\ [Stopped(l) EXCEPT !.busy = TRUE].cur = lease[l].cur
         /\ [Stopped(l) EXCEPT !.busy = TRUE].queue = lease[l].queue
         /\ [Stopped(l) EXCEPT !.busy = TRUE].pc = lease[l].pc
         /\ [Stopped(l) EXCEPT !.busy = TRUE].key = lease[l].key
         /\ [Stopped(l) EXCEPT !.busy = TRUE].busy
<1>1. lease[l] \in LeaseRecords
  BY DEF IInv, TypeOK
<1>2. Stopped(l) = lease[l] \/ Stopped(l) = [lease[l] EXCEPT !.cancel = TRUE]
  BY DEF Stopped
<1>3. CASE Stopped(l) = lease[l]
  BY <1>1, <1>3 DEF LeaseRecords
<1>4. CASE Stopped(l) = [lease[l] EXCEPT !.cancel = TRUE]
  BY <1>1, <1>4 DEF LeaseRecords
<1> QED
  BY <1>2, <1>3, <1>4

LEMMA StopStill ==
  ASSUME IInv, NEW l \in Leases,
         \/ lease' = [lease EXCEPT ![l] = Stopped(l)]
         \/ lease' = [lease EXCEPT ![l] = [Stopped(l) EXCEPT !.busy = TRUE]]
  PROVE  lease' \in [Leases -> LeaseRecords] /\ \A m \in Leases : Still(m)
<1>1. PICK r \in {Stopped(l), [Stopped(l) EXCEPT !.busy = TRUE]} : lease' = [lease EXCEPT ![l] = r]
  OBVIOUS
<1>2. /\ r \in LeaseRecords
      /\ r.cur = lease[l].cur /\ r.queue = lease[l].queue /\ r.pc = lease[l].pc /\ r.key = lease[l].key
      /\ lease[l].busy => r.busy
  BY StoppedFacts
<1>3. /\ lease' \in [Leases -> LeaseRecords] /\ lease'[l] = r
      /\ \A m \in Leases \ {l} : Still(m)
  BY <1>1, <1>2, LeaseUpdated
<1>4. Still(l)
  BY <1>2, <1>3, SameHeld DEF Runs
<1> QED
  BY <1>3, <1>4

HidingLease == [NoLease EXCEPT !.pc = "hiding", !.cleaning = TRUE]

LEMMA NoLeaseFacts ==
  /\ NoLease \in LeaseRecords /\ HidingLease \in LeaseRecords
  /\ NoLease.cur = None /\ NoLease.queue = <<>> /\ NoLease.pc = "done"
  /\ HidingLease.cur = None /\ HidingLease.queue = <<>> /\ HidingLease.pc = "hiding"
<1>1. NoLease \in LeaseRecords
  BY DEF LeaseRecords, NoLease
<1>2. HidingLease \in LeaseRecords
  BY <1>1 DEF LeaseRecords, HidingLease
<1>3. /\ HidingLease.cur = NoLease.cur /\ HidingLease.queue = NoLease.queue
      /\ HidingLease.pc = "hiding"
  BY <1>1 DEF LeaseRecords, HidingLease
<1>4. NoLease.cur = None /\ NoLease.queue = <<>> /\ NoLease.pc = "done"
  BY DEF NoLease
<1> QED
  BY <1>1, <1>2, <1>3, <1>4

\* A new lease for call c: its first request is in service at once.
LEMMA NewLeaseFacts ==
  ASSUME NEW k \in Keys, NEW c \in Callers
  PROVE  /\ NewLease(k, c) \in LeaseRecords
         /\ NewLease(k, c).key = k /\ NewLease(k, c).pc = "opening"
         /\ NewLease(k, c).cur = c /\ NewLease(k, c).queue = <<>> /\ NewLease(k, c).busy
<1>1. NoLease \in LeaseRecords
  BY NoLeaseFacts
<1>2. NoLease.queue = <<>>
  BY NoLeaseFacts
<1>3. Lifetime \in Nat /\ Idle \in Nat /\ "opening" \in Running \union {"hiding", "done"}
  BY HandoffAssumption DEF Running
<1>4. NewLease(k, c) = [NoLease EXCEPT !.key = k, !.pc = "opening", !.cur = c, !.busy = TRUE,
                                       !.life = Lifetime, !.idle = Idle]
  BY DEF NewLease
<1>5. NewLease(k, c) \in LeaseRecords
  BY <1>1, <1>3, <1>4 DEF LeaseRecords
<1>6. /\ NewLease(k, c).key = k /\ NewLease(k, c).pc = "opening"
      /\ NewLease(k, c).cur = c /\ NewLease(k, c).queue = NoLease.queue
  BY <1>1, <1>4 DEF LeaseRecords
<1>7. NewLease(k, c).busy = TRUE
  BY <1>1, <1>4 DEF LeaseRecords
<1> QED
  BY <1>2, <1>5, <1>6, <1>7

\* The object a new lease gets is nobody's.
LEMMA FreshFacts ==
  ASSUME IInv, NEW c \in Callers, HasFresh(c)
  PROVE  /\ FreshLease(c) \in Leases
         /\ lease[FreshLease(c)].pc = "done"
         /\ \A k \in Keys : registry[k] # FreshLease(c)
         /\ Empty(FreshLease(c))
<1>1. FreshLease(c) \in Leases /\ Unused(FreshLease(c), c)
  BY DEF HasFresh, FreshLease
<1>2. lease[FreshLease(c)].pc = "done" /\ \A k \in Keys : registry[k] # FreshLease(c)
  BY <1>1 DEF Unused
<1>3. SlotOK(FreshLease(c)) /\ ~Runs(FreshLease(c))
  BY <1>1, <1>2 DEF IInv, SlotsOK, Runs, Running
<1> QED
  BY <1>1, <1>2, <1>3 DEF SlotOK

LEMMA NewJoins ==
  ASSUME IInv, NEW c \in Callers, NEW k \in Keys, ~Referenced(c), HasFresh(c),
         NEW l, l = FreshLease(c),
         lease' = [lease EXCEPT ![l] = NewLease(k, c)],
         caller' = [caller EXCEPT ![c] = CallAwaiting("read", k, l)],
         fut' = [fut EXCEPT ![c] = "pending"]
  PROVE  /\ Joins(c, l)
         /\ \A m \in Leases \ {l} : Untouched(m)
         /\ lease'[l].key = k
         /\ lease' \in [Leases -> LeaseRecords] /\ caller' \in [Callers -> CallRecords]
         /\ fut' \in [Callers -> Futures]
         /\ \A d \in Callers : caller'[d].pc # "out" => caller'[d].key \in Keys /\ caller'[d].lease \in Leases
<1>1. l \in Leases /\ Empty(l)
  BY FreshFacts
<1>2. /\ caller \in [Callers -> CallRecords] /\ fut \in [Callers -> Futures]
      /\ \A d \in Callers : caller[d].pc # "out" => caller[d].key \in Keys /\ caller[d].lease \in Leases
  BY DEF IInv, TypeOK
<1>3. /\ lease' \in [Leases -> LeaseRecords] /\ lease'[l] = NewLease(k, c)
      /\ \A m \in Leases \ {l} : Untouched(m) /\ Still(m)
  BY <1>1, LeaseUpdated, NewLeaseFacts
<1>4. /\ lease'[l].key = k /\ lease'[l].pc = "opening"
      /\ lease'[l].cur = c /\ lease'[l].queue = <<>> /\ lease'[l].busy
  BY <1>3, NewLeaseFacts
<1>5. SlotOK(l)' /\ Runs(l)'
  BY <1>4, HandoffAssumption DEF SlotOK, Runs, Running
<1>6. \A d \in Callers : Holds(l, d)' <=> d = c
  BY <1>4 DEF Holds
<1>7. CallAwaiting("read", k, l) = [pc |-> "result", kind |-> "read", key |-> k, lease |-> l]
  BY DEF CallAwaiting
<1>8. CallAwaiting("read", k, l) \in CallRecords
  BY <1>1, <1>7 DEF CallRecords
<1>9. /\ caller' \in [Callers -> CallRecords]
      /\ caller'[c] = [pc |-> "result", kind |-> "read", key |-> k, lease |-> l]
      /\ \A d \in Callers \ {c} : caller'[d] = caller[d]
  BY <1>2, <1>7, <1>8
<1>10. fut' \in [Callers -> Futures] /\ \A d \in Callers \ {c} : fut'[d] = fut[d]
  BY <1>2 DEF Futures
<1>11. \A d \in Callers : caller'[d].pc # "out" => caller'[d].key \in Keys /\ caller'[d].lease \in Leases
  BY <1>1, <1>2, <1>9
<1>12. Joins(c, l)
  BY <1>1, <1>3, <1>5, <1>6, <1>9, <1>10 DEF Joins
<1> QED
  BY <1>3, <1>4, <1>9, <1>10, <1>11, <1>12

\* A call that queues on a page nobody uses.
LEMMA QueueJoins ==
  ASSUME IInv, NEW c \in Callers, NEW l \in Leases, NEW k \in Keys, NEW kind \in {"read", "snapshot"},
         ~Referenced(c), Runs(l), ~lease[l].busy, NEW r \in LeaseRecords,
         r.cur = lease[l].cur, r.queue = Append(lease[l].queue, c), r.pc = lease[l].pc,
         r.key = lease[l].key, r.busy,
         lease' = [lease EXCEPT ![l] = r],
         caller' = [caller EXCEPT ![c] = CallAwaiting(kind, k, l)],
         fut' = [fut EXCEPT ![c] = "pending"],
         registry' = registry
  PROVE  IInv'
<1>1. Empty(l)
  BY DEF IInv, SlotsOK, SlotOK
<1>2. /\ caller \in [Callers -> CallRecords] /\ fut \in [Callers -> Futures]
      /\ \A d \in Callers : caller[d].pc # "out" => caller[d].key \in Keys /\ caller[d].lease \in Leases
  BY DEF IInv, TypeOK
<1>3. /\ lease' \in [Leases -> LeaseRecords] /\ lease'[l] = r
      /\ \A m \in Leases \ {l} : Still(m)
  BY LeaseUpdated
<1>4. lease'[l].cur = None /\ lease'[l].queue = <<c>> /\ lease'[l].pc = lease[l].pc
  BY <1>1, <1>3 DEF Empty
<1>5. SlotOK(l)
  BY DEF IInv, SlotsOK
<1>6. SlotOK(l)' /\ Runs(l)'
  <2>1. Len(<<c>>) = 1
    OBVIOUS
  <2>2. lease'[l].busy
    BY <1>3
  <2>3. lease[l].pc \notin {"opening", "reading", "revealing"}
    BY <1>1, <1>5 DEF SlotOK, Empty
  <2> QED
    BY <2>1, <2>2, <2>3, <1>4 DEF SlotOK, Runs
<1>7. \A d \in Callers : Holds(l, d)' <=> d = c
  BY <1>4, HandoffAssumption DEF Holds
<1>8. CallAwaiting(kind, k, l) = [pc |-> "result", kind |-> kind, key |-> k, lease |-> l]
  BY DEF CallAwaiting
<1>9. CallAwaiting(kind, k, l) \in CallRecords
  BY <1>8 DEF CallRecords
<1>10. /\ caller' \in [Callers -> CallRecords]
       /\ caller'[c] = [pc |-> "result", kind |-> kind, key |-> k, lease |-> l]
       /\ \A d \in Callers \ {c} : caller'[d] = caller[d]
  BY <1>2, <1>8, <1>9
<1>11. fut' \in [Callers -> Futures] /\ \A d \in Callers \ {c} : fut'[d] = fut[d]
  BY <1>2 DEF Futures
<1>12. TypeOK'
  BY <1>2, <1>3, <1>10, <1>11 DEF IInv, TypeOK
<1>13. Joins(c, l)
  BY <1>1, <1>3, <1>6, <1>7, <1>10, <1>11 DEF Joins
<1>14. Accounted'
  BY <1>13, JoinsAccounted
<1>15. Listed' /\ Bounded'
  BY <1>3, <1>6, RegistryStands
<1> QED
  BY <1>12, <1>14, <1>15 DEF IInv, Accounted

\* A worker that passes on a lease it keeps: nothing else changes.
LEMMA WorkerQuiet ==
  ASSUME IInv, NEW l \in Leases, NEW r \in LeaseRecords, lease' = [lease EXCEPT ![l] = r],
         UNCHANGED <<registry, caller>>, fut' \in [Callers -> Futures],
         \A c \in Callers : fut'[c] = "pending" => fut[c] = "pending",
         r.cur = lease[l].cur, r.queue = lease[l].queue,
         r.pc \in Running <=> lease[l].pc \in Running,
         Runs(l) => r.key = lease[l].key /\ (lease[l].busy => r.busy),
         r.pc \in {"opening", "reading", "revealing"} => lease[l].pc \in {"opening", "reading", "revealing"},
         r.pc = "waiting" => lease[l].pc = "waiting"
  PROVE  IInv'
<1>1. /\ lease' \in [Leases -> LeaseRecords] /\ lease'[l] = r
      /\ \A m \in Leases \ {l} : Still(m)
  BY LeaseUpdated
<1>2. Still(l)
  BY <1>1, SameHeld DEF Runs
<1>3. TypeOK'
  BY <1>1 DEF IInv, TypeOK
<1>4. Quiet
  BY <1>1, <1>2 DEF Quiet
<1> QED
  BY <1>3, <1>4, QuietStep

\* A call that changes only where it stands, and perhaps drops its lease's
\* registry entry.
LEMMA CallerQuiet ==
  ASSUME IInv, NEW c \in Callers, NEW r \in CallRecords, caller' = [caller EXCEPT ![c] = r],
         r.pc # "out" => r.key \in Keys /\ r.lease \in Leases,
         r.pc # "retry" \/ ~Referenced(c),
         lease' \in [Leases -> LeaseRecords], \A l \in Leases : Still(l),
         fut' = fut \/ fut' = [fut EXCEPT ![c] = "none"],
         registry' = registry \/ registry' = ForgetDone(caller[c].lease)
  PROVE  IInv'
<1>1. /\ caller \in [Callers -> CallRecords] /\ fut \in [Callers -> Futures]
      /\ registry \in [Keys -> Leases \union {None}]
      /\ \A d \in Callers : caller[d].pc # "out" => caller[d].key \in Keys /\ caller[d].lease \in Leases
  BY DEF IInv, TypeOK
<1>2. /\ caller' \in [Callers -> CallRecords] /\ caller'[c] = r
      /\ \A d \in Callers \ {c} : caller'[d] = caller[d]
  BY <1>1
<1>3. /\ fut' \in [Callers -> Futures]
      /\ \A d \in Callers : fut'[d] = "pending" => fut[d] = "pending"
  BY <1>1 DEF Futures
<1>4. /\ registry' \in [Keys -> Leases \union {None}]
      /\ \A k \in Keys : registry'[k] = registry[k] \/ registry'[k] = None
  BY <1>1 DEF ForgetDone
<1>5. TypeOK'
  BY <1>1, <1>2, <1>3, <1>4 DEF TypeOK
<1>6. Quiet
  BY <1>2, <1>3, <1>4 DEF Quiet
<1> QED
  BY <1>5, <1>6, QuietStep

LEMMA NoCallFacts ==
  NoCall \in CallRecords /\ NoCall.pc = "out"
BY DEF NoCall, CallRecords

LEMMA LeaseStands ==
  ASSUME IInv, lease' = lease
  PROVE  lease' \in [Leases -> LeaseRecords] /\ \A l \in Leases : Still(l)
BY UntouchedStill DEF IInv, TypeOK, Untouched

-----------------------------------------------------------------------------
(* The actions of a call.                                                   *)

LEMMA ReadNewStep ==
  ASSUME IInv, NEW c \in Callers, NEW k \in Keys, ReadNew(c, k)
  PROVE  IInv'
<1>l. PICK l : l = FreshLease(c)
  OBVIOUS
<1>1. /\ ~Referenced(c) /\ HasFresh(c) /\ registry' = [registry EXCEPT ![k] = l]
      /\ Cardinality(Registered) < MaxLeases
      /\ lease' = [lease EXCEPT ![l] = NewLease(k, c)]
      /\ caller' = [caller EXCEPT ![c] = CallAwaiting("read", k, l)]
      /\ fut' = [fut EXCEPT ![c] = "pending"]
  <2>1. Cardinality(Registered) \in Nat
    BY FS_CardinalityType DEF IInv, Bounded
  <2> QED
    BY <1>l, <2>1 DEF ReadNew
<1>2. l \in Leases /\ \A j \in Keys : registry[j] # l
  BY <1>l, <1>1, FreshFacts
<1>4. /\ Joins(c, l)
      /\ \A m \in Leases \ {l} : Untouched(m)
      /\ lease'[l].key = k
      /\ lease' \in [Leases -> LeaseRecords] /\ caller' \in [Callers -> CallRecords]
      /\ fut' \in [Callers -> Futures]
      /\ \A d \in Callers : caller'[d].pc # "out" => caller'[d].key \in Keys /\ caller'[d].lease \in Leases
  BY <1>1, <1>l, NewJoins
<1>5. registry \in [Keys -> Leases \union {None}]
  BY DEF IInv, TypeOK
<1>6. registry' \in [Keys -> Leases \union {None}]
  BY <1>1, <1>2, <1>5
<1>7. TypeOK'
  BY <1>4, <1>6 DEF TypeOK
<1>8. Accounted'
  BY <1>2, <1>4, JoinsAccounted
<1>9. Cardinality({j \in Keys : registry[j] # None}) < MaxLeases
  BY <1>1 DEF Registered
<1>10. Runs(l)'
  BY <1>4 DEF Joins
<1>11. Listed' /\ Bounded'
  <2>1. \A j \in Keys : registry[j] = registry[j] \/ registry[j] = None
    OBVIOUS
  <2> QED
    BY <1>1, <1>2, <1>4, <1>5, <1>9, <1>10, <2>1, RegistryGrows
<1> QED
  BY <1>7, <1>8, <1>11 DEF IInv, Accounted

\* A listed lease's worker runs.
LEMMA ListedRuns ==
  ASSUME IInv, NEW k \in Keys, registry[k] # None
  PROVE  registry[k] \in Leases /\ Runs(registry[k])
BY DEF IInv, TypeOK, Registered, Listed

LEMMA ReadResumeStep ==
  ASSUME IInv, NEW c \in Callers, NEW k \in Keys, ReadResume(c, k) \/ Snapshot(c, k)
  PROVE  IInv'
<1> DEFINE l == registry[k]
<1>1. l \in Leases /\ Runs(l)
  BY ListedRuns DEF ReadResume, Snapshot
<1>2. /\ ~Referenced(c) /\ ~lease[l].busy
      /\ fut' = [fut EXCEPT ![c] = "pending"] /\ registry' = registry
  BY DEF ReadResume, Snapshot
<1>3. lease \in [Leases -> LeaseRecords] /\ lease[l] \in LeaseRecords /\ Idle \in Nat
  BY <1>1, HandoffAssumption DEF IInv, TypeOK
<1>4. Append(lease[l].queue, c) \in Seq(Callers)
  BY <1>3 DEF LeaseRecords
<1>5. CASE ReadResume(c, k)
  <2> DEFINE r == [lease[l] EXCEPT !.busy = TRUE, !.queue = Append(@, c)]
  <2>1. r \in LeaseRecords
    BY <1>3, <1>4 DEF LeaseRecords
  <2>2. /\ r.cur = lease[l].cur /\ r.queue = Append(lease[l].queue, c) /\ r.pc = lease[l].pc
        /\ r.key = lease[l].key /\ r.busy
    BY <1>3 DEF LeaseRecords
  <2>3. /\ lease' = [lease EXCEPT ![l] = r]
        /\ caller' = [caller EXCEPT ![c] = CallAwaiting("read", k, l)]
    BY <1>5, <1>1, <1>3 DEF ReadResume
  <2> HIDE DEF r
  <2> QED
    BY <1>1, <1>2, <2>1, <2>2, <2>3, QueueJoins
<1>6. CASE Snapshot(c, k)
  <2> DEFINE r == [lease[l] EXCEPT !.busy = TRUE, !.idle = Idle, !.queue = Append(@, c)]
  <2>1. r \in LeaseRecords
    BY <1>3, <1>4 DEF LeaseRecords
  <2>2. /\ r.cur = lease[l].cur /\ r.queue = Append(lease[l].queue, c) /\ r.pc = lease[l].pc
        /\ r.key = lease[l].key /\ r.busy
    BY <1>3 DEF LeaseRecords
  <2>3. /\ lease' = [lease EXCEPT ![l] = r]
        /\ caller' = [caller EXCEPT ![c] = CallAwaiting("snapshot", k, l)]
    BY <1>6, <1>1, <1>3 DEF Snapshot
  <2> HIDE DEF r
  <2> QED
    BY <1>1, <1>2, <2>1, <2>2, <2>3, QueueJoins
<1> QED
  BY <1>5, <1>6

LEMMA ReadExpiredStep ==
  ASSUME IInv, NEW c \in Callers, NEW k \in Keys, ReadExpired(c, k)
  PROVE  IInv'
<1> DEFINE l == registry[k]
           r == [pc |-> "retry", kind |-> "read", key |-> k, lease |-> l]
<1>1. l \in Leases
  BY ListedRuns DEF ReadExpired
<1>2. /\ ~Referenced(c) /\ fut' = [fut EXCEPT ![c] = "none"] /\ registry' = registry
      /\ lease' = [lease EXCEPT ![l] = [Stopped(l) EXCEPT !.busy = TRUE]]
      /\ caller' = [caller EXCEPT ![c] = r]
  BY DEF ReadExpired
<1>3. r \in CallRecords /\ r.key \in Keys /\ r.lease \in Leases
  BY <1>1 DEF CallRecords
<1>4. lease' \in [Leases -> LeaseRecords] /\ \A m \in Leases : Still(m)
  BY <1>1, <1>2, StopStill
<1> HIDE DEF l, r
<1> QED
  BY <1>2, <1>3, <1>4, CallerQuiet

\* After `await _stop()`: the call returns, or opens a new page.
LEMMA RetryStep ==
  ASSUME IInv, NEW c \in Callers, RetryStopped(c) \/ RetryCancelled(c)
  PROVE  IInv'
<1>k. PICK k : k = caller[c].key
  OBVIOUS
<1>r. PICK reg : reg = ForgetDone(caller[c].lease)
  OBVIOUS
<1>1. Replace(c, reg) /\ caller[c].pc = "retry"
  BY <1>r DEF RetryStopped, RetryCancelled
<1>2. ~Referenced(c) /\ k \in Keys
  BY <1>1, <1>k DEF IInv, RetryFree, TypeOK
<1>3. registry \in [Keys -> Leases \union {None}]
  BY DEF IInv, TypeOK
<1>4. /\ reg \in [Keys -> Leases \union {None}]
      /\ \A j \in Keys : reg[j] = registry[j] \/ reg[j] = None
  BY <1>3, <1>r DEF ForgetDone
<1>5. CASE Cardinality({j \in Keys : reg[j] # None}) >= MaxLeases
  <2>1. /\ registry' = reg /\ caller' = [caller EXCEPT ![c] = NoCall] /\ lease' = lease /\ fut' = fut
    BY <1>1, <1>5 DEF Replace
  <2>2. lease' \in [Leases -> LeaseRecords] /\ \A l \in Leases : Still(l)
    BY <2>1, LeaseStands
  <2> QED
    BY <1>r, <2>1, <2>2, NoCallFacts, CallerQuiet
<1>6. CASE ~(Cardinality({j \in Keys : reg[j] # None}) >= MaxLeases)
  <2>l. PICK l : l = FreshLease(c)
    OBVIOUS
  <2>1. /\ HasFresh(c) /\ registry' = [reg EXCEPT ![k] = l]
        /\ lease' = [lease EXCEPT ![l] = NewLease(k, c)]
        /\ caller' = [caller EXCEPT ![c] = CallAwaiting("read", k, l)]
        /\ fut' = [fut EXCEPT ![c] = "pending"]
    BY <1>1, <1>6, <1>k, <2>l DEF Replace
  <2>2. l \in Leases /\ \A j \in Keys : registry[j] # l
    BY <2>l, <2>1, FreshFacts
  <2>3. /\ Joins(c, l)
        /\ \A m \in Leases \ {l} : Untouched(m)
        /\ lease'[l].key = k
        /\ lease' \in [Leases -> LeaseRecords] /\ caller' \in [Callers -> CallRecords]
        /\ fut' \in [Callers -> Futures]
        /\ \A d \in Callers : caller'[d].pc # "out" => caller'[d].key \in Keys /\ caller'[d].lease \in Leases
    BY <1>2, <2>1, <2>l, NewJoins
  <2>4. registry' \in [Keys -> Leases \union {None}]
    BY <1>2, <1>4, <2>1, <2>2
  <2>5. TypeOK'
    BY <2>3, <2>4 DEF TypeOK
  <2>6. Accounted'
    BY <2>2, <2>3, JoinsAccounted
  <2>7. Runs(l)'
    BY <2>3 DEF Joins
  <2>8. Cardinality({j \in Keys : reg[j] # None}) < MaxLeases
    <3>1. {j \in Keys : reg[j] # None} \subseteq Registered
      BY <1>4 DEF Registered
    <3>2. Cardinality({j \in Keys : reg[j] # None}) \in Nat /\ MaxLeases \in Nat
      BY <3>1, FS_Subset, FS_CardinalityType, HandoffAssumption DEF IInv, Bounded
    <3> QED
      BY <3>2, <1>6
  <2>9. Listed' /\ Bounded'
    BY <1>2, <1>4, <2>1, <2>2, <2>3, <2>7, <2>8, RegistryGrows
  <2> QED
    BY <2>5, <2>6, <2>9 DEF IInv, Accounted
<1> QED
  BY <1>5, <1>6

\* A call whose record moves from one place to another outside "retry".
LEMMA CallerMoves ==
  ASSUME IInv, NEW c \in Callers, caller[c].pc # "out",
         NEW to \in {"task", "stopping"}, caller' = [caller EXCEPT ![c].pc = to]
  PROVE  \E r \in CallRecords : /\ caller' = [caller EXCEPT ![c] = r]
                                /\ r.pc = to /\ r.key \in Keys /\ r.lease \in Leases
<1>1. /\ caller \in [Callers -> CallRecords] /\ caller[c] \in CallRecords
      /\ caller[c].key \in Keys /\ caller[c].lease \in Leases
  BY DEF IInv, TypeOK
<1>2. PICK r : r = [caller[c] EXCEPT !.pc = to]
  OBVIOUS
<1>3. r \in CallRecords /\ r.pc = to /\ r.key = caller[c].key /\ r.lease = caller[c].lease
  BY <1>1, <1>2 DEF CallRecords
<1>4. caller' = [caller EXCEPT ![c] = r]
  BY <1>1, <1>2
<1> QED
  BY <1>1, <1>3, <1>4

LEMMA CallerStepStep ==
  ASSUME IInv, NEW c \in Callers,
         ResultArrives(c) \/ TaskEnds(c) \/ StopEnds(c) \/ CallCancelled(c) \/ StopCancelled(c)
  PROVE  IInv'
<1>o. caller[c].pc # "out" /\ caller[c].pc # "retry"
  BY DEF ResultArrives, TaskEnds, StopEnds, CallCancelled, StopCancelled
<1>l. PICK l \in Leases : l = caller[c].lease
  BY <1>o DEF IInv, TypeOK
<1>1. CASE caller' = [caller EXCEPT ![c] = NoCall]
  <2>1. /\ lease' = lease
        /\ fut' = fut \/ fut' = [fut EXCEPT ![c] = "none"]
        /\ registry' = registry \/ registry' = ForgetDone(caller[c].lease)
    <3>1. ~ CallCancelled(c)
      <4>1. CallCancelled(c) => caller'[c].pc = "stopping"
        BY DEF CallCancelled, IInv, TypeOK, CallRecords
      <4>2. caller'[c].pc = "out"
        BY <1>1, NoCallFacts DEF IInv, TypeOK
      <4> QED
        BY <4>1, <4>2
    <3>2. caller'[c].pc = "out"
      BY <1>1, NoCallFacts DEF IInv, TypeOK
    <3>3. ResultArrives(c) => \/ caller'[c].pc \in {"task", "stopping"}
                              \/ lease' = lease /\ fut' = [fut EXCEPT ![c] = "none"] /\ registry' = registry
      BY DEF ResultArrives, IInv, TypeOK, CallRecords
    <3> QED
      BY <3>1, <3>2, <3>3 DEF TaskEnds, StopEnds, StopCancelled
  <2>2. lease' \in [Leases -> LeaseRecords] /\ \A m \in Leases : Still(m)
    BY <2>1, LeaseStands
  <2> QED
    BY <1>1, <2>1, <2>2, NoCallFacts, CallerQuiet
<1>2. CASE /\ \E to \in {"task", "stopping"} : caller' = [caller EXCEPT ![c].pc = to]
           /\ lease' = lease \/ lease' = [lease EXCEPT ![l] = Stopped(l)]
           /\ fut' = fut /\ registry' = registry
  <2>1. PICK to \in {"task", "stopping"} : caller' = [caller EXCEPT ![c].pc = to]
    BY <1>2
  <2>2. PICK r \in CallRecords : /\ caller' = [caller EXCEPT ![c] = r]
                                 /\ r.pc = to /\ r.key \in Keys /\ r.lease \in Leases
    BY <1>o, <2>1, CallerMoves
  <2>3. lease' \in [Leases -> LeaseRecords] /\ \A m \in Leases : Still(m)
    BY <1>2, LeaseStands, StopStill
  <2> QED
    BY <1>2, <2>2, <2>3, CallerQuiet
<1> QED
  BY <1>l, <1>1, <1>2 DEF ResultArrives, TaskEnds, StopEnds, CallCancelled, StopCancelled

-----------------------------------------------------------------------------
(* The actions of a worker.                                                 *)

\* A worker that goes on with the lease it has.
LEMMA WorkerKeepsStep ==
  ASSUME IInv, NEW l \in Leases,
         \/ PageOpens(l) \/ ReadFinds(l) \/ ReadBlocked(l)
         \/ ReadFails(l) \/ TimesOut(l) \/ CancelArrives(l)
  PROVE  IInv'
<1>1. /\ lease \in [Leases -> LeaseRecords] /\ lease[l] \in LeaseRecords /\ fut \in [Callers -> Futures]
  BY DEF IInv, TypeOK
<1>2. lease[l].pc \in Running
  BY DEF PageOpens, ReadFinds, ReadBlocked, ReadFails, TimesOut, CancelArrives, Running
<1>3. UNCHANGED <<registry, caller>>
  BY DEF PageOpens, ReadFinds, ReadBlocked, ReadFails, TimesOut, CancelArrives, Closing
<1>4. /\ fut' \in [Callers -> Futures]
      /\ \A c \in Callers : fut'[c] = "pending" => fut[c] = "pending"
  BY <1>1 DEF PageOpens, ReadFinds, ReadBlocked, ReadFails, TimesOut, CancelArrives, Closing, Futures
<1> DEFINE Keeps(r) ==
       /\ lease' = [lease EXCEPT ![l] = r]
       /\ r \in LeaseRecords /\ r.pc \in {"reading", "revealing", "closing"}
       /\ r.pc # "closing" => lease[l].pc \in {"opening", "reading", "revealing"}
       /\ r.cur = lease[l].cur /\ r.queue = lease[l].queue /\ r.key = lease[l].key
       /\ r.busy = lease[l].busy
<1>5. {"reading", "revealing", "closing"} \subseteq Running
  BY DEF Running
<1>6. CASE PageOpens(l) \/ ReadBlocked(l)
  <2>1. PICK p \in {"reading", "revealing"} : /\ lease' = [lease EXCEPT ![l].pc = p]
                                              /\ lease[l].pc \in {"opening", "reading", "revealing"}
    BY <1>6 DEF PageOpens, ReadBlocked
  <2>2. PICK r : r = [lease[l] EXCEPT !.pc = p]
    OBVIOUS
  <2>3. Keeps(r)
    BY <1>1, <1>5, <2>1, <2>2 DEF LeaseRecords
  <2> QED
    BY <2>3, <1>2, <1>3, <1>4, <1>5, WorkerQuiet
<1>7. CASE ReadFinds(l)
  <2>1. PICK r : r = [lease[l] EXCEPT !.pc = "closing", !.cleaning = TRUE]
    OBVIOUS
  <2>2. lease' = [lease EXCEPT ![l] = r]
    BY <1>7, <1>1, <2>1 DEF ReadFinds
  <2>3. Keeps(r)
    BY <1>1, <1>5, <2>1, <2>2 DEF LeaseRecords
  <2> QED
    BY <2>3, <1>2, <1>3, <1>4, <1>5, WorkerQuiet
<1>8. CASE ReadFails(l) \/ TimesOut(l) \/ CancelArrives(l)
  <2>1. PICK b \in BOOLEAN : Closing(l, b)
    BY <1>8 DEF ReadFails, TimesOut, CancelArrives
  <2>2. PICK r : r = [lease[l] EXCEPT !.pc = "closing", !.cancelled = b, !.cleaning = TRUE]
    OBVIOUS
  <2>3. lease' = [lease EXCEPT ![l] = r]
    BY <1>1, <2>1, <2>2 DEF Closing
  <2>4. Keeps(r)
    BY <1>1, <1>5, <2>2, <2>3 DEF LeaseRecords
  <2> QED
    BY <2>4, <1>2, <1>3, <1>4, <1>5, WorkerQuiet
<1> QED
  BY <1>6, <1>7, <1>8

\* The worker takes the request that waits.
LEMMA NextRequestStep ==
  ASSUME IInv, NEW l \in Leases, NextRequest(l)
  PROVE  IInv'
<1>1. /\ lease \in [Leases -> LeaseRecords] /\ lease[l] \in LeaseRecords /\ lease[l].queue \in Seq(Callers)
      /\ SlotOK(l)
  BY DEF IInv, TypeOK, LeaseRecords, SlotsOK
<1>2. /\ lease[l].pc = "waiting" /\ lease[l].queue # <<>> /\ UNCHANGED <<registry, caller, fut>>
  BY DEF NextRequest
<1>3. lease[l].cur = None /\ Len(lease[l].queue) = 1 /\ lease[l].busy
  <2>1. lease[l].cur = None /\ lease[l].busy
    BY <1>1, <1>2 DEF SlotOK, Empty
  <2>2. \A q \in Seq(Callers) : q # <<>> /\ Len(q) <= 1 => Len(q) = 1
    OBVIOUS
  <2> QED
    BY <1>1, <1>2, <2>1, <2>2 DEF SlotOK
<1>c. PICK c \in Callers : lease[l].queue = <<c>>
  <2>1. \A q \in Seq(Callers) : Len(q) = 1 => q = <<q[1]>> /\ q[1] \in Callers
    OBVIOUS
  <2> QED
    BY <1>1, <1>3, <2>1
<1>4. PICK r : r = [lease[l] EXCEPT !.pc = "reading", !.cur = Head(lease[l].queue),
                                    !.queue = Tail(@), !.wait = 0]
  OBVIOUS
<1>5. lease' = [lease EXCEPT ![l] = r]
  BY <1>1, <1>4 DEF NextRequest
<1>6. Head(lease[l].queue) = c /\ Tail(lease[l].queue) = <<>>
  BY <1>c
<1>7. r = [lease[l] EXCEPT !.pc = "reading", !.cur = c, !.queue = <<>>, !.wait = 0]
  BY <1>4, <1>6
<1>8. /\ r \in LeaseRecords
      /\ r.pc = "reading" /\ r.cur = c /\ r.queue = <<>> /\ r.key = lease[l].key
      /\ r.busy = lease[l].busy
  <2>1. <<>> \in Seq(Callers) /\ "reading" \in Running
    BY DEF Running
  <2> QED
    BY <1>1, <1>7, <2>1 DEF LeaseRecords
<1>9. /\ lease' \in [Leases -> LeaseRecords] /\ lease'[l] = r
      /\ \A m \in Leases \ {l} : Still(m)
  BY <1>5, <1>8, LeaseUpdated
<1>10. \A d \in Callers : Holds(l, d)' <=> Holds(l, d)
  <2>1. \A d \in Callers : Holds(l, d) <=> d = c
    BY <1>3, <1>c, HandoffAssumption DEF Holds
  <2>2. \A d \in Callers : Holds(l, d)' <=> d = c
    BY <1>8, <1>9 DEF Holds
  <2> QED
    BY <2>1, <2>2
<1>11. Still(l)
  <2>1. c # None
    BY HandoffAssumption
  <2>2. Runs(l) /\ Runs(l)'
    BY <1>2, <1>8, <1>9 DEF Runs, Running
  <2>3. lease'[l].busy
    BY <1>3, <1>8, <1>9
  <2>4. SlotOK(l)'
    BY <1>8, <1>9, <2>1, <2>2, <2>3 DEF SlotOK
  <2> QED
    BY <1>8, <1>9, <1>10, <2>2, <2>4 DEF Still
<1>12. Quiet
  BY <1>2, <1>9, <1>11 DEF Quiet
<1>13. TypeOK'
  BY <1>2, <1>9 DEF IInv, TypeOK
<1> QED
  BY <1>12, <1>13, QuietStep

\* Whoever page l held is answered; its lease becomes r, which holds nobody.
LEMMA AnsweredStep ==
  ASSUME IInv, NEW l \in Leases, NEW r \in LeaseRecords, lease' = [lease EXCEPT ![l] = r],
         r.cur = None, r.queue = <<>>, r.pc \notin {"opening", "reading", "revealing"},
         caller' = caller, fut' \in [Callers -> Futures],
         \A d \in Callers : fut'[d] = "pending" => fut[d] = "pending" /\ ~Holds(l, d),
         \/ registry' = registry /\ r.key = lease[l].key /\ r.pc \in Running
         \/ registry' = [k \in Keys |-> IF registry[k] = l THEN None ELSE registry[k]]
  PROVE  IInv'
<1>1. /\ lease' \in [Leases -> LeaseRecords] /\ lease'[l] = r
      /\ \A m \in Leases \ {l} : Still(m)
  BY LeaseUpdated
<1>2. Empty(l)'
  BY <1>1 DEF Empty
<1>3. SlotOK(l)'
  BY <1>1, <1>2 DEF SlotOK
<1>4. Leaves(l)
  BY <1>1, <1>2, <1>3 DEF Leaves
<1>5. Accounted'
  BY <1>4, LeavesAccounted
<1>6. registry \in [Keys -> Leases \union {None}]
  BY DEF IInv, TypeOK
<1>7. TypeOK'
  BY <1>1, <1>6 DEF IInv, TypeOK
<1>8. Listed' /\ Bounded'
  <2>1. CASE registry' = registry /\ r.key = lease[l].key /\ r.pc \in Running
    BY <2>1, <1>1, RegistryStands DEF Runs
  <2>2. CASE registry' = [k \in Keys |-> IF registry[k] = l THEN None ELSE registry[k]]
    <3>1. \A k \in Keys : registry'[k] = registry[k] \/ registry'[k] = None
      BY <2>2
    <3>2. ASSUME NEW k \in Keys, registry'[k] # None
          PROVE  lease'[registry[k]].key = lease[registry[k]].key /\ Runs(registry[k])'
      <4>1. registry'[k] = registry[k] /\ registry[k] # None /\ registry[k] # l
        BY <2>2, <3>2
      <4>2. registry[k] \in Leases /\ Runs(registry[k])
        BY <4>1, ListedRuns
      <4>3. PICK m \in Leases \ {l} : m = registry[k]
        BY <4>1, <4>2
      <4>4. Runs(m)' /\ lease'[m].key = lease[m].key
        BY <1>1, <4>2, <4>3 DEF Still
      <4> QED
        BY <4>1, <4>3, <4>4 DEF Runs
    <3> QED
      BY <3>1, <3>2, RegistryShrinks
  <2> QED
    BY <2>1, <2>2
<1> QED
  BY <1>5, <1>7, <1>8 DEF IInv, Accounted

LEMMA AnswerStep ==
  ASSUME IInv, NEW l \in Leases, PageRevealed(l) \/ SnapshotTaken(l)
  PROVE  IInv'
<1>1. /\ lease \in [Leases -> LeaseRecords] /\ lease[l] \in LeaseRecords /\ fut \in [Callers -> Futures]
      /\ SlotOK(l)
  BY DEF IInv, TypeOK, SlotsOK
<1>2. PICK a \in {"challenge", "data"} : AnswerAndWait(l, a)
  BY DEF PageRevealed, SnapshotTaken
<1>3. lease[l].pc \in {"reading", "revealing"}
  BY DEF PageRevealed, SnapshotTaken
<1>4. lease[l].queue = <<>>
  BY <1>1, <1>3 DEF SlotOK
<1>5. PICK r : r = [lease[l] EXCEPT !.pc = "waiting", !.busy = FALSE, !.cur = None,
                                    !.idle = Idle, !.wait = Min2(lease[l].life, Idle)]
  OBVIOUS
<1>6. lease' = [lease EXCEPT ![l] = r]
  BY <1>1, <1>2, <1>5 DEF AnswerAndWait
<1>7. Min2(lease[l].life, Idle) \in Nat /\ Idle \in Nat
  BY <1>1, HandoffAssumption DEF Min2, LeaseRecords
<1>8. /\ r \in LeaseRecords /\ r.cur = None /\ r.queue = <<>> /\ r.pc = "waiting" /\ r.key = lease[l].key
  BY <1>1, <1>4, <1>5, <1>7 DEF LeaseRecords, Running
<1>9. fut' = [fut EXCEPT ![lease[l].cur] = a] /\ UNCHANGED <<registry, caller>>
  BY <1>2 DEF AnswerAndWait
<1>10. \A d \in Callers : Holds(l, d) <=> d = lease[l].cur
  BY <1>4 DEF Holds
<1>11. /\ fut' \in [Callers -> Futures]
       /\ \A d \in Callers : fut'[d] = "pending" => fut[d] = "pending" /\ ~Holds(l, d)
  BY <1>1, <1>9, <1>10 DEF Futures
<1>12. r.pc \in Running
  BY <1>8 DEF Running
<1> QED
  BY <1>6, <1>8, <1>9, <1>11, <1>12, AnsweredStep

LEMMA LeaveStep ==
  ASSUME IInv, NEW l \in Leases, TabClosed(l) \/ OpenFails(l) \/ OpenTimesOut(l) \/ OpenCancelled(l)
  PROVE  IInv'
<1>1. PICK b : LeaveRun(l, b)
  BY DEF TabClosed, OpenFails, OpenTimesOut, OpenCancelled
<1>2. PICK r \in {NoLease, HidingLease} : lease' = [lease EXCEPT ![l] = r]
  BY <1>1 DEF LeaveRun, HidingLease
<1>3. PICK answer \in {"cancelled", "error"} :
        fut' = [c \in Callers |-> IF c \in ({lease[l].cur} \union {lease[l].queue[i] : i \in 1..Len(lease[l].queue)})
                                     /\ fut[c] = "pending" THEN answer ELSE fut[c]]
  BY <1>1 DEF LeaveRun
<1>4. caller' = caller /\ registry' = [k \in Keys |-> IF registry[k] = l THEN None ELSE registry[k]]
  BY <1>1 DEF LeaveRun
<1>5. /\ r \in LeaseRecords /\ r.cur = None /\ r.queue = <<>> /\ r.pc \notin {"opening", "reading", "revealing"}
  BY NoLeaseFacts
<1>6. fut \in [Callers -> Futures]
  BY DEF IInv, TypeOK
<1>7. \A d \in Callers : Holds(l, d) <=> d \in ({lease[l].cur} \union {lease[l].queue[i] : i \in 1..Len(lease[l].queue)})
  BY DEF Holds
<1>8. /\ fut' \in [Callers -> Futures]
      /\ \A d \in Callers : fut'[d] = "pending" => fut[d] = "pending" /\ ~Holds(l, d)
  BY <1>3, <1>6, <1>7 DEF Futures
<1> QED
  BY <1>2, <1>4, <1>5, <1>8, AnsweredStep

LEMMA HiddenStep ==
  ASSUME IInv, NEW l \in Leases, WindowsHidden(l)
  PROVE  IInv'
<1>1. lease' = [lease EXCEPT ![l] = NoLease] /\ UNCHANGED <<registry, caller, fut>> /\ ~Runs(l)
  BY DEF WindowsHidden, Runs, Running
<1>2. Empty(l)
  BY <1>1 DEF IInv, SlotsOK, SlotOK
<1>3. NoLease.pc \notin Running /\ NoLease.pc = "done"
  BY NoLeaseFacts DEF Running
<1> QED
  BY <1>1, <1>2, <1>3, NoLeaseFacts, WorkerQuiet DEF Empty, Runs, IInv, TypeOK

-----------------------------------------------------------------------------
(* The actions of everybody.                                                *)

\* A step that only asks workers to end, or only moves the clocks.
LEMMA AllQuiet ==
  ASSUME IInv, lease' \in [Leases -> LeaseRecords], UNCHANGED <<registry, caller, fut>>,
         \A l \in Leases : /\ lease'[l].cur = lease[l].cur /\ lease'[l].queue = lease[l].queue
                           /\ lease'[l].pc = lease[l].pc /\ lease'[l].key = lease[l].key
                           /\ lease'[l].busy = lease[l].busy
  PROVE  IInv'
<1>1. \A l \in Leases : Still(l)
  <2> SUFFICES ASSUME NEW l \in Leases
               PROVE  Still(l)
    OBVIOUS
  <2> QED
    BY SameHeld DEF Runs
<1>2. Quiet
  BY <1>1 DEF Quiet
<1>3. TypeOK'
  BY DEF IInv, TypeOK
<1> QED
  BY <1>2, <1>3, QuietStep

LEMMA CloseStep ==
  ASSUME IInv, CloseHandoffs
  PROVE  IInv'
<1>1. /\ lease' = [l \in Leases |-> IF \E k \in Keys : registry[k] = l THEN Stopped(l) ELSE lease[l]]
      /\ UNCHANGED <<registry, caller, fut>>
  BY DEF CloseHandoffs
<1>2. lease \in [Leases -> LeaseRecords]
  BY DEF IInv, TypeOK
<1>3. ASSUME NEW l \in Leases
      PROVE  /\ lease'[l] \in LeaseRecords
             /\ lease'[l].cur = lease[l].cur /\ lease'[l].queue = lease[l].queue
             /\ lease'[l].pc = lease[l].pc /\ lease'[l].key = lease[l].key
             /\ lease'[l].busy = lease[l].busy
  <2>1. lease'[l] = Stopped(l) \/ lease'[l] = lease[l]
    BY <1>1
  <2> QED
    BY <1>2, <2>1, StoppedFacts
<1>4. lease' \in [Leases -> LeaseRecords]
  BY <1>1, <1>3
<1> QED
  BY <1>1, <1>3, <1>4, AllQuiet

LEMMA TickStep ==
  ASSUME IInv, Tick
  PROVE  IInv'
<1>1. /\ lease' = [l \in Leases |-> [lease[l] EXCEPT !.life = Down(@), !.idle = Down(@), !.wait = Down(@)]]
      /\ UNCHANGED <<registry, caller, fut>>
  BY DEF Tick
<1>2. lease \in [Leases -> LeaseRecords]
  BY DEF IInv, TypeOK
<1>3. \A n \in Nat : Down(n) \in Nat
  BY DEF Down
<1>4. ASSUME NEW l \in Leases
      PROVE  /\ lease'[l] \in LeaseRecords
             /\ lease'[l].cur = lease[l].cur /\ lease'[l].queue = lease[l].queue
             /\ lease'[l].pc = lease[l].pc /\ lease'[l].key = lease[l].key
             /\ lease'[l].busy = lease[l].busy
  <2>1. lease'[l] = [lease[l] EXCEPT !.life = Down(lease[l].life), !.idle = Down(lease[l].idle),
                                     !.wait = Down(lease[l].wait)]
    BY <1>1
  <2>2. lease[l] \in LeaseRecords
    BY <1>2
  <2> QED
    BY <1>3, <2>1, <2>2 DEF LeaseRecords
<1>5. lease' \in [Leases -> LeaseRecords]
  BY <1>1, <1>4
<1> QED
  BY <1>1, <1>4, <1>5, AllQuiet

-----------------------------------------------------------------------------
LEMMA InitInvariant ==
  ASSUME Init
  PROVE  IInv
<1>1. /\ \A k \in Keys : registry[k] = None
      /\ lease = [l \in Leases |-> NoLease]
      /\ caller = [c \in Callers |-> NoCall]
      /\ fut = [c \in Callers |-> "none"]
      /\ registry = [k \in Keys |-> None]
  BY DEF Init
<1>2. TypeOK
  BY <1>1, NoLeaseFacts, NoCallFacts DEF TypeOK, Futures
<1>3. \A l \in Leases : Empty(l) /\ lease[l].pc = "done"
  BY <1>1, NoLeaseFacts DEF Empty
<1>4. SlotsOK
  BY <1>3 DEF SlotsOK, SlotOK, Empty
<1>5. \A c \in Callers : \A l \in Leases : ~Holds(l, c)
  BY <1>3, HandoffAssumption DEF Holds, Empty
<1>6. HeldOnce /\ PendingHeld /\ RetryFree
  BY <1>1, <1>5, NoCallFacts DEF HeldOnce, PendingHeld, RetryFree
<1>7. Registered = {}
  BY <1>1 DEF Registered
<1>8. Listed /\ Bounded
  BY <1>7, FS_EmptySet, HandoffAssumption DEF Listed, Bounded
<1> QED
  BY <1>2, <1>4, <1>6, <1>8 DEF IInv

LEMMA NextInvariant ==
  ASSUME IInv, [Next]_vars
  PROVE  IInv'
<1>1. ASSUME NEW c \in Callers, Call(c)
      PROVE  IInv'
  BY <1>1, ReadNewStep, ReadResumeStep, ReadExpiredStep DEF Call
<1>2. ASSUME NEW c \in Callers, CallerStep(c) \/ Cancellation(c)
      PROVE  IInv'
  BY <1>2, CallerStepStep, RetryStep DEF CallerStep, Cancellation
<1>3. ASSUME NEW l \in Leases, PageStep(l) \/ EndingStep(l) \/ OpenFails(l)
      PROVE  IInv'
  BY <1>3, WorkerKeepsStep, AnswerStep, LeaveStep, HiddenStep DEF PageStep, EndingStep
<1>4. ASSUME NEW l \in Leases, NextRequest(l)
      PROVE  IInv'
  BY <1>4, NextRequestStep
<1>5. CASE CloseHandoffs
  BY <1>5, CloseStep
<1>6. CASE Tick
  BY <1>6, TickStep
<1>7. CASE UNCHANGED vars
  BY <1>7, AllQuiet DEF vars, IInv, TypeOK
<1> QED
  BY <1>1, <1>2, <1>3, <1>4, <1>5, <1>6, <1>7 DEF Next

LEMMA Invariant == Spec => []IInv
<1>1. Init => IInv
  BY InitInvariant
<1>2. IInv /\ [Next]_vars => IInv'
  BY NextInvariant
<1> QED
  BY <1>1, <1>2, PTL DEF Spec

\* _run() never drops a request on any of its exits and never serves one twice,
\* and a page never has two: an open future is held once, by a running worker.
THEOREM RequestsAlwaysAccounted == Spec => []RequestsAccounted
<1>1. IInv => RequestsAccounted
  BY InvariantImplies
<1> QED
  BY <1>1, Invariant, PTL

\* The registry lists a lease under its own key, only while its worker runs, and
\* never more than CHROME_CHALLENGE_HANDOFF_MAX of them.
THEOREM RegistryAlwaysSound == Spec => []RegistrySound
<1>1. IInv => RegistrySound
  BY InvariantImplies
<1> QED
  BY <1>1, Invariant, PTL
=============================================================================
