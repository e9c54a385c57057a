------------------------- MODULE NavigationAdmission -------------------------
(***************************************************************************)
(* What transport/cdp_budget.py promises its callers, without semaphores,  *)
(* queues or clocks: never more than MaxConcurrent navigations in flight,  *)
(* never more than PerHost on one host, none started on a paused host, and *)
(* a host is paused only by a navigation of that same host.                *)
(***************************************************************************)
EXTENDS Integers, FiniteSets

CONSTANTS Navs, Hosts, HostOf, MaxConcurrent, PerHost

VARIABLES
  active,   \* navigations in flight
  paused    \* hosts whose breaker is open

vars == <<active, paused>>

On(h) == {n \in active : HostOf[n] = h}

Init == active = {} /\ paused = {}

Enter(n) ==
  /\ n \notin active
  /\ HostOf[n] \notin paused
  /\ Cardinality(active) < MaxConcurrent
  /\ Cardinality(On(HostOf[n])) < PerHost
  /\ active' = active \union {n}
  /\ UNCHANGED paused

\* A navigation that leaves may have reported its outcome in the same step.
Leave(n) ==
  /\ n \in active
  /\ active' = active \ {n}
  /\ paused' \subseteq paused \union {HostOf[n]}

Pause(h) ==
  /\ On(h) # {}
  /\ paused' = paused \union {h}
  /\ UNCHANGED active

Resume ==
  /\ paused' \subseteq paused
  /\ UNCHANGED active

Next ==
  \/ \E n \in Navs : Enter(n) \/ Leave(n)
  \/ \E h \in Hosts : Pause(h)
  \/ Resume

Spec == Init /\ [][Next]_vars
=============================================================================
