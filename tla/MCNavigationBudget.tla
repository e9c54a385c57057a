-------------------------- MODULE MCNavigationBudget --------------------------
\* TLC instances of NavigationBudget.
EXTENDS NavigationBudget

CONSTANTS n1, n2, n3, n4, h1, h2

\* Three callers contend for the two slots of h1, and one for h2: a caller can
\* wait for its host, and with its host's permit in hand for a global one, so
\* the breaker can open between its two checks or beside one in flight.
Busy == (n1 :> h1) @@ (n2 :> h1) @@ (n3 :> h1) @@ (n4 :> h2)
=============================================================================
