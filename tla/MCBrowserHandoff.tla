--------------------------- MODULE MCBrowserHandoff ---------------------------
(***************************************************************************)
(* Instances of BrowserHandoff for TLC.  Leases bounds how many pages can  *)
(* be alive or still referred to at a time, the clocks are a few ticks.    *)
(***************************************************************************)
EXTENDS BrowserHandoff, TLC

\* FreshLease picks a lease, so leases are not interchangeable.
Symmetry == Permutations(Callers) \union Permutations(Keys)
=============================================================================
