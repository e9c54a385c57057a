------------------------------ MODULE MCOpenPage ------------------------------
\* Instances of OpenPage for TLC.
EXTENDS OpenPage

CONSTANTS c1, c2, h1

\* Two calls navigate on the same host at once.
OneHost == [c \in Callers |-> h1]
=============================================================================
