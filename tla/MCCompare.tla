------------------------------- MODULE MCCompare -------------------------------
\* Compare alone, over the instance MCAgent uses.
EXTENDS Compare, CompareInstance
=============================================================================
