------------------------- MODULE MCThreadedContext -------------------------
\* The instances of ThreadedContext that TLC checks.
EXTENDS ThreadedContext
=============================================================================
