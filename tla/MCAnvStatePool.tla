--------------------------- MODULE MCAnvStatePool ---------------------------
\* The instance of AnvStatePool that TLC checks.
EXTENDS AnvStatePool
=============================================================================
