---------------------------- MODULE MCSimpleMtx ----------------------------
\* The instance of SimpleMtx that TLC checks.
EXTENDS SimpleMtx
=============================================================================
