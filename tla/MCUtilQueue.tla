---------------------------- MODULE MCUtilQueue ----------------------------
\* The instances of UtilQueue that TLC checks.
EXTENDS UtilQueue
=============================================================================
