----------------------------- MODULE MCGLThread -----------------------------
\* The instances of GLThread that TLC checks.
EXTENDS GLThread
=============================================================================
