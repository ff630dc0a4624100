---------------------------- MODULE MCQueueFence ----------------------------
\* The instance of QueueFence that TLC checks.
EXTENDS QueueFence
=============================================================================
