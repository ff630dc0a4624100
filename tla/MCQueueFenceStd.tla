-------------------------- MODULE MCQueueFenceStd --------------------------
\* The instances of QueueFenceStd that TLC checks.
EXTENDS QueueFenceStd
=============================================================================
