------------------------------- MODULE MCSlab -------------------------------
\* The instance of Slab that TLC checks; pools and pages are interchangeable.
EXTENDS Slab, TLC
Symm == Permutations(Pools) \cup Permutations(Pages)
=============================================================================
