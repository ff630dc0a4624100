SPECIFICATION Spec
CONSTANTS
  Pools = {p1, p2, p3}
  Pages = {g1, g2}
  NumElements = 2
  Orphan = Orphan
  None = None
SYMMETRY Symm
INVARIANTS OneHome OrphanCount NoDangling GoneIsUntouched
