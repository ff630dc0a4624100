SPECIFICATION FairSpec
CONSTANTS
  Waiters = {w1, w2}
  Timed = {w2}
  Signallers = {s1, s2}
  MaxTime = 3
  UtcOffset = 2
INVARIANTS DestroyedUnused
PROPERTIES ImplementsFence SignalReleases
