SPECIFICATION FairSpec
CONSTANTS
  Waiters = {w1, w2, w3}
  Timed = {w3}
  Signallers = {s1, s2}
INVARIANTS SleepersAnnounced
PROPERTIES ImplementsFence SignalReleases TimedWaitReturns
