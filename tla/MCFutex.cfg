CONSTANTS
  c1 = c1
  c2 = c2
  p1 = p1
  Threads <- MCThreads
  Producers <- MCProducers
  Timed <- MCTimed
  Bounds <- MCBounds
SPECIFICATION FairSpec
INVARIANTS
  MutexInv
  NoLostSignal
  DestroyedUnused
PROPERTIES
  Delivered
