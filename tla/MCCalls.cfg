SPECIFICATION LiveSpec
CONSTANTS
    Channels = {11, 12}
    Threads = {1, 2, 3, 4}
    Callers <- MCCallers
    Readers <- MCReaders
    Base <- MCBase
    Donating = {11}
    MaxRequests <- MCRequests
    MaxOwned = 1
    MaxTime = 1
INVARIANTS
  CallsInv
  PriorityFollowsCalls
PROPERTIES
  CallEnds
CHECK_DEADLOCK FALSE
