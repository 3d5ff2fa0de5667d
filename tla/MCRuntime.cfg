SPECIFICATION Spec
CONSTANTS
    NumCpus = 2
    NumTasks = 4
    NumGroups = 1
    QUANTUM_TICKS = 1
    FAIR_QUANTUM = 1
    MAX_LAG_QUANTA = 8
    QUOTA_WINDOW = 4
    SHARE_UNIT = 1
    InitThreads <- MCThreads
    Manager = 1
    Pollers = {1}
    Channels = {11}
    Watches <- MCWatches
    Userspaces <- MCUserspaces
INVARIANTS
  ThreadsInv
  OnlyOwnerExecutes
  
  HeldExactly
