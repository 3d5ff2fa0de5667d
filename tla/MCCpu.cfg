CONSTANTS
  NumCpus = 2
  NumTasks = 3
  NumGroups = 2
  QUANTUM_TICKS = 2
  FAIR_QUANTUM = 1
  MAX_LAG_QUANTA = 2
  QUOTA_WINDOW = 3
  SHARE_UNIT = 2
  Epoch = 10
  MaxElapsed = 1
  Home <- MCHome
  Setups <- MCSetups
SPECIFICATION Spec
INVARIANTS
  SchedulerInv
  
PROPERTIES
  Progress
