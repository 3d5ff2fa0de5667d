CONSTANTS
  PREPARATION_DEADLINE = 1
  CUTOVER_DEADLINE = 0
  MaxWord = 4
  MaxTime = 2
  MaxBegin = 0
  Owners <- MCOwners
  Source = 1
  Hashes <- OneHash
  InitialHash = 1
  Services = {"s"}
SPECIFICATION FairSpec
INVARIANTS
  IInv
  JournalDecides
PROPERTIES
  HandoverIsComplete
  SwitchIsFenced
  UpdateEnds
  WriterReopens
