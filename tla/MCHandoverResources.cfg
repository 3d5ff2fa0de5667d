CONSTANTS
  PREPARATION_MS = 1
  CUTOVER_MS = 1
  MaxTime = 1
  SequenceNumbers = {0}
  MaxProcesses = 2
  Packages = {"service"}
  Authorities = {}
  Handles = {1, 2}
  Vmos = {1}
  Domains = {11}
  Addresses = {1}
  MaxPins = 1
SPECIFICATION Spec
INVARIANTS
  ResourcesInv
PROPERTIES
  CommitIsWhole
  AbortRestores
CHECK_DEADLOCK FALSE
