CONSTANTS
  PREPARATION_MS = 3
  CUTOVER_MS = 2
  MaxTime = 5
  SequenceNumbers = {0, 1}
  MaxProcesses = 3
  Packages = {"appd", "service"}
  Authorities = {"platform_update"}
  Handles = {}
  Vmos = {}
  Domains = {}
  Addresses = {}
  MaxPins = 0
SPECIFICATION FairSpec
INVARIANTS
  ControlInv
PROPERTIES
  HandoverEnds
CHECK_DEADLOCK FALSE
