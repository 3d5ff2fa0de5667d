CONSTANTS
  PREPARATION_MS = 5
  CUTOVER_MS = 2
  MaxTime = 9
  SequenceNumbers <- MCSequenceNumbers
SPECIFICATION Spec
INVARIANTS
  IInv
PROPERTIES
  OneWay
  BoundedCutover
  IsAtomicCutover
