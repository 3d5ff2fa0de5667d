SPECIFICATION FairSpec
CONSTANTS
    Values = {1}
    BATCH = 1
    TAIL = 1
    SEQ = 3
    Generations = {1}
    Services <- MCServices
INVARIANTS
  TransferInv
PROPERTIES
  CommitKeepsData
  FailsOnlyByFault
  ServiceResumes
  AttemptEnds
