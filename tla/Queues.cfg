SPECIFICATION FairSpec
CONSTANTS
  Sizes = {1, 2, 3}
  DefaultSize = 1
  IntMax = 2
  MaxSets = 2
  MaxOps = 3
INVARIANTS SizesAsConfigured OverrunAsConfigured StallMeansSilence
PROPERTY CompletionArrives
CHECK_DEADLOCK FALSE
