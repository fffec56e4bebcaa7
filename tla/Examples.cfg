SPECIFICATION Spec
CONSTANTS
  Chosen = {"e01","e02","e03","e04","e05","e07","e08","e09","e09s","e10","e11","e12","e12s","hash"}
  Rounds = 3
  MaxFaults = 2
INVARIANTS
  DependenciesOutlive
  
  SuccessMeansDone
  CleanRunSucceeds
  DoneMeansDelivered
  CrashConsistent
  BuffersLeftAlone
  NobodyDeadlocks
CHECK_DEADLOCK FALSE
