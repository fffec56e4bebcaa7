CONSTANTS
  Keys = {k1, k2, k3, k4}
  NoKey = NoKey
  Sizes = {2, 4}
  Hop = 2
  WarnBit = 0
  MaxHash = 3
  Threads = {t1, t2}
  Main = t1
  MaxText = 2
  Alike = {{k1, k2}}
  Lookups = 2
  SoloLookups = 1
  SharedKeys = 1
  SharedHash = 0
  Failures = TRUE
SPECIFICATION StoreSpec
INVARIANTS LookupExact StoredIsFound WakeupMeansCompletion ReadsLagByOthers
PROPERTIES KeySetSpec
SYMMETRY KeySymmetry
CHECK_DEADLOCK FALSE
