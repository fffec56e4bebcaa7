CONSTANTS
  Clients = {c1, c2, c3}
  None = None
  ClientMax = 3
  Failing = {c1}
SPECIFICATION FairSpec
INVARIANTS HandlersMatch NamesRight BufferHasOneWriter
PROPERTIES ClientsReleased
