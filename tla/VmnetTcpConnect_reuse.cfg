CONSTANTS
  d1 = d1
  d2 = d2
  Dests = {d1, d2}
  PortOf <- MCPortOf
  MaxHandles = 1
  MaxId = 2
  CommandCapacity = 1
  CompletionCapacity = 1
SPECIFICATION Spec
INVARIANT UpstreamIsOwn
CHECK_DEADLOCK FALSE
