CONSTANTS
  d1 = d1
  d2 = d2
  Dests = {d1}
  PortOf <- MCPortOf
  MaxHandles = 2
  MaxId = 3
  CommandCapacity = 1
  CompletionCapacity = 1
SPECIFICATION FairSpec
INVARIANTS
  TypeOK
  NoBlockingConnect
  MarkAwaitsAnswer
  ConnectOnce
  TablesAgree
PROPERTIES
  EstablishedServed
CHECK_DEADLOCK FALSE
