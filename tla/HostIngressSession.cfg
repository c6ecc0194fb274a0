CONSTANTS
  MaxHost = 3
  MaxGuest = 3
  RxCapacity = 2
  TxCapacity = 1
  HostLimit = 2
  GuestLimit = 2
  ReadLimit = 4
  WriteLimit = 1
  StreamChunk = 2
SPECIFICATION FairSpec
INVARIANTS
  TypeOK
  StreamsKept
  EofAfterData
PROPERTIES
  PendingReachesHost
  HostReachesGuest
  GuestFinEnds
CHECK_DEADLOCK FALSE
