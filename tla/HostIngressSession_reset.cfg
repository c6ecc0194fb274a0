CONSTANTS
  MaxHost = 2
  MaxGuest = 2
  RxCapacity = 1
  TxCapacity = 1
  HostLimit = 2
  GuestLimit = 1
  ReadLimit = 2
  WriteLimit = 1
  StreamChunk = 1
SPECIFICATION FairSpec
PROPERTIES
  GuestResetEnds
CHECK_DEADLOCK FALSE
