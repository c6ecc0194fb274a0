CONSTANTS
  Actions = {"Connect", "InterceptHttp", "InterceptHttps"}
  MaxSent = 3
  MaxUp = 2
  RxCapacity = 2
  TxCapacity = 1
  UpstreamLimit = 2
  PlaintextLimit = 2
  GuestLimit = 1
  HttpLimit = 3
  HeldLimit = 1
SPECIFICATION FairSpec
INVARIANTS
  TypeOK
  StreamsKept
  UpstreamGetsPrefix
  EofAfterData
  NoPayloadInFdTurn
PROPERTIES
  PendingReachesUpstream
  UpstreamReachesGuest
CHECK_DEADLOCK FALSE
