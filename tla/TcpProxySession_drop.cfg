CONSTANTS
  Actions = {"Connect"}
  MaxSent = 1
  MaxUp = 1
  RxCapacity = 1
  TxCapacity = 1
  UpstreamLimit = 1
  PlaintextLimit = 1
  GuestLimit = 1
  HttpLimit = 1
  HeldLimit = 1
SPECIFICATION Spec
INVARIANT NoSilentDrop
CHECK_DEADLOCK FALSE
