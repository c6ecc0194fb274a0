CONSTANTS
  c1 = c1
  c2 = c2
  Clients = {c1, c2}
  MaxClients = 2
  MaxDiagnostics = 1
  OutputCapacity = 1
  PtyCapacity = 1
  MaxOut = 2
  MaxFrames = 3
  MaxWire = 1
SPECIFICATION FairSpec
INVARIANTS
  TypeOK
  OnePrimary
  OutputKept
PROPERTIES
  DisconnectSettles
CHECK_DEADLOCK FALSE
