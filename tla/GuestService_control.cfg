CONSTANTS
  c1 = c1
  c2 = c2
  Clients = {c1}
  MaxClients = 2
  MaxDiagnostics = 1
  OutputCapacity = 1
  PtyCapacity = 1
  MaxOut = 2
  MaxFrames = 2
  MaxWire = 2
SPECIFICATION Spec
INVARIANTS
  ControlForwarded
CHECK_DEADLOCK FALSE
