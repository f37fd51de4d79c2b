SPECIFICATION Spec
CONSTANTS
  a = a
  b = b
  Clients <- MCClients
  Owner = a
  Paths <- MCPaths
  AuthPath = 1
  Limit = 2
  MaxWrites = 3
  MaxKeys = 1
  MaxFaults = 1
  MaxStray = 1
INVARIANTS
  StoreJustified
  PushInv
  AckedKept
  Agreement
  
