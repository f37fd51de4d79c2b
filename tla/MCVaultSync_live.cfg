SPECIFICATION FairSpec
CONSTANTS
  a = a
  b = b
  Clients <- MCClients
  Owner = a
  Paths <- MCPaths
  AuthPath = 1
  Limit = 1
  MaxWrites = 2
  MaxKeys = 1
  MaxFaults = 1
  MaxStray = 1
PROPERTY
  Convergence
