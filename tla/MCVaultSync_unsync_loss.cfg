SPECIFICATION Spec
CONSTANTS
  a = a
  b = b
  Clients <- MCOneClient
  Owner = a
  Paths <- MCPaths
  AuthPath = 1
  Limit = 2
  MaxWrites = 2
  MaxKeys = 2
  MaxFaults = 1
  MaxStray = 1
INVARIANT
  UnsyncKeepsWrites
