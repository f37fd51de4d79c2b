SPECIFICATION Spec
CONSTANTS
  p1 = p1
  p2 = p2
  p3 = p3
  p4 = p4
  d1 = d1
  d2 = d2
  RPCs <- MCRPCs
  Devices <- MCDevices
  Nothing = Nothing
  MaxStatements = 3
  MaxAttempts = 2
SYMMETRY Symmetry
INVARIANTS NoHoles LocalBehind
PROPERTIES LogSpec
CHECK_DEADLOCK FALSE
