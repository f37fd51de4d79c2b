SPECIFICATION Spec
CONSTANTS
  a = a
  b = b
  l1 = l1
  l2 = l2
  l3 = l3
  t = t
  k1 = k1
  k2 = k2
  Callers <- MCCallers
  Loops <- MCLoops
  Timers <- MCTimers
  Keys <- MCKeys
  Installed <- MCInstalled
  NoKey = NoKey
  Nobody = Nobody
  MaxCalls = 2
  MaxFaults = 0
INVARIANTS
  SyncsSurvive
CHECK_DEADLOCK FALSE
