SPECIFICATION FairSpec
CONSTANTS
  a = a
  b = b
  l1 = l1
  l2 = l2
  l3 = l3
  t = t
  k1 = k1
  k2 = k2
  Callers <- MCCallers
  Loops <- MCLoops
  Timers <- MCNoTimers
  Keys <- MCKeys
  Installed <- MCInstalled
  NoKey = NoKey
  Nobody = Nobody
  MaxCalls = 4
  MaxFaults = 1
INVARIANTS
  SessionOK
  LockedMeansLocked
  ChecksNeedDb
  OneLoop
  CacheReadable
PROPERTIES
  AllReturn
CHECK_DEADLOCK FALSE
