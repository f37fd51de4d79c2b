SPECIFICATION Spec
CONSTANTS
  r1 = r1
  r2 = r2
  r3 = r3
  c1 = c1
  Slots <- MCSlots
  Requests <- MCRequests
  Codes <- MCCodes
  Window = 0
  NonceTTL = 1
  SlotTTL = 1
  CodeTTL = 1
  Never = Never
  Nothing = Nothing
  MaxTime = 2
  MaxFails = 1
SYMMETRY Symmetry
INVARIANTS ReplayRefused PutsKept KeysExpire CodesFind
PROPERTIES TakenOnce
CHECK_DEADLOCK FALSE
