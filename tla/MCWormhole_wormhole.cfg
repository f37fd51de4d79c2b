SPECIFICATION Spec
CONSTANTS
  a = a
  b = b
  a1 = a1
  a2 = a2
  b1 = b1
  Users <- MCUsers
  Sessions <- MCSessions
  User <- MCUser
  Nobody = Nobody
  OneAtATime = TRUE
  MaxMessages = 2
SYMMETRY Symmetry
INVARIANTS TypeOK Paired InOrder AckedShown
CHECK_DEADLOCK FALSE
