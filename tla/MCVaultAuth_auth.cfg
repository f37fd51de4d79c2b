SPECIFICATION Spec
CONSTANTS
  a = a
  b = b
  x = x
  y = y
  i1 = i1
  i2 = i2
  i3 = i3
  k1 = k1
  s1 = s1
  s2 = s2
  m1 = m1
  m2 = m2
  Callers <- MCCallers
  Passwords <- MCPasswords
  PwIds <- MCPwIds
  Creds <- MCCreds
  Salts <- MCSalts
  MasterKeys <- MCMasterKeys
  None = None
  MaxCalls = 5
  MaxCrashes = 2
SYMMETRY MCSymmetry
INVARIANTS
  TypeOK
  OneMasterKey
  PasswordsWork
  ListedWorks
  NotLockedOut
CHECK_DEADLOCK FALSE
