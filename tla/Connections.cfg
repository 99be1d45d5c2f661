SPECIFICATION Spec
CONSTANTS
  None = None
  Accounts <- MCAccounts
  DefaultAccount = None
  Callers <- MCCallers
  Keys <- MCKeys
  Connections <- MCConnections
  c1 = c1
  c2 = c2
  c3 = c3
  k1 = k1
  k2 = k2
  InitialBackoff = 2
  MaxBackoff = 5
  ExpiryBuffer = 1
  Lifetimes = {1, 2}
  MayClose = TRUE
INVARIANTS
  ConnTypeOK
  NoStrayLogin
PROPERTIES
  BackoffKept
  EveryCallAnswered
CHECK_DEADLOCK FALSE
