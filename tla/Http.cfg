SPECIFICATION MCSpec
CONSTANTS
  None = None
  Twice = Twice
  Bad = Bad
  Launches <- MCLaunches
  Asked <- MCAsked
  Scenarios = {"headers"}
  BodyLimit = 1
  EphemeralPort = 5000
  Requests <- MCRequests
  r1 = r1
  r2 = r2
  Ids = {1, 2, 3}
  SamplingIds = {1, 2}
  CanWrite = TRUE
  MaxSessions = 1
  Ttl = 1
  MaxClock = 2
  MaxGreetings = 2
  MayStop = TRUE
SYMMETRY RequestSymmetry
INVARIANTS
  HttpTypeOK
  NewestClientSamples
  AdmittedAsAllowed
PROPERTIES
  NeverDroppedBusy
CHECK_DEADLOCK FALSE
