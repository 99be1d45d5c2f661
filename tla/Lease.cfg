\* Two servers that stall, fail and die: handovers of the writer lease.
CONSTANTS
  a1 = a1
  a2 = a2
  p1 = p1
  Dead = Dead
  Nobody = Nobody
  Actors <- TwoServers
  Paths <- LeaseFile
  Faults <- SlowAndCrash
  MaxFailures = 2
SPECIFICATION LeaseSpec
CHECK_DEADLOCK FALSE
INVARIANT LeaseTypeOK
INVARIANT OneWriterUnlessStalled
PROPERTY DisplacedStops
PROPERTY SomeoneWrites
