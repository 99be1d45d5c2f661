\* A leader that is still starting its watcher when its lease goes stale.
CONSTANTS
  a1 = a1
  a2 = a2
  p1 = p1
  Dead = Dead
  Nobody = Nobody
  Actors <- TwoServers
  Paths <- LeaseFile
  Faults <- SlowStart
  MaxFailures = 0
SPECIFICATION LeaseSpec
CHECK_DEADLOCK FALSE
INVARIANT OneWriter
