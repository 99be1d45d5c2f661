\* A claim that cannot be taken: the check rewrites the record without it.
CONSTANTS
  a1 = a1
  a2 = a2
  p1 = p1
  p2 = p2
  p3 = p3
  r1 = r1
  r2 = r2
  Dead = Dead
  Nobody = Nobody
  Actors <- TwoActors
  Paths <- OneEmail
  Faults <- ClaimErrors
  Checkers <- TwoActors
  Cancellers <- None
  Procs <- OneProc
  MaxAttempts = 2
  MaxPending = 1
  MaxCrashes = 0
  MaxSends = 3
SPECIFICATION Spec
CHECK_DEADLOCK FALSE
PROPERTY NeverResent
