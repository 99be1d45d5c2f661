\* Every fault, also those after which two actors hold one claim; the cap.
CONSTANTS
  a1 = a1
  a2 = a2
  p1 = p1
  p2 = p2
  p3 = p3
  r1 = r1
  r2 = r2
  Dead = Dead
  Nobody = Nobody
  Actors <- TwoActors
  Paths <- ThreeEmails
  Faults <- AllFaults
  Checkers <- TwoActors
  Cancellers <- SecondActor
  Procs <- TwoProcs
  MaxAttempts = 1
  MaxPending = 1
  MaxCrashes = 2
  MaxSends = 2
SPECIFICATION Spec
ACTION_CONSTRAINT Scenario
SYMMETRY PlanSymmetry
CHECK_DEADLOCK FALSE
INVARIANT SchedTypeOK
INVARIANT ExclusiveUntilStale
INVARIANT OutcomeIsTrue
INVARIANT LiveWithinCap
