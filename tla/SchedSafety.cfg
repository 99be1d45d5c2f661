\* Deaths, failing writes and lost answers between two actors, one of which cancels.
CONSTANTS
  a1 = a1
  a2 = a2
  p1 = p1
  p2 = p2
  p3 = p3
  r1 = r1
  r2 = r2
  Dead = Dead
  Nobody = Nobody
  Actors <- TwoActors
  Paths <- OneEmail
  Faults <- OwnFaults
  Checkers <- TwoActors
  Cancellers <- SecondActor
  Procs <- OneProc
  MaxAttempts = 2
  MaxPending = 1
  MaxCrashes = 1
  MaxSends = 3
SPECIFICATION FairSpec
CHECK_DEADLOCK FALSE
INVARIANT RecordTellsAll
PROPERTY ImplementsLifecycle
PROPERTY DueIsSettled
