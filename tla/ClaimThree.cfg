\* Three contenders for one stale claim.
CONSTANTS
  a1 = a1
  a2 = a2
  a3 = a3
  p1 = p1
  p2 = p2
  Dead = Dead
  Nobody = Nobody
  Actors <- ThreeActors
  Paths <- OnePath
  Faults <- Crashes
SPECIFICATION ClaimSpec
SYMMETRY ActorSymmetry
INVARIANT Exclusive
