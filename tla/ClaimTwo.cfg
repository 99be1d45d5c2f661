\* Two contenders, two paths, holders that die: the claim is exclusive.
CONSTANTS
  a1 = a1
  a2 = a2
  a3 = a3
  p1 = p1
  p2 = p2
  Dead = Dead
  Nobody = Nobody
  Actors <- TwoActors
  Paths <- TwoPaths
  Faults <- SafeFaultsOnly
SPECIFICATION ClaimSpec
 
INVARIANT Exclusive
PROPERTY ImplementsExclusiveClaim
PROPERTY ParkedClaimReturns
