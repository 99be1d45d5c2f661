---------------------------- MODULE MCFileClaim ----------------------------
(* Instances of FileClaim for TLC. *)
EXTENDS FileClaim, TLC

CONSTANTS a1, a2, a3, p1, p2

TwoActors == {a1, a2}
ThreeActors == {a1, a2, a3}
OnePath == {p1}
TwoPaths == {p1, p2}

Crashes == {"crash"}
SafeFaultsOnly == {"crash", "ioerror"}
AllFaults == {"crash", "parkloss", "ioerror"}

\* Actors are interchangeable (safety runs only).
ActorSymmetry == Permutations(Actors)
============================================================================
