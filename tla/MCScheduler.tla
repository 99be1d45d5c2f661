---------------------------- MODULE MCScheduler ----------------------------
(* Instances of Scheduler for TLC. *)
EXTENDS Scheduler, TLC

CONSTANTS a1, a2, p1, p2, p3, r1, r2

TwoActors == {a1, a2}
OneActor == {a1}
SecondActor == {a2}
OneEmail == {p1}
ThreeEmails == {p1, p2, p3}
OneProc == {r1}
TwoProcs == {r1, r2}

None == {}
OwnFaults == {"crash", "recordfail", "ambiguous"}
AllFaults == {"crash", "parkloss", "ioerror", "recordfail", "ambiguous", "slow"}
ClaimErrors == {"ioerror"}
SlowImap == {"slow"}

\* Emails and processes are interchangeable (safety runs only).
PlanSymmetry == Permutations(Procs) \cup Permutations(Paths)
============================================================================
