------------------------- MODULE WriterLeaseProofs -------------------------
(***************************************************************************)
(* One mailbox writer per machine.  LeaseInv holds for any number of       *)
(* servers, failures and deaths; OfficeInv, which gives                    *)
(* OneWriterUnlessStalled, for two servers: a third contender breaks the   *)
(* claim itself (ClaimThree).                                              *)
(***************************************************************************)
EXTENDS WriterLease, FileClaimProofs

(***************************************************************************)
(* Types, and what a server's step and its shutdown know of its claim.     *)
(***************************************************************************)

LeaseTypes ==
  /\ step \in [Actors -> LeaseSteps]
  /\ life \in [Actors -> {"up", "gone"} \cup ShutdownSteps]
  /\ failures \in 0..MaxFailures
  /\ leading \in [Actors -> BOOLEAN] /\ writing \in [Actors -> BOOLEAN]
  /\ ticking \in [Actors -> BOOLEAN] /\ started \in [Actors -> BOOLEAN]
  /\ stalled \in [Actors -> BOOLEAN]

Acquiring == AcquireSteps \cup {"denied", "threw"}

\* A step knows whether it acquires, leads or gives back; a shutdown that has
\* come to the release has no lead left.
Knows(a) ==
  /\ step[a] = "acquire" => ~leading[a] /\ cpc[a] \in Acquiring \cup {"held"}
  /\ cpc[a] \in Acquiring => step[a] = "acquire"
  /\ cpc[a] = "held" => step[a] = "acquire" \/ leading[a]
  /\ cpc[a] \in {"release", "unlink"} => Halted(a) /\ ~leading[a]
  /\ step[a] = "giveback" => ~leading[a] /\ cpc[a] \in {"release", "unlink", "idle"}
  /\ step[a] = "start" => leading[a] /\ life[a] \in {"up", "halt"}
  /\ step[a] = "logout" => ~leading[a]
  /\ leading[a] => cpc[a] = "held" /\ step[a] \in {"none", "start", "check", "touch"}
  /\ writing[a] => leading[a]
  /\ life[a] \in {"logout", "release", "close", "gone"} => ~writing[a]
  /\ life[a] \in {"release", "close", "gone"} => ~leading[a]
  /\ life[a] = "gone" => step[a] = "none" /\ cpc[a] = "idle" /\ ~ticking[a]

LeaseInv == ClaimTypeOK /\ LeaseTypes /\ \A a \in Actors : Knows(a)

\* It implies the type invariant the runs check.
LEMMA LeaseParts == LeaseInv => LeaseTypeOK
BY DEF LeaseInv, LeaseTypes, Knows, LeaseTypeOK, LeaseSteps

\* Nothing runs before the first start.
LEMMA LeaseInvInit == LeaseInit => LeaseInv
<1> SUFFICES ASSUME LeaseInit PROVE LeaseInv
  OBVIOUS
<1>1. ClaimTypeOK
  BY TypeInit DEF LeaseInit
<1>2. LeaseTypes
  BY FailuresCounted DEF LeaseInit, LeaseTypes, LeaseSteps, ShutdownSteps
<1>3. \A a \in Actors : Knows(a)
  BY DEF LeaseInit, ClaimInit, Knows, Acquiring, AcquireSteps, Halted
<1>4. QED
  BY <1>1, <1>2, <1>3 DEF LeaseInv

\* exit() leaves on disk what it finds there: the claim state stays well typed.
LEMMA LeaseClaimTypes == LeaseInv /\ [LeaseNext]_allVars => ClaimTypeOK'
<1> SUFFICES ASSUME LeaseInv, [LeaseNext]_allVars PROVE ClaimTypeOK'
  OBVIOUS
<1>0. ClaimTypeOK
  BY DEF LeaseInv
<1>1. ASSUME [LateNext]_claimVars PROVE ClaimTypeOK'
  BY <1>0, <1>1, TypeStep
<1>2. ASSUME NEW a \in Actors, ActorStep(a) PROVE ClaimTypeOK'
  BY <1>1, <1>2 DEF LateNext
<1>3. ASSUME NEW a \in Actors, EndClaim(a, lock), UNCHANGED <<cpath, wentStale>>
      PROVE  ClaimTypeOK'
  BY <1>0, <1>3, EndClaimTyped DEF ClaimTypeOK
<1>4. ASSUME NEW a \in Actors, Tick(a) \/ Follow(a) \/ Lead(a) \/ RunLeaseClaim(a) \/ LeaseThrows(a)
                               \/ ReleaseLease(a) \/ Die(a)
      PROVE  ClaimTypeOK'
  BY <1>1, <1>2, <1>4
     DEF Tick, Follow, Lead, RunLeaseClaim, LeaseThrows, ReleaseLease, Die, ActorStep
<1>5. ASSUME NEW a \in Actors, StillHeld(a) PROVE ClaimTypeOK'
  BY <1>1, <1>3, <1>5 DEF StillHeld, claimVars
<1>6. ASSUME NEW a \in Actors, Exit(a) \/ Deadline(a) PROVE ClaimTypeOK'
  BY <1>3, <1>6 DEF Exit, Deadline
<1>7. ASSUME NEW a \in Actors, Touch(a) PROVE ClaimTypeOK'
  <2>1. lock' \in [Paths -> File]
    BY <1>0, <1>7 DEF Touch, ClaimTypeOK, File
  <2>2. QED
    BY <1>0, <1>7, <2>1 DEF Touch, ClaimTypeOK
<1>8. ASSUME NEW a \in Actors, GivenBack(a) \/ WritersSettled(a) \/ StepEnded(a) \/ StopWriters(a)
                               \/ Released(a) \/ Start(a) \/ Halt(a)
      PROVE  ClaimTypeOK'
  BY <1>1, <1>8 DEF GivenBack, WritersSettled, StepEnded, StopWriters, Released, Start, Halt
<1>9. ASSUME NEW p \in Paths, LeaseExpires(p) PROVE ClaimTypeOK'
  BY <1>1, <1>9 DEF LeaseExpires, LateNext, GoStale
<1>10. CASE UNCHANGED allVars
  BY <1>1, <1>10 DEF allVars
<1>11. QED
  BY <1>4, <1>5, <1>6, <1>7, <1>8, <1>9, <1>10 DEF LeaseNext, StepOf, ShutdownStep

\* The variables of the servers keep their types.
LEMMA LeaseTypesStep == LeaseTypes /\ [LeaseNext]_allVars => LeaseTypes'
<1> SUFFICES ASSUME LeaseTypes, [LeaseNext]_allVars PROVE LeaseTypes'
  OBVIOUS
<1> USE FailuresCounted DEF LeaseTypes, LeaseSteps, ShutdownSteps, Enter, Advance, Set
<1>1. ASSUME NEW a \in Actors, Tick(a) \/ Follow(a) \/ GivenBack(a) \/ WritersSettled(a) \/ Touch(a)
      PROVE  LeaseTypes'
  BY <1>1 DEF Tick, Follow, GivenBack, WritersSettled, Touch
<1>2. ASSUME NEW a \in Actors, Lead(a) \/ StillHeld(a) PROVE LeaseTypes'
  BY <1>2 DEF Lead, StillHeld
<1>3. ASSUME NEW a \in Actors, ShutdownStep(a) /\ ~Exit(a) PROVE LeaseTypes'
  BY <1>3 DEF ShutdownStep, StepEnded, StopWriters, ReleaseLease, Released
<1>4. ASSUME NEW a \in Actors, Vanish(a) PROVE LeaseTypes'
  BY <1>4 DEF Vanish
<1>5. ASSUME NEW a \in Actors, Exit(a) \/ Deadline(a) \/ Die(a) PROVE LeaseTypes'
  BY <1>4, <1>5 DEF Exit, Deadline, Die
<1>6. ASSUME NEW a \in Actors, Start(a) \/ Halt(a) PROVE LeaseTypes'
  BY <1>6 DEF Start, Halt
<1>12. ASSUME NEW a \in Actors, LeaseThrows(a) PROVE LeaseTypes'
  <2>1. failures' \in 0..MaxFailures
    BY <1>12 DEF LeaseThrows
  <2>2. QED
    BY <1>12, <2>1 DEF LeaseThrows
<1>7. ASSUME UNCHANGED leaseVars PROVE LeaseTypes'
  BY <1>7 DEF leaseVars
<1>8. ASSUME NEW a \in Actors, RunLeaseClaim(a) PROVE LeaseTypes'
  BY <1>7, <1>8 DEF RunLeaseClaim
<1>9. ASSUME NEW p \in Paths, LeaseExpires(p) PROVE LeaseTypes'
  BY <1>9 DEF LeaseExpires
<1>10. CASE UNCHANGED allVars
  BY <1>7, <1>10 DEF allVars
<1>11. QED
  BY <1>1, <1>2, <1>3, <1>5, <1>6, <1>8, <1>9, <1>10, <1>12 DEF LeaseNext, StepOf, ShutdownStep

\* What a step of one server leaves alone.
OthersStay(a) ==
  \A b \in Actors \ {a} :
    UNCHANGED <<cpc[b], step[b], leading[b], writing[b], ticking[b], life[b]>>

\* A server knows what it did before if nothing of its own changed.
LEMMA OthersKnow ==
  ASSUME LeaseInv, NEW a \in Actors, OthersStay(a), Knows(a)'
  PROVE  \A b \in Actors : Knows(b)'
<1>1. ASSUME NEW b \in Actors \ {a} PROVE Knows(b)'
  BY DEF LeaseInv, OthersStay, Knows, Halted
<1>2. QED
  BY <1>1

\* Every step of a server's own leaves the others alone.
LEMMA OneServerMoves ==
  ASSUME LeaseInv, NEW a \in Actors,
         \/ StepOf(a) \/ ShutdownStep(a) \/ Start(a) \/ Halt(a) \/ Deadline(a)
         \/ LeaseThrows(a) \/ Die(a)
  PROVE  OthersStay(a)
<1> USE DEF LeaseInv, LeaseTypes, ClaimTypeOK
<1>1. \A b \in Actors \ {a} : cpc'[b] = cpc[b]
  BY DEF StepOf, Tick, Follow, Lead, GivenBack, WritersSettled, StillHeld, Touch, RunLeaseClaim,
         ShutdownStep, StepEnded, StopWriters, ReleaseLease, Released, Exit, Start, Halt, Deadline,
         LeaseThrows, Die, ClaimStep, Create, Stat, Recreate, Park, Restore, Take, ReleaseRead,
         ReleaseUnlink, CreateClaim, EndClaim, Goto, Request, GiveUp, Release, AcquireThrows,
         ReleaseThrows, ClaimCrash, claimVars
<1>2. \A b \in Actors \ {a} : step'[b] = step[b] /\ leading'[b] = leading[b]
  BY DEF StepOf, Tick, Follow, Lead, GivenBack, WritersSettled, StillHeld, Touch, RunLeaseClaim,
         ShutdownStep, StepEnded, StopWriters, ReleaseLease, Released, Exit, Start, Halt, Deadline,
         LeaseThrows, Die, Vanish, Enter, Set, leaseVars
<1>3. \A b \in Actors \ {a} : writing'[b] = writing[b] /\ ticking'[b] = ticking[b] /\ life'[b] = life[b]
  BY DEF StepOf, Tick, Follow, Lead, GivenBack, WritersSettled, StillHeld, Touch, RunLeaseClaim,
         ShutdownStep, StepEnded, StopWriters, ReleaseLease, Released, Exit, Start, Halt, Deadline,
         LeaseThrows, Die, Vanish, Advance, Set, leaseVars
<1>4. QED
  BY <1>1, <1>2, <1>3 DEF OthersStay

\* A server that vanishes, its claim ended, knows that it has none.
LEMMA VanishedKnows ==
  ASSUME LeaseInv, NEW a \in Actors, Vanish(a), cpc'[a] = "idle"
  PROVE  Knows(a)'
BY DEF LeaseInv, LeaseTypes, Vanish, Advance, Enter, Knows, Acquiring, AcquireSteps, Halted

\* Each step leaves its server knowing what it holds.
LEMMA KnowsStep ==
  ASSUME LeaseInv, NEW a \in Actors,
         \/ StepOf(a) \/ ShutdownStep(a) \/ Start(a) \/ Halt(a) \/ Deadline(a)
         \/ LeaseThrows(a) \/ Die(a)
  PROVE  Knows(a)'
<1> USE DEF LeaseInv, LeaseTypes, ClaimTypeOK
<1>0. Knows(a)
  OBVIOUS
<1>1. ASSUME NEW files, EndClaim(a, files) PROVE cpc'[a] = "idle"
  BY <1>1 DEF EndClaim, Goto
<1>2. CASE Tick(a)
  BY <1>0, <1>2 DEF Tick, Request, Goto, Enter, Knows, Acquiring, AcquireSteps, Halted, claimVars, Alive
<1>3. CASE Follow(a) \/ GivenBack(a) \/ WritersSettled(a)
  BY <1>0, <1>3 DEF Follow, GiveUp, GivenBack, WritersSettled, Goto, Enter, Knows, Acquiring,
                    AcquireSteps, Halted, claimVars
<1>4. CASE Lead(a)
  BY <1>0, <1>4 DEF Lead, Release, Goto, Enter, Set, Knows, Acquiring, AcquireSteps, Halted, claimVars
<1>5. CASE StillHeld(a)
  BY <1>0, <1>1, <1>5 DEF StillHeld, Enter, Set, Knows, Acquiring, AcquireSteps, Halted
<1>6. CASE Touch(a)
  BY <1>0, <1>6 DEF Touch, Enter, Knows, Halted
<1>7. CASE RunLeaseClaim(a)
  <2>1. \/ cpc[a] \in AcquireSteps /\ cpc'[a] \in Acquiring \cup {"held"}
        \/ cpc[a] \in {"release", "unlink"} /\ cpc'[a] \in {"unlink", "idle"}
    BY <1>1, <1>7
       DEF RunLeaseClaim, ClaimStep, Create, Stat, Recreate, Park, Restore, Take, ReleaseRead,
           ReleaseUnlink, CreateClaim, Goto, AcquireSteps, Acquiring
  <2>2. QED
    BY <1>0, <1>7, <2>1 DEF RunLeaseClaim, leaseVars, Knows, Acquiring, AcquireSteps, Halted
<1>8. CASE StepEnded(a) \/ StopWriters(a) \/ Released(a)
  BY <1>0, <1>8 DEF StepEnded, StopWriters, Released, Advance, Set, Knows, Halted, claimVars
<1>9. CASE ReleaseLease(a)
  BY <1>0, <1>9 DEF ReleaseLease, Release, Goto, Advance, Set, Knows, Acquiring, AcquireSteps, Halted,
                    claimVars
<1>10. CASE Exit(a) \/ Deadline(a)
  BY <1>1, <1>10, VanishedKnows DEF Exit, Deadline
<1>11. CASE Start(a) \/ Halt(a)
  BY <1>0, <1>11 DEF Start, Halt, Advance, Set, Knows, Halted, Alive, claimVars
<1>12. CASE LeaseThrows(a)
  <2>1. \/ cpc[a] \in AcquireSteps /\ cpc'[a] = "threw"
        \/ cpc[a] \in {"release", "unlink"} /\ cpc'[a] = "idle"
    BY <1>1, <1>12 DEF LeaseThrows, AcquireThrows, ReleaseThrows, Goto, AcquireSteps
  <2>2. UNCHANGED <<step, leading, writing, ticking, life>>
    BY <1>12 DEF LeaseThrows
  <2>3. QED
    BY <1>0, <2>1, <2>2 DEF Knows, Acquiring, AcquireSteps, Halted
<1>13. CASE Die(a)
  BY <1>1, <1>13, VanishedKnows DEF Die, ClaimCrash, claimVars
<1>14. QED
  BY <1>2, <1>3, <1>4, <1>5, <1>6, <1>7, <1>8, <1>9, <1>10, <1>11, <1>12, <1>13
     DEF StepOf, ShutdownStep

\* Every step of the servers, of time and of faults keeps the invariant.
LEMMA LeaseInvStep == LeaseInv /\ [LeaseNext]_allVars => LeaseInv'
<1> SUFFICES ASSUME LeaseInv, [LeaseNext]_allVars PROVE LeaseInv'
  OBVIOUS
<1>1. ClaimTypeOK' /\ LeaseTypes'
  BY LeaseClaimTypes, LeaseTypesStep DEF LeaseInv
<1>2. ASSUME UNCHANGED <<cpc, step, leading, writing, ticking, life>>
      PROVE  \A a \in Actors : Knows(a)'
  BY <1>2 DEF LeaseInv, Knows, Halted
<1>3. ASSUME NEW p \in Paths, LeaseExpires(p) PROVE \A a \in Actors : Knows(a)'
  BY <1>2, <1>3 DEF LeaseExpires, GoStale
<1>4. CASE UNCHANGED allVars
  BY <1>1, <1>2, <1>4 DEF allVars, claimVars, leaseVars, LeaseInv
<1>5. ASSUME NEW a \in Actors,
             \/ StepOf(a) \/ ShutdownStep(a) \/ Start(a) \/ Halt(a) \/ Deadline(a)
             \/ LeaseThrows(a) \/ Die(a)
      PROVE  \A b \in Actors : Knows(b)'
  BY <1>5, KnowsStep, OneServerMoves, OthersKnow
<1>6. QED
  BY <1>1, <1>3, <1>4, <1>5 DEF LeaseNext, LeaseInv

\* A server's step, its writers and its claim agree, for any number of servers
\* and any failures, through halts, deadlines and deaths.
THEOREM LeaseTypeCorrect == LeaseSpec => []LeaseTypeOK
  BY LeaseInvInit, LeaseInvStep, LeaseParts, PTL DEF LeaseSpec

(***************************************************************************)
(* Ownership.  Past are the servers whose lease went stale under their     *)
(* lead, or who have shut down their lead for good.                        *)
(***************************************************************************)

Late(a) == leading[a] /\ stalled[a]
Retired(a) == Halted(a) /\ ~leading[a]

RetiredServers == {a \in Actors : Retired(a)}
PastServers == {a \in Actors : Late(a) \/ Retired(a)}

\* The lock of a holder who is not past is at its path, or parked by the other
\* server, or was deleted by a retired one that gave back what it no longer had
\* (InOffice); only what the past left is old (OnlyPastIsOld); a thief restores
\* what is young and replaces what the past left (Thieves).
InOffice(past, retired) ==
  \A a \in Actors, p \in Paths :
    Holds(a, p) /\ a \notin past /\ lock[p].token # a =>
      \A b \in Actors : b # a => ParkedBy(b, a, p) \/ b \in retired
OnlyPastIsOld(past) ==
  \A p \in Paths :
    /\ lock[p].old => lock[p].token \in past \cup {Dead}
    /\ lock[p].token = Nobody => lock[p] = Absent
Thieves(past) ==
  \A a \in Actors :
    /\ cpc[a] = "restore" => parked[a].token # Nobody /\ ~parked[a].old
    /\ cpc[a] = "take" => parked[a].token \in past \cup {Dead}
Office(past, retired) == InOffice(past, retired) /\ OnlyPastIsOld(past) /\ Thieves(past)

OfficeInv == Office(PastServers, RetiredServers)

\* Whoever joins the past, or retires, only loosens what is asked.
LEMMA OfficeLoosens ==
  ASSUME NEW S, NEW R, NEW T, NEW Q, S \subseteq T, R \subseteq Q, Office(S, R)'
  PROVE  Office(T, Q)'
BY DEF Office, InOffice, OnlyPastIsOld, Thieves

\* However the claim of a ends, nobody else loses a lock, unless a had retired.
LEMMA OfficeEndClaim ==
  ASSUME TwoContenders, ClaimTypeOK, NEW S \in SUBSET Actors, NEW R, Office(S, R),
         NEW a \in Actors, NEW T, S \subseteq T \cup {a},
         NEW files \in [Paths -> File], EndClaim(a, files), cpc[a] # "restore",
         UNCHANGED cpath,
         \A p \in Paths : files[p] = lock[p] \/ (files[p] = Absent /\ a \in R)
  PROVE  Office(T, R)'
<1> USE TokensDistinct, FileFields DEF ClaimTypeOK, HoldSteps, Goto, Holds
<1>1. \A p \in Paths :
        \/ lock'[p] = Disowned(lock[p], a)
        \/ a \in R /\ lock'[p] = Absent
  BY DisownedAbsent DEF EndClaim
<1>2. \A p \in Paths :
        /\ lock'[p] # Absent => lock'[p].old = lock[p].old
        /\ lock'[p].token \in {lock[p].token, Dead, Nobody} \ {a}
        /\ lock'[p].token = Nobody /\ lock[p].token # Nobody => lock'[p] = Absent
        /\ lock[p].token # a /\ a \notin R => lock'[p] = lock[p]
        /\ lock[p].token # a => lock'[p] = lock[p] \/ lock'[p] = Absent
        /\ lock[p].token = Dead => lock'[p].token = Dead \/ lock'[p] = Absent
        /\ lock[p] = Absent => lock'[p] = Absent
  BY <1>1, DisownedFields, DisownedAbsent
<1>3. \A b \in Actors :
        b # a => /\ parked'[b].old = parked[b].old
                 /\ parked'[b].token \in {parked[b].token, Dead} \ {a}
                 /\ parked[b].token # a => parked'[b] = parked[b]
                 /\ parked[b].token = Nobody <=> parked'[b].token = Nobody
  BY DisownedFields DEF EndClaim
<1>4. cpc' = [cpc EXCEPT ![a] = "idle"]
  BY DEF EndClaim
<1>5. InOffice(T, R)'
  <2> SUFFICES ASSUME NEW b \in Actors, NEW p \in Paths, NEW c \in Actors,
                      Holds(b, p)', b \notin T, lock'[p].token # b, c # b, c \notin R
               PROVE  ParkedBy(c, b, p)'
    BY DEF InOffice
  <2>1. b # a /\ Holds(b, p) /\ b \notin S
    BY <1>4
  <2>2. CASE lock[p].token = b
    <3>1. a \in R /\ lock'[p] = Absent
      BY <1>2, <2>1, <2>2
    <3>2. QED
      BY <3>1, <2>1 DEF TwoContenders
  <2>3. QED
    BY <1>2, <1>3, <1>4, <2>1, <2>2 DEF Office, InOffice, ParkedBy
<1>6. OnlyPastIsOld(T)'
  BY <1>2 DEF Office, OnlyPastIsOld
<1>7. Thieves(T)'
  BY <1>3, <1>4 DEF Office, Thieves
<1>8. QED
  BY <1>5, <1>6, <1>7 DEF Office

\* No other step of a server's claim takes a lock from a server in office.
LEMMA OfficeActorStep ==
  ASSUME TwoContenders, SafeFaults, ClaimTypeOK, NEW S \in SUBSET Actors, NEW R, Office(S, R),
         NEW a \in Actors, ActorStep(a), cpc[a] = "unlink" => a \in R
  PROVE  Office(S, R)'
<1> USE TokensDistinct, FileFields DEF ClaimTypeOK, HoldSteps, Goto, Holds, Office
<1>1. ASSUME NEW q \in Paths, Request(a, q) PROVE Office(S, R)'
  BY <1>1 DEF InOffice, OnlyPastIsOld, Thieves, ParkedBy, Request
<1>2. CASE Create(a) \/ Recreate(a)
  <2>1. InOffice(S, R)'
    BY <1>2 DEF InOffice, ParkedBy, Create, Recreate, CreateClaim, TwoContenders
  <2>2. OnlyPastIsOld(S)'
    BY <1>2 DEF OnlyPastIsOld, Create, Recreate, CreateClaim
  <2>3. Thieves(S)'
    BY <1>2 DEF Thieves, Create, Recreate, CreateClaim
  <2>4. QED
    BY <2>1, <2>2, <2>3
<1>3. CASE Stat(a)
  BY <1>3 DEF InOffice, OnlyPastIsOld, Thieves, ParkedBy, Stat
<1>4. CASE Park(a)
  <2>1. InOffice(S, R)'
    BY <1>4 DEF InOffice, OnlyPastIsOld, ParkedBy, Park, TwoContenders
  <2>2. OnlyPastIsOld(S)'
    BY <1>4 DEF OnlyPastIsOld, Park
  <2>3. Thieves(S)'
    BY <1>4 DEF OnlyPastIsOld, Thieves, Park
  <2>4. QED
    BY <2>1, <2>2, <2>3
<1>5. CASE Restore(a)
  <2>1. InOffice(S, R)'
    BY <1>5 DEF InOffice, ParkedBy, Restore, TwoContenders
  <2>2. OnlyPastIsOld(S)'
    BY <1>5 DEF OnlyPastIsOld, Thieves, Restore
  <2>3. Thieves(S)'
    BY <1>5 DEF Thieves, Restore
  <2>4. QED
    BY <2>1, <2>2, <2>3
<1>6. CASE Take(a)
  <2>1. InOffice(S, R)'
    BY <1>6 DEF InOffice, ParkedBy, Take, CreateClaim, TwoContenders
  <2>2. OnlyPastIsOld(S)'
    BY <1>6 DEF OnlyPastIsOld, Take, CreateClaim
  <2>3. Thieves(S)'
    BY <1>6 DEF Thieves, Take, CreateClaim
  <2>4. QED
    BY <2>1, <2>2, <2>3
<1>7. CASE GiveUp(a) \/ Release(a)
  BY <1>7 DEF InOffice, OnlyPastIsOld, Thieves, ParkedBy, GiveUp, Release
<1>8. ASSUME EndClaim(a, lock), cpc[a] # "restore", UNCHANGED cpath PROVE Office(S, R)'
  BY <1>8, OfficeEndClaim
<1>9. CASE ReleaseRead(a)
  <2>1. CASE EndClaim(a, lock)
    BY <1>8, <1>9, <2>1 DEF ReleaseRead
  <2>2. CASE cpc' = [cpc EXCEPT ![a] = "unlink"] /\ UNCHANGED <<lock, parked>>
    BY <1>9, <2>2 DEF ReleaseRead, InOffice, OnlyPastIsOld, Thieves, ParkedBy
  <2>3. QED
    BY <1>9, <2>1, <2>2 DEF ReleaseRead
<1>10. CASE ReleaseUnlink(a)
  <2> DEFINE files == [lock EXCEPT ![cpath[a]] = Absent]
  <2>1. /\ files \in [Paths -> File]
        /\ \A p \in Paths : files[p] = lock[p] \/ (files[p] = Absent /\ a \in R)
    BY <1>10, AbsentIsFile DEF ReleaseUnlink
  <2>2. EndClaim(a, files) /\ cpc[a] # "restore" /\ UNCHANGED cpath
    BY <1>10 DEF ReleaseUnlink
  <2> HIDE DEF files, Office, ClaimTypeOK, Holds
  <2>3. QED
    BY <2>1, <2>2, OfficeEndClaim
<1>11. CASE Renew(a)
  <2>1. \A p \in Paths : lock'[p].token = lock[p].token /\ (lock'[p].old => lock[p].old)
                         /\ (lock[p] = Absent => lock'[p] = Absent)
    BY <1>11, AgedFields DEF Renew
  <2>2. QED
    BY <1>11, <2>1 DEF Renew, InOffice, OnlyPastIsOld, Thieves, ParkedBy
<1>12. CASE ClaimCrash(a) \/ ReleaseThrows(a)
  BY <1>8, <1>12 DEF ClaimCrash, ReleaseThrows, SafeFaults
<1>13. CASE AcquireThrows(a)
  <2>0. ~Fresh(Dead).old /\ Fresh(Dead).token = Dead
    BY DEF Fresh
  <2>1. InOffice(S, R)'
    BY <1>13 DEF InOffice, ParkedBy, AcquireThrows, SafeFaults, TwoContenders
  <2>2. OnlyPastIsOld(S)'
    BY <1>13, <2>0 DEF OnlyPastIsOld, AcquireThrows
  <2>3. Thieves(S)'
    BY <1>13 DEF Thieves, AcquireThrows
  <2>4. QED
    BY <2>1, <2>2, <2>3
<1>14. QED
  BY <1>1, <1>2, <1>3, <1>4, <1>5, <1>6, <1>7, <1>9, <1>10, <1>11, <1>12, <1>13
     DEF ActorStep, ClaimStep

\* Nor does time, or a touch, if what gets old is the past's.
LEMMA OfficeAges ==
  ASSUME ClaimTypeOK, NEW S \in SUBSET Actors, NEW R, Office(S, R), NEW q \in Paths,
         UNCHANGED <<parked, cpc, cpath>>, NEW old \in BOOLEAN,
         lock' = [lock EXCEPT ![q].old = old],
         old => lock[q].token \in S \cup {Dead} /\ lock[q] # Absent
  PROVE  Office(S, R)'
<1> USE TokensDistinct, FileFields DEF ClaimTypeOK, Holds
<1>1. \A p \in Paths :
        /\ lock'[p].token = lock[p].token
        /\ lock'[p].old => lock[p].old \/ lock[p].token \in S \cup {Dead}
        /\ lock[p] = Absent => lock'[p] = Absent
  <2>1. \A p \in Paths : p # q => lock'[p] = lock[p]
    OBVIOUS
  <2>2. lock'[q] = [lock[q] EXCEPT !.old = old]
    OBVIOUS
  <2>3. lock'[q].token = lock[q].token /\ lock'[q].old = old
    BY <2>2, AgedFields
  <2>4. lock[q] = Absent => lock'[q] = Absent
    BY <2>2 DEF Absent
  <2>5. QED
    BY <2>1, <2>3, <2>4
<1>2. InOffice(S, R)'
  BY <1>1 DEF Office, InOffice, ParkedBy
<1>3. OnlyPastIsOld(S)'
  BY <1>1 DEF Office, OnlyPastIsOld
<1>4. Thieves(S)'
  BY DEF Office, Thieves
<1>5. QED
  BY <1>2, <1>3, <1>4 DEF Office

\* Nobody comes back from the shutdown of a lead, and a late lead ends in one
\* or in a step that finds the lock lost.
LEMMA PastGrows ==
  ASSUME LeaseInv, [LeaseNext]_allVars
  PROVE  /\ RetiredServers \subseteq RetiredServers'
         /\ \A b \in PastServers : b \in PastServers' \/ (StillHeld(b) /\ EndClaim(b, lock))
<1> USE DEF LeaseInv, LeaseTypes
<1> DEFINE Stays(b) ==
      /\ Retired(b) => Retired(b)'
      /\ Late(b) => Late(b)' \/ Retired(b)' \/ (StillHeld(b) /\ EndClaim(b, lock))
<1>0. SUFFICES \A b \in Actors : Stays(b)
  BY DEF RetiredServers, PastServers
<1>1. ASSUME NEW a \in Actors,
             \/ Tick(a) \/ Follow(a) \/ GivenBack(a) \/ WritersSettled(a) \/ Touch(a)
             \/ RunLeaseClaim(a) \/ LeaseThrows(a) \/ Start(a)
             \/ Halt(a) \/ StepEnded(a) \/ StopWriters(a) \/ Released(a)
      PROVE  \A b \in Actors : Stays(b)
  <2>1. UNCHANGED <<leading, stalled>>
    BY <1>1 DEF Tick, Follow, GivenBack, WritersSettled, Touch, RunLeaseClaim, LeaseThrows, Start,
                Halt, StepEnded, StopWriters, Released, leaseVars
  <2>2. \A b \in Actors : Halted(b) => Halted(b)'
    BY <1>1 DEF Tick, Follow, GivenBack, WritersSettled, Touch, RunLeaseClaim, LeaseThrows, Start,
                Halt, StepEnded, StopWriters, Released, leaseVars, Advance, Halted
  <2>3. QED
    BY <2>1, <2>2 DEF Retired, Late
<1>2. ASSUME NEW a \in Actors, Lead(a) PROVE \A b \in Actors : Stays(b)
  BY <1>2 DEF Lead, Set, Retired, Late, Halted, Knows
<1>3. ASSUME NEW a \in Actors, StillHeld(a) PROVE \A b \in Actors : Stays(b)
  <2>1. \A b \in Actors : Halted(b)' = Halted(b) /\ stalled'[b] = stalled[b]
    BY <1>3 DEF StillHeld, Halted
  <2>2. \A b \in Actors : leading'[b] => leading[b]
    BY <1>3 DEF StillHeld, Set
  <2>3. \A b \in Actors \ {a} : leading'[b] = leading[b]
    BY <1>3 DEF StillHeld, Set
  <2>4. leading'[a] = leading[a] \/ EndClaim(a, lock)
    BY <1>3 DEF StillHeld
  <2>5. QED
    BY <1>3, <2>1, <2>2, <2>3, <2>4 DEF Retired, Late
<1>4. ASSUME NEW a \in Actors, ReleaseLease(a) PROVE \A b \in Actors : Stays(b)
  <2>1. leading' = [leading EXCEPT ![a] = FALSE] /\ life' = [life EXCEPT ![a] = "release"]
    BY <1>4 DEF ReleaseLease, Set, Advance
  <2>2. Retired(a)'
    BY <2>1 DEF Retired, Halted
  <2>3. \A b \in Actors \ {a} : leading'[b] = leading[b] /\ life'[b] = life[b] /\ stalled'[b] = stalled[b]
    BY <1>4, <2>1 DEF ReleaseLease
  <2>4. QED
    BY <2>2, <2>3 DEF Retired, Late, Halted
<1>5. ASSUME NEW a \in Actors, Vanish(a) PROVE \A b \in Actors : Stays(b)
  <2>1. leading' = [leading EXCEPT ![a] = FALSE] /\ life' = [life EXCEPT ![a] = "gone"]
    BY <1>5 DEF Vanish, Advance
  <2>2. Retired(a)'
    BY <2>1 DEF Retired, Halted
  <2>3. \A b \in Actors \ {a} : leading'[b] = leading[b] /\ life'[b] = life[b] /\ stalled'[b] = stalled[b]
    BY <1>5, <2>1 DEF Vanish
  <2>4. QED
    BY <2>2, <2>3 DEF Retired, Late, Halted
<1>6. ASSUME NEW a \in Actors, Exit(a) \/ Deadline(a) \/ Die(a) PROVE \A b \in Actors : Stays(b)
  BY <1>5, <1>6 DEF Exit, Deadline, Die
<1>7. ASSUME NEW p \in Paths, LeaseExpires(p) PROVE \A b \in Actors : Stays(b)
  BY <1>7 DEF LeaseExpires, Retired, Late, Halted
<1>8. CASE UNCHANGED allVars
  BY <1>8 DEF allVars, leaseVars, Retired, Late, Halted
<1>9. QED
  BY <1>1, <1>2, <1>3, <1>4, <1>6, <1>7, <1>8 DEF LeaseNext, StepOf, ShutdownStep

\* No step of either server, of its shutdown, of time or of a fault takes the
\* lock from a server in office.
LEMMA OfficeStep ==
  ASSUME TwoContenders, SafeFaults, LeaseInv, OfficeInv, [LeaseNext]_allVars
  PROVE  OfficeInv'
<1>1. PICK S \in SUBSET Actors, R \in SUBSET Actors : S = PastServers /\ R = RetiredServers
  BY DEF PastServers, RetiredServers
<1>2. Office(S, R)
  BY <1>1 DEF OfficeInv
<1>3. PICK T \in SUBSET Actors, Q \in SUBSET Actors : T = PastServers' /\ Q = RetiredServers'
  BY DEF PastServers, RetiredServers
<1>4. R \subseteq Q /\ \A b \in S : b \in T \/ (StillHeld(b) /\ EndClaim(b, lock))
  BY <1>1, <1>3, PastGrows
<1>5. ClaimTypeOK
  BY DEF LeaseInv
<1>6. SUFFICES Office(T, Q)'
  BY <1>3 DEF OfficeInv
<1>7. ASSUME Office(T, R)' PROVE Office(T, Q)'
  BY <1>4, <1>7, OfficeLoosens
<1>8. ASSUME Office(S, R)', S \subseteq T PROVE Office(T, Q)'
  BY <1>4, <1>8, OfficeLoosens
<1>9. \A a \in Actors : cpc[a] = "unlink" => a \in R
  BY <1>1 DEF LeaseInv, Knows, RetiredServers, Retired
<1>10. ASSUME NEW a \in Actors, ActorStep(a) PROVE Office(S, R)'
  BY <1>2, <1>5, <1>9, <1>10, OfficeActorStep
<1>11. ASSUME UNCHANGED claimVars PROVE Office(S, R)'
  BY <1>2, <1>11
     DEF claimVars, Office, InOffice, OnlyPastIsOld, Thieves, ParkedBy, Holds
<1>12. ASSUME NEW b \in S, StillHeld(b), EndClaim(b, lock) PROVE Office(T, Q)'
  <2>1. S \subseteq T \cup {b}
    <3>1. \A a \in Actors \ {b} : StillHeld(a) /\ EndClaim(a, lock) => FALSE
      BY <1>12 DEF StillHeld, Enter, LeaseInv, LeaseTypes
    <3>2. QED
      BY <1>4, <3>1
  <2>2. cpc[b] # "restore" /\ UNCHANGED cpath
    BY <1>12 DEF StillHeld, LeaseInv, Knows, Acquiring, AcquireSteps
  <2>3. lock \in [Paths -> File]
    BY <1>5 DEF ClaimTypeOK
  <2>4. Office(T, R)'
    BY <1>2, <1>5, <1>12, <2>1, <2>2, <2>3, OfficeEndClaim
  <2>5. QED
    BY <1>7, <2>4
<1>13. CASE ~(S \subseteq T)
  BY <1>4, <1>12, <1>13
<1> SUFFICES ASSUME S \subseteq T PROVE Office(T, Q)'
  BY <1>13
<1>14. ASSUME NEW a \in Actors, EndClaim(a, lock), cpc[a] # "restore", UNCHANGED cpath
       PROVE  Office(S, R)'
  <2>1. lock \in [Paths -> File]
    BY <1>5 DEF ClaimTypeOK
  <2>2. QED
    BY <1>2, <1>5, <1>14, <2>1, OfficeEndClaim
<1>15. ASSUME NEW a \in Actors,
              \/ Tick(a) \/ Follow(a) \/ Lead(a) \/ RunLeaseClaim(a) \/ LeaseThrows(a)
              \/ ReleaseLease(a) \/ Die(a)
       PROVE  Office(S, R)'
  BY <1>10, <1>11, <1>15
     DEF Tick, Follow, Lead, RunLeaseClaim, LeaseThrows, ReleaseLease, Die, ActorStep
<1>16. ASSUME NEW a \in Actors, StillHeld(a) PROVE Office(S, R)'
  <2>1. CASE UNCHANGED claimVars
    BY <1>11, <2>1
  <2>2. CASE EndClaim(a, lock)
    <3>1. cpc[a] # "restore" /\ UNCHANGED cpath
      BY <1>16 DEF StillHeld, LeaseInv, Knows, Acquiring, AcquireSteps
    <3>2. QED
      BY <1>14, <2>2, <3>1
  <2>3. QED
    BY <1>16, <2>1, <2>2 DEF StillHeld, claimVars
<1>17. ASSUME NEW a \in Actors, Touch(a) PROVE Office(S, R)'
  <2>1. cpath[a] \in Paths
    BY <1>5 DEF ClaimTypeOK
  <2>2. lock' = [lock EXCEPT ![cpath[a]].old = FALSE] /\ UNCHANGED <<parked, cpc, cpath>>
    BY <1>17 DEF Touch
  <2>3. QED
    BY <1>2, <1>5, <2>1, <2>2, OfficeAges
<1>18. ASSUME NEW a \in Actors, Exit(a) \/ Deadline(a) PROVE Office(S, R)'
  BY <1>14, <1>18 DEF Exit, Deadline, SafeFaults, LeaseInv, Knows, Acquiring, AcquireSteps
<1>19. ASSUME NEW a \in Actors,
              \/ GivenBack(a) \/ WritersSettled(a) \/ StepEnded(a) \/ StopWriters(a)
              \/ Released(a) \/ Start(a) \/ Halt(a)
       PROVE  Office(S, R)'
  BY <1>11, <1>19 DEF GivenBack, WritersSettled, StepEnded, StopWriters, Released, Start, Halt
<1>20. ASSUME NEW p \in Paths, LeaseExpires(p) PROVE Office(T, Q)'
  <2>1. lock[p] # Absent /\ lock[p].token \notin Renewed
    BY <1>20 DEF LeaseExpires, GoStale
  <2>2. lock[p].token \in Actors \cup {Dead}
    BY <1>2, <1>5, <2>1, FileFields DEF Office, OnlyPastIsOld, ClaimTypeOK
  <2>3. lock[p].token \in Actors => leading[lock[p].token]
    BY <2>1 DEF Renewed, LeaseInv, Knows
  <2>4. lock[p].token \in T \cup {Dead}
    BY <1>3, <1>20, <2>2, <2>3 DEF LeaseExpires, PastServers, Late
  <2>5. Office(T, R)
    BY <1>2 DEF Office, InOffice, OnlyPastIsOld, Thieves
  <2>6. lock' = [lock EXCEPT ![p].old = TRUE] /\ UNCHANGED <<parked, cpc, cpath>>
    BY <1>20 DEF LeaseExpires, GoStale
  <2>7. Office(T, R)'
    BY <1>5, <2>1, <2>4, <2>5, <2>6, OfficeAges
  <2>8. QED
    BY <1>7, <2>7
<1>21. QED
  BY <1>8, <1>11, <1>15, <1>16, <1>17, <1>18, <1>19, <1>20
     DEF LeaseNext, StepOf, ShutdownStep, allVars

\* Before anybody starts, whatever an earlier run left is nobody's.
LEMMA OfficeInit == LeaseInit => OfficeInv
BY TokensDistinct
   DEF LeaseInit, ClaimInit, OfficeInv, Office, InOffice, OnlyPastIsOld, Thieves, Holds, HoldSteps, Absent

\* Two writers that are not late both have their lock at the one path there is,
\* for neither has a claim parked and neither has retired.
LEMMA OfficeExclusive == LeaseInv /\ OfficeInv => OneWriterUnlessStalled
<1> SUFFICES ASSUME LeaseInv, OfficeInv, NEW a \in Actors, NEW b \in Actors,
                    writing[a], writing[b], ~stalled[a], ~stalled[b], a # b
             PROVE  FALSE
  BY DEF OneWriterUnlessStalled
<1>1. \A c \in {a, b} : leading[c] /\ cpc[c] = "held" /\ ~Late(c) /\ ~Retired(c)
  BY DEF LeaseInv, Knows, Late, Retired
<1>2. cpath[a] \in Paths /\ cpath[b] = cpath[a]
  BY OneLeaseFile DEF LeaseInv, ClaimTypeOK
<1>3. Holds(a, cpath[a]) /\ Holds(b, cpath[a])
  BY <1>1, <1>2 DEF Holds, HoldSteps
<1>4. ~ParkedBy(a, b, cpath[a]) /\ ~ParkedBy(b, a, cpath[a])
  BY <1>1 DEF ParkedBy
<1>5. a \notin PastServers /\ b \notin PastServers /\ a \notin RetiredServers /\ b \notin RetiredServers
  BY <1>1 DEF PastServers, RetiredServers
<1>6. QED
  BY <1>2, <1>3, <1>4, <1>5 DEF OfficeInv, Office, InOffice

\* Of two servers at most one writes whose lease never went stale while it led:
\* no order of ticks, take-overs, halts, deadlines, failures and deaths makes
\* both write.  A third server breaks the claim itself (ClaimThree).
THEOREM OneWriterOfTwo ==
  ASSUME TwoContenders, SafeFaults
  PROVE  LeaseSpec => []OneWriterUnlessStalled
<1>1. LeaseInv /\ OfficeInv /\ [LeaseNext]_allVars => OfficeInv'
  BY OfficeStep
<1>2. QED
  BY <1>1, LeaseInvInit, LeaseInvStep, OfficeInit, OfficeExclusive, PTL DEF LeaseSpec
=============================================================================
