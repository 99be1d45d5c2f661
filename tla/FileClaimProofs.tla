-------------------------- MODULE FileClaimProofs --------------------------
(***************************************************************************)
(* Proofs about FileClaim, for every set of actors, paths and faults.      *)
(***************************************************************************)
EXTENDS FileClaim, TLAPS

(***************************************************************************)
(* Typing.                                                                 *)
(***************************************************************************)

\* The empty path is a value lock and parked can have.
LEMMA AbsentIsFile == Absent \in File
  BY DEF Absent, File

\* So is the file createClaim writes.
LEMMA FreshIsFile == \A a \in Actors : Fresh(a) \in File
  BY DEF Fresh, File

\* Disowning a file gives a file: EndClaim keeps lock and parked well typed.
LEMMA DisownedIsFile ==
  ASSUME NEW f \in File, NEW a \in Actors
  PROVE  Disowned(f, a) \in File
  BY DEF Disowned, File

\* A file is its token and its age.
LEMMA FileFields ==
  /\ Absent.token = Nobody /\ ~Absent.old
  /\ \A a \in Actors : Fresh(a).token = a /\ ~Fresh(a).old /\ Fresh(a) # Absent
  /\ \A f \in File : f.old \in BOOLEAN /\ f.token \in Actors \cup {Dead, Nobody}
  BY TokensDistinct DEF Absent, Fresh, File

\* What touching or losing the age of a file leaves alone.
LEMMA AgedFields ==
  ASSUME NEW f \in File, NEW old \in BOOLEAN
  PROVE  /\ [f EXCEPT !.old = old].old = old
         /\ [f EXCEPT !.old = old].token = f.token
         /\ (f.token # Nobody => [f EXCEPT !.old = old] # Absent)
  BY DEF File, Absent

\* What disowning does to a file, field by field.
LEMMA DisownedFields ==
  ASSUME NEW f \in File, NEW a \in Actors
  PROVE  /\ Disowned(f, a).old = f.old
         /\ Disowned(f, a).token = IF f.token = a THEN Dead ELSE f.token
         /\ f.token # a => Disowned(f, a) = f
  BY DEF Disowned, File

\* An empty path stays empty when a claim ends.
LEMMA DisownedAbsent == \A a \in Actors : Disowned(Absent, a) = Absent
  BY TokensDistinct DEF Disowned, Absent

\* The steps of actors and of a clock that may overtake any claim.  A module
\* that composes FileClaim has ClaimNext, or lets more claims go stale.
LateNext ==
  \/ \E a \in Actors : ActorStep(a)
  \/ \E p \in Paths : GoStale(p, {})

\* A step with punctual holders is one with holders that may be late.
LEMMA ClaimNextIsLate == ClaimNext => LateNext
  BY DEF ClaimNext, LateNext, GoStale

\* However a claim ends, the claim state stays well typed.
LEMMA EndClaimTyped ==
  ASSUME ClaimTypeOK, NEW a \in Actors, NEW files \in [Paths -> File], EndClaim(a, files),
         UNCHANGED <<cpath, wentStale>>
  PROVE  ClaimTypeOK'
<1>1. lock' \in [Paths -> File] /\ parked' \in [Actors -> File]
  BY AbsentIsFile, DisownedIsFile DEF EndClaim, ClaimTypeOK
<1>2. ASSUME NEW b \in Actors, parked[b] = Absent
      PROVE  parked'[b] = Absent
  BY <1>2, DisownedAbsent DEF EndClaim
<1>3. QED
  BY <1>1, <1>2 DEF EndClaim, ClaimTypeOK, ClaimSteps, Goto

\* The claim state is well typed after every step, whatever the client does
\* and however late it is.
LEMMA TypeStep == ClaimTypeOK /\ [LateNext]_claimVars => ClaimTypeOK'
<1> SUFFICES ASSUME ClaimTypeOK, [LateNext]_claimVars
             PROVE  ClaimTypeOK'
  OBVIOUS
<1> USE AbsentIsFile, FreshIsFile, TokensDistinct
        DEF ClaimTypeOK, ClaimSteps, HoldSteps, AcquireSteps, Goto
<1>1. ASSUME NEW a \in Actors, NEW p \in Paths, Request(a, p)
      PROVE  ClaimTypeOK'
  BY <1>1 DEF Request
<1>2. ASSUME NEW a \in Actors, Create(a)
      PROVE  ClaimTypeOK'
  BY <1>2 DEF Create, CreateClaim
<1>3. ASSUME NEW a \in Actors, Stat(a)
      PROVE  ClaimTypeOK'
  BY <1>3 DEF Stat
<1>4. ASSUME NEW a \in Actors, Recreate(a)
      PROVE  ClaimTypeOK'
  BY <1>4 DEF Recreate, CreateClaim
<1>5. ASSUME NEW a \in Actors, Park(a)
      PROVE  ClaimTypeOK'
  BY <1>5 DEF Park
<1>6. ASSUME NEW a \in Actors, Restore(a)
      PROVE  ClaimTypeOK'
  BY <1>6 DEF Restore
<1>7. ASSUME NEW a \in Actors, Take(a)
      PROVE  ClaimTypeOK'
  BY <1>7 DEF Take, CreateClaim
<1>8. ASSUME NEW a \in Actors, GiveUp(a)
      PROVE  ClaimTypeOK'
  BY <1>8 DEF GiveUp
<1>9. ASSUME NEW a \in Actors, Release(a)
      PROVE  ClaimTypeOK'
  BY <1>9 DEF Release
<1>10. ASSUME NEW a \in Actors, NEW files \in [Paths -> File], EndClaim(a, files),
              UNCHANGED <<cpath, wentStale>>
       PROVE  ClaimTypeOK'
  BY <1>10, EndClaimTyped
<1>11. ASSUME NEW a \in Actors, ReleaseRead(a)
       PROVE  ClaimTypeOK'
  BY <1>11, <1>10 DEF ReleaseRead
<1>12. ASSUME NEW a \in Actors, ReleaseUnlink(a)
       PROVE  ClaimTypeOK'
  BY <1>12, <1>10 DEF ReleaseUnlink
<1>13. ASSUME NEW a \in Actors, Renew(a)
       PROVE  ClaimTypeOK'
  BY <1>13 DEF Renew, File
<1>14. ASSUME NEW a \in Actors, ClaimCrash(a)
       PROVE  ClaimTypeOK'
  BY <1>14, <1>10 DEF ClaimCrash
<1>15. ASSUME NEW a \in Actors, AcquireThrows(a)
       PROVE  ClaimTypeOK'
  <2>0. Fresh(Dead) \in File
    BY DEF Fresh, File
  <2>1. lock' \in [Paths -> File]
    BY <1>15, <2>0 DEF AcquireThrows
  <2>2. QED
    BY <1>15, <2>1 DEF AcquireThrows
<1>16. ASSUME NEW a \in Actors, ReleaseThrows(a)
       PROVE  ClaimTypeOK'
  BY <1>16, <1>10 DEF ReleaseThrows
<1>17. ASSUME NEW p \in Paths, GoStale(p, {})
       PROVE  ClaimTypeOK'
  BY <1>17 DEF GoStale, File
<1>18. CASE UNCHANGED claimVars
  BY <1>18 DEF claimVars
<1>19. QED
  BY <1>1, <1>2, <1>3, <1>4, <1>5, <1>6, <1>7, <1>8, <1>9, <1>11, <1>12, <1>13,
     <1>14, <1>15, <1>16, <1>17, <1>18
     DEF LateNext, ActorStep, ClaimStep

\* Whatever locks an earlier run left, the initial claim state is well typed.
LEMMA TypeInit == ClaimInit => ClaimTypeOK
  BY AbsentIsFile DEF ClaimInit, ClaimTypeOK, ClaimSteps, File

\* The state of the claims on disk and in every acquireClaim and releaseClaim
\* call is well typed, and no parked name outlives the call that made it.
THEOREM ClaimTypeCorrect == ClaimSpec => []ClaimTypeOK
<1>1. [ClaimNext]_claimVars => [LateNext]_claimVars
  BY ClaimNextIsLate
<1>2. QED
  BY <1>1, TypeInit, TypeStep, PTL DEF ClaimSpec

(***************************************************************************)
(* Exclusive until stale: any number of contenders, any fault.             *)
(***************************************************************************)

\* While no claim at p has gone stale, a holder's own token is at p (UHolder),
\* the file there is young (UYoung), and nobody is stealing (USteal).
UHolder(p) == \A a \in Actors : Holds(a, p) => lock[p].token = a
UYoung(p) == ~lock[p].old
USteal(p) == \A a \in Actors :
               cpc[a] \in {"park", "restore", "take"} => cpath[a] # p

UntilStale ==
  \A p \in Paths : ~wentStale[p] => UHolder(p) /\ UYoung(p) /\ USteal(p)

\* Initially nobody holds a claim or has one parked.
LEMMA UntilStaleInit == ClaimInit => UntilStale
  BY DEF ClaimInit, UntilStale, UHolder, UYoung, USteal, Holds, HoldSteps

\* The strengthening implies the property it strengthens.
LEMMA UntilStaleExclusive == UntilStale => ExclusiveUntilStale
  BY DEF UntilStale, UHolder, ExclusiveUntilStale

\* Every step of acquireClaim, releaseClaim, time and faults preserves it.
LEMMA UntilStaleStep ==
  ClaimTypeOK /\ UntilStale /\ [LateNext]_claimVars => UntilStale'
<1> SUFFICES ASSUME ClaimTypeOK, UntilStale, [LateNext]_claimVars,
                    NEW p \in Paths, ~wentStale'[p]
             PROVE  (UHolder(p) /\ UYoung(p) /\ USteal(p))'
  BY DEF UntilStale
<1> DEFINE Goal == (UHolder(p) /\ UYoung(p) /\ USteal(p))'
<1> USE TokensDistinct
        DEF ClaimTypeOK, File, HoldSteps, Goto, Holds, UHolder, UYoung, USteal, Absent, Fresh
<1>0. wentStale[p] = wentStale'[p] \/ \E q \in Paths : GoStale(q, {})
  BY DEF claimVars, LateNext, ActorStep, ClaimStep, Request, Create, Stat, Recreate,
         Park, Restore, Take, GiveUp, Release, ReleaseRead, ReleaseUnlink, Renew,
         ClaimCrash, AcquireThrows, ReleaseThrows
<1>1. ASSUME NEW q \in Paths, GoStale(q, {})
      PROVE  Goal
  BY <1>1 DEF GoStale, UntilStale
<1> SUFFICES ASSUME ~wentStale[p], UHolder(p), UYoung(p), USteal(p)
             PROVE  Goal
  BY <1>0, <1>1 DEF UntilStale
<1>2. ASSUME NEW a \in Actors, NEW q \in Paths, Request(a, q)
      PROVE  Goal
  BY <1>2 DEF Request
<1>3. ASSUME NEW a \in Actors, Create(a)
      PROVE  Goal
  BY <1>3 DEF Create, CreateClaim
<1>4. ASSUME NEW a \in Actors, Stat(a)
      PROVE  Goal
  BY <1>4 DEF Stat
<1>5. ASSUME NEW a \in Actors, Recreate(a)
      PROVE  Goal
  BY <1>5 DEF Recreate, CreateClaim
<1>6. ASSUME NEW a \in Actors, Park(a)
      PROVE  Goal
  BY <1>6 DEF Park
<1>7. ASSUME NEW a \in Actors, Restore(a)
      PROVE  Goal
  BY <1>7 DEF Restore
<1>8. ASSUME NEW a \in Actors, Take(a)
      PROVE  Goal
  BY <1>8 DEF Take, CreateClaim
<1>9. ASSUME NEW a \in Actors, GiveUp(a) \/ Release(a) \/ AcquireThrows(a)
      PROVE  Goal
  BY <1>9 DEF GiveUp, Release, AcquireThrows, AcquireSteps
<1>10. ASSUME NEW a \in Actors, EndClaim(a, lock), UNCHANGED <<cpath, wentStale>>
       PROVE  Goal
  BY <1>10 DEF EndClaim, Disowned
<1>11. ASSUME NEW a \in Actors, ReleaseRead(a)
       PROVE  Goal
  BY <1>11, <1>10 DEF ReleaseRead
<1>12. ASSUME NEW a \in Actors, ReleaseUnlink(a)
       PROVE  Goal
  BY <1>12 DEF ReleaseUnlink, EndClaim, Disowned
<1>13. ASSUME NEW a \in Actors, Renew(a)
       PROVE  Goal
  BY <1>13 DEF Renew
<1>14. ASSUME NEW a \in Actors, ClaimCrash(a) \/ ReleaseThrows(a)
       PROVE  Goal
  BY <1>14, <1>10 DEF ClaimCrash, ReleaseThrows
<1>15. CASE UNCHANGED claimVars
  BY <1>15 DEF claimVars
<1>16. QED
  BY <1>1, <1>2, <1>3, <1>4, <1>5, <1>6, <1>7, <1>8, <1>9, <1>11, <1>12, <1>13,
     <1>14, <1>15 DEF LateNext, ActorStep, ClaimStep

\* Until a claim on a path first goes stale, that path is never held by two
\* actors, however many contend, die or meet I/O errors.
THEOREM ClaimExclusiveUntilStale == ClaimSpec => []ExclusiveUntilStale
<1>1. [ClaimNext]_claimVars => [LateNext]_claimVars
  BY ClaimNextIsLate
<1>2. QED
  BY <1>1, ClaimTypeCorrect, UntilStaleInit, UntilStaleStep, UntilStaleExclusive, PTL
     DEF ClaimSpec

(***************************************************************************)
(* Two contenders: exclusive even while stale claims are stolen, as long   *)
(* as nobody dies, or meets an I/O error, with a live claim parked.        *)
(***************************************************************************)

TwoContenders == \A a, b, c \in Actors : a = b \/ b = c \/ a = c
SafeFaults == "parkloss" \notin Faults

\* b has a's live claim on p parked, and will put it back where it was.
ParkedBy(b, a, p) ==
  /\ cpc[b] = "restore"
  /\ cpath[b] = p
  /\ parked[b].token = a
  /\ lock[p] = Absent

\* A holder's claim is at its path, or the other contender has it parked
\* (Owned); only a dead holder's claim is old (Young); a thief restores what
\* is young and replaces what is old (Parking).
Owned ==
  \A a \in Actors, p \in Paths :
    Holds(a, p) /\ lock[p].token # a
      => \A b \in Actors : b # a => ParkedBy(b, a, p)
Young ==
  \A p \in Paths :
    /\ lock[p].old => lock[p].token = Dead
    /\ lock[p].token = Nobody => lock[p] = Absent
Parking ==
  \A a \in Actors :
    /\ cpc[a] = "restore" => parked[a].token # Nobody /\ ~parked[a].old
    /\ cpc[a] = "take" => parked[a].token = Dead
OwnedInv == Owned /\ Young /\ Parking

\* Initially every lock on disk is nobody's, and nobody holds a path.
LEMMA OwnedInit == ClaimInit => OwnedInv
  BY TokensDistinct
     DEF ClaimInit, OwnedInv, Owned, Young, Parking, Holds, HoldSteps, Absent

\* Of two holders each would have parked the other's claim while holding its own.
LEMMA OwnedExclusive == OwnedInv => Exclusive
<1> SUFFICES ASSUME OwnedInv,
                    NEW a \in Actors, NEW b \in Actors, NEW p \in Paths,
                    Holds(a, p), Holds(b, p), a # b
             PROVE  FALSE
  BY DEF Exclusive
<1>1. ~ParkedBy(b, a, p) /\ ~ParkedBy(a, b, p)
  BY DEF ParkedBy, Holds, HoldSteps
<1>2. QED
  BY <1>1 DEF OwnedInv, Owned

\* No step of either contender, of time or of a fault breaks the ownership of locks.
LEMMA OwnedStep ==
  ASSUME TwoContenders, SafeFaults, ClaimTypeOK, OwnedInv, [ClaimNext]_claimVars
  PROVE  OwnedInv'
<1> USE TokensDistinct, FileFields DEF ClaimTypeOK, HoldSteps, Goto, Holds, OwnedInv
<1>0. Exclusive
  BY OwnedExclusive
<1>1. ASSUME NEW a \in Actors, NEW q \in Paths, Request(a, q)
      PROVE  OwnedInv'
  <2>1. Owned'
    BY <1>1 DEF Owned, ParkedBy, Young, Parking, Request
  <2>2. Young'
    BY <1>1 DEF Young, Parking, Request
  <2>3. Parking'
    BY <1>1 DEF Young, Parking, Request
  <2>4. QED
    BY <2>1, <2>2, <2>3
<1>3. ASSUME NEW a \in Actors, Create(a) \/ Recreate(a)
      PROVE  OwnedInv'
  <2>1. Owned'
    BY <1>3 DEF Owned, ParkedBy, Create, Recreate, CreateClaim
  <2>2. Young'
    BY <1>3 DEF Young, Parking, Create, Recreate, CreateClaim
  <2>3. Parking'
    BY <1>3 DEF Young, Parking, Create, Recreate, CreateClaim
  <2>4. QED
    BY <2>1, <2>2, <2>3
<1>4. ASSUME NEW a \in Actors, Stat(a)
      PROVE  OwnedInv'
  <2>1. Owned'
    BY <1>4 DEF Owned, ParkedBy, Young, Parking, Stat
  <2>2. Young'
    BY <1>4 DEF Young, Parking, Stat
  <2>3. Parking'
    BY <1>4 DEF Young, Parking, Stat
  <2>4. QED
    BY <2>1, <2>2, <2>3
<1>5. ASSUME NEW a \in Actors, Park(a)
      PROVE  OwnedInv'
  <2>1. Owned'
    BY <1>5 DEF Owned, ParkedBy, Young, Parking, Park, TwoContenders
  <2>2. Young'
    BY <1>5 DEF Young, Parking, Park
  <2>3. Parking'
    BY <1>5 DEF Young, Parking, Park
  <2>4. QED
    BY <2>1, <2>2, <2>3
<1>6. ASSUME NEW a \in Actors, Restore(a)
      PROVE  OwnedInv'
  <2>1. Owned'
    BY <1>6 DEF Owned, ParkedBy, Young, Parking, Restore, TwoContenders
  <2>2. Young'
    BY <1>6 DEF Young, Parking, Restore
  <2>3. Parking'
    BY <1>6 DEF Young, Parking, Restore
  <2>4. QED
    BY <2>1, <2>2, <2>3
<1>7. ASSUME NEW a \in Actors, Take(a)
      PROVE  OwnedInv'
  <2>1. Owned'
    <3>1. /\ cpc[a] = "take" /\ cpath[a] \in Paths /\ parked' = [parked EXCEPT ![a] = Absent]
          /\ cpath' = cpath
      BY <1>7 DEF Take
    <3>2. CASE lock[cpath[a]] = Absent
      <4>1. lock' = [lock EXCEPT ![cpath[a]] = Fresh(a)] /\ cpc' = [cpc EXCEPT ![a] = "held"]
        BY <1>7, <3>2 DEF Take, CreateClaim
      <4>2. QED
        BY <3>1, <3>2, <4>1 DEF Owned, ParkedBy
    <3>3. CASE lock[cpath[a]] # Absent
      <4>1. lock' = lock /\ cpc' = [cpc EXCEPT ![a] = "denied"]
        BY <1>7, <3>3 DEF Take, CreateClaim
      <4>2. QED
        BY <3>1, <4>1 DEF Owned, ParkedBy
    <3>4. QED
      BY <3>2, <3>3
  <2>2. Young'
    BY <1>7 DEF Young, Parking, Take, CreateClaim
  <2>3. Parking'
    BY <1>7 DEF Young, Parking, Take, CreateClaim
  <2>4. QED
    BY <2>1, <2>2, <2>3
<1>8. ASSUME NEW a \in Actors, GiveUp(a) \/ Release(a)
      PROVE  OwnedInv'
  <2>1. Owned'
    BY <1>8 DEF Owned, ParkedBy, Young, Parking, GiveUp, Release
  <2>2. Young'
    BY <1>8 DEF Young, Parking, GiveUp, Release
  <2>3. Parking'
    BY <1>8 DEF Young, Parking, GiveUp, Release
  <2>4. QED
    BY <2>1, <2>2, <2>3
<1>9. ASSUME NEW a \in Actors, NEW files \in [Paths -> File], EndClaim(a, files),
             cpc[a] # "restore", UNCHANGED <<cpath, wentStale>>,
             \A p \in Paths : files[p] = lock[p] \/ (files[p] = Absent /\ Holds(a, p))
      PROVE  OwnedInv'
  <2>1. \A p \in Paths :
          /\ lock'[p] \in {Disowned(lock[p], a), Disowned(Absent, a)}
          /\ ~Holds(a, p) => lock'[p] = Disowned(lock[p], a)
    BY <1>9 DEF EndClaim
  <2>2. \A p \in Paths :
          /\ lock'[p] # Absent => lock'[p].old = lock[p].old
          /\ lock'[p].token \in {lock[p].token, Dead, Nobody}
          /\ lock'[p].token = Nobody /\ lock[p].token # Nobody => lock'[p] = Absent
          /\ lock[p].token # a /\ ~Holds(a, p) => lock'[p] = lock[p]
          /\ lock[p].token = Dead => lock'[p].token = Dead \/ lock'[p] = Absent
          /\ lock[p] = Absent => lock'[p] = Absent
    BY <2>1, DisownedFields, DisownedAbsent
  <2>3. \A b \in Actors :
          b # a => /\ parked'[b].old = parked[b].old
                   /\ parked'[b].token \in {parked[b].token, Dead}
                   /\ parked[b].token # a => parked'[b] = parked[b]
                   /\ parked[b].token = Nobody <=> parked'[b].token = Nobody
    BY <1>9, DisownedFields DEF EndClaim
  <2>4. cpc' = [cpc EXCEPT ![a] = "idle"]
    BY <1>9 DEF EndClaim
  <2>5. Owned'
    BY <1>0, <1>9, <2>2, <2>3, <2>4 DEF Owned, ParkedBy, Exclusive
  <2>6. Young'
    BY <1>9, <2>2 DEF Young
  <2>7. Parking'
    BY <1>9, <2>3, <2>4 DEF Parking
  <2>8. QED
    BY <2>5, <2>6, <2>7
<1>10. ASSUME NEW a \in Actors, ReleaseRead(a)
       PROVE  OwnedInv'
  <2>1. CASE EndClaim(a, lock)
    BY <1>10, <1>9, <2>1 DEF ReleaseRead
  <2>2. CASE cpc' = [cpc EXCEPT ![a] = "unlink"] /\ UNCHANGED <<lock, parked>>
    BY <1>10, <2>2 DEF ReleaseRead, Owned, ParkedBy, Young, Parking
  <2>3. QED
    BY <1>10, <2>1, <2>2 DEF ReleaseRead
<1>11. ASSUME NEW a \in Actors, ReleaseUnlink(a)
       PROVE  OwnedInv'
  <2> DEFINE files == [lock EXCEPT ![cpath[a]] = Absent]
  <2>1. /\ files \in [Paths -> File]
        /\ \A p \in Paths : files[p] = lock[p] \/ (files[p] = Absent /\ Holds(a, p))
    BY <1>11, AbsentIsFile DEF ReleaseUnlink
  <2>2. EndClaim(a, files) /\ cpc[a] # "restore" /\ UNCHANGED <<cpath, wentStale>>
    BY <1>11 DEF ReleaseUnlink
  <2> HIDE DEF files
  <2>3. QED
    BY <1>9, <2>1, <2>2
<1>12. ASSUME NEW a \in Actors, Renew(a)
      PROVE  OwnedInv'
  <2>1. Owned'
    BY <1>12, AgedFields DEF Owned, ParkedBy, Young, Parking, Renew
  <2>2. Young'
    BY <1>12, AgedFields DEF Young, Parking, Renew
  <2>3. Parking'
    BY <1>12, AgedFields DEF Young, Parking, Renew
  <2>4. QED
    BY <2>1, <2>2, <2>3
<1>20. ASSUME NEW a \in Actors, AcquireThrows(a)
      PROVE  OwnedInv'
  <2>1. Owned'
    BY <1>20 DEF Owned, ParkedBy, AcquireThrows, SafeFaults, TwoContenders
  <2>0. ~Fresh(Dead).old /\ Fresh(Dead).token = Dead
    BY DEF Fresh
  <2>2. Young'
    BY <1>20, <2>0 DEF Young, AcquireThrows
  <2>3. Parking'
    BY <1>20 DEF Parking, AcquireThrows
  <2>4. QED
    BY <2>1, <2>2, <2>3
<1>13. ASSUME NEW a \in Actors, ClaimCrash(a) \/ ReleaseThrows(a)
      PROVE  OwnedInv'
  <2>1. Owned'
    BY <1>13, <1>9 DEF Owned, ParkedBy, Young, Parking, ClaimCrash, ReleaseThrows, SafeFaults
  <2>2. Young'
    BY <1>13, <1>9 DEF Young, Parking, ClaimCrash, ReleaseThrows, SafeFaults
  <2>3. Parking'
    BY <1>13, <1>9 DEF Young, Parking, ClaimCrash, ReleaseThrows, SafeFaults
  <2>4. QED
    BY <2>1, <2>2, <2>3
<1>14. ASSUME NEW q \in Paths, GoStale(q, Actors)
      PROVE  OwnedInv'
  <2>1. Owned'
    BY <1>14, AgedFields DEF Owned, ParkedBy, Young, Parking, GoStale
  <2>2. Young'
    BY <1>14, AgedFields DEF Young, Parking, GoStale
  <2>3. Parking'
    BY <1>14, AgedFields DEF Young, Parking, GoStale
  <2>4. QED
    BY <2>1, <2>2, <2>3
<1>15. CASE UNCHANGED claimVars
  BY <1>15 DEF claimVars, Owned, Young, Parking, ParkedBy
<1>16. QED
  BY <1>1, <1>3, <1>4, <1>5, <1>6, <1>7, <1>8, <1>10, <1>11, <1>12, <1>13,
     <1>14, <1>15, <1>20 DEF ClaimNext, ActorStep, ClaimStep

\* Two contenders never hold a path at the same time, through any number of
\* deaths, stale claims and steals, provided none dies or meets an I/O error
\* between parking a live claim and putting it back.
THEOREM ClaimExclusive ==
  ASSUME TwoContenders, SafeFaults
  PROVE  ClaimSpec => []Exclusive
<1>1. ClaimTypeOK /\ OwnedInv /\ [ClaimNext]_claimVars => OwnedInv'
  BY OwnedStep
<1>2. QED
  BY <1>1, ClaimTypeCorrect, OwnedInit, OwnedExclusive, PTL DEF ClaimSpec

(***************************************************************************)
(* The protocol on files implements the abstract claim.                    *)
(***************************************************************************)

Holders == [p \in Paths |-> {a \in Actors : Holds(a, p)}]

\* Nothing else changes who holds what: a step of a keeps, takes or gives back
\* what a holds.
LEMMA HoldersStep ==
  ASSUME ClaimTypeOK, Exclusive, Exclusive', [ClaimNext]_claimVars
  PROVE  [Abstract!ExNext]_Holders
<1> USE DEF ClaimTypeOK, Holds, HoldSteps, Goto
<1> DEFINE Same(b) == \A p \in Paths : Holds(b, p)' = Holds(b, p)
<1>1. CASE \A b \in Actors : Same(b)
  <2>1. Holders' = Holders
    BY <1>1 DEF Holders
  <2>2. QED
    BY <2>1
<1>2. ASSUME NEW a \in Actors, \A b \in Actors : b # a => Same(b), cpath' = cpath,
             cpc[a] \in HoldSteps, cpc'[a] \notin HoldSteps
      PROVE  [Abstract!ExNext]_Holders
  <2>1. \A b \in Actors : Holds(b, cpath[a]) <=> b = a
    BY <1>2 DEF Exclusive
  <2>2. \A b \in Actors, p \in Paths : Holds(b, p)' <=> p # cpath[a] /\ Holds(b, p)
    BY <1>2, <2>1
  <2>3. Holders' = [Holders EXCEPT ![cpath[a]] = {}]
    <3>1. \A p \in Paths :
            {b \in Actors : Holds(b, p)'} =
              IF p = cpath[a] THEN {} ELSE {b \in Actors : Holds(b, p)}
      BY <2>2
    <3>2. QED
      BY <3>1 DEF Holders
  <2>4. Holders[cpath[a]] = {a}
    BY <2>1 DEF Holders
  <2>5. Abstract!GiveBack(a, cpath[a])
    BY <2>3, <2>4 DEF Abstract!GiveBack, Holders
  <2>6. cpath[a] \in Paths
    OBVIOUS
  <2>7. QED
    BY <2>5, <2>6 DEF Abstract!ExNext, Abstract!Acquire, Abstract!GiveBack
<1>3. ASSUME NEW a \in Actors, \A b \in Actors : b # a => Same(b), cpath' = cpath,
             cpc[a] \notin HoldSteps, cpc'[a] \in HoldSteps
      PROVE  [Abstract!ExNext]_Holders
  <2>1. \A b \in Actors : Holds(b, cpath[a])' <=> b = a
    BY <1>3 DEF Exclusive
  <2>2. \A b \in Actors, p \in Paths :
          Holds(b, p)' <=> IF p = cpath[a] THEN b = a ELSE Holds(b, p)
    BY <1>3, <2>1
  <2>3. Holders' = [Holders EXCEPT ![cpath[a]] = {a}]
    <3>1. \A p \in Paths :
            {b \in Actors : Holds(b, p)'} =
              IF p = cpath[a] THEN {a} ELSE {b \in Actors : Holds(b, p)}
      BY <2>2
    <3>2. QED
      BY <3>1 DEF Holders
  <2>4. Holders[cpath[a]] = {}
    BY <1>3, <2>1 DEF Holders
  <2>5. Abstract!Acquire(a, cpath[a])
    BY <2>3, <2>4 DEF Abstract!Acquire, Holders
  <2>6. cpath[a] \in Paths
    OBVIOUS
  <2>7. QED
    BY <2>5, <2>6 DEF Abstract!ExNext, Abstract!Acquire, Abstract!GiveBack
<1>4. ASSUME NEW a \in Actors, ActorStep(a)
      PROVE  /\ \A b \in Actors : b # a => cpc'[b] = cpc[b] /\ cpath'[b] = cpath[b]
             /\ \/ cpath' = cpath
                \/ cpc[a] = "idle" /\ cpc'[a] = "create"
  BY <1>4 DEF ActorStep, ClaimStep, Request, Create, CreateClaim, Stat,
         Recreate, Park, Restore, Take, GiveUp, Release, ReleaseRead, ReleaseUnlink,
         EndClaim, Renew, ClaimCrash, AcquireThrows, ReleaseThrows, AcquireSteps
<1>5. ASSUME NEW a \in Actors, ActorStep(a)
      PROVE  [Abstract!ExNext]_Holders
  <2>1. \A b \in Actors : b # a => Same(b)
    BY <1>4, <1>5
  <2>2. CASE cpath' = cpath /\ ~(cpc[a] \in HoldSteps <=> cpc'[a] \in HoldSteps)
    BY <1>2, <1>3, <2>1, <2>2
  <2>3. CASE cpath' = cpath /\ (cpc[a] \in HoldSteps <=> cpc'[a] \in HoldSteps)
    BY <1>1, <2>1, <2>3
  <2>4. CASE cpc[a] = "idle" /\ cpc'[a] = "create"
    BY <1>1, <2>1, <2>4
  <2>5. QED
    BY <1>4, <1>5, <2>2, <2>3, <2>4
<1>6. ASSUME UNCHANGED <<cpc, cpath>>
      PROVE  [Abstract!ExNext]_Holders
  BY <1>1, <1>6
<1>7. QED
  BY <1>5, <1>6 DEF ClaimNext, claimVars, GoStale

\* Seen through who holds what, two contenders on files behave as the abstract
\* exclusive claim: taken only when free, given back only by the one who has it.
THEOREM ClaimRefinement ==
  ASSUME TwoContenders, SafeFaults
  PROVE  ClaimSpec => ImplementsExclusiveClaim
<1>1. ClaimInit => Abstract!ExInit
  BY DEF ClaimInit, Abstract!ExInit, Holds, HoldSteps
<1>2. ClaimTypeOK /\ Exclusive /\ Exclusive' /\ [ClaimNext]_claimVars
        => [Abstract!ExNext]_Holders
  BY HoldersStep
<1>3. ClaimSpec => []Exclusive
  BY ClaimExclusive
<1>4. QED
  BY <1>1, <1>2, <1>3, ClaimTypeCorrect, PTL
     DEF ClaimSpec, ImplementsExclusiveClaim, Abstract!ExSpec, Holders
============================================================================
