----------------------------- MODULE FileClaim -----------------------------
(***************************************************************************)
(* Cross-process claims on lock files: src/src/utils/file-claim.ts.        *)
(*                                                                         *)
(* One action is one file-system call, because between two calls any other *)
(* process may run.  Actors are the independent flows of control that      *)
(* claim (a queue check, a cancel, a lease step, in any process); an actor *)
(* acquires at most one claim at a time.  A claim's random token is        *)
(* abstracted to the name of the actor that wrote it; once that actor's    *)
(* claim is over, no reader can ever match the token again, so what is     *)
(* left of it is renamed to Dead.  A lock's mtime is abstracted to one     *)
(* bit, old: "age > staleMs" for a contender that reads the clock now.     *)
(*                                                                         *)
(* Faults: "crash" lets an actor die and "ioerror" lets a file-system call *)
(* fail with a code the code does not expect, except while the actor has   *)
(* another actor's live claim parked; "parkloss" allows both there.        *)
(***************************************************************************)
EXTENDS FiniteSets

CONSTANTS
  Actors,   \* flows of control that claim
  Paths,    \* lock paths
  Dead,     \* token of a claim nobody holds any more
  Nobody,   \* token of a path with no file
  Faults    \* the faults of this instance

ASSUME TokensDistinct == Dead # Nobody /\ {Dead, Nobody} \cap Actors = {}

VARIABLES
  lock,       \* lock[p]: the file at path p
  parked,     \* parked[a]: the file a has renamed aside
  cpc,        \* cpc[a]: where a is in acquireClaim or releaseClaim
  cpath,      \* cpath[a]: the path a is working on
  wentStale   \* wentStale[p]: has a file at p ever been old? (history)

claimVars == <<lock, parked, cpc, cpath, wentStale>>

File == [token : Actors \cup {Dead, Nobody}, old : BOOLEAN]
Absent == [token |-> Nobody, old |-> FALSE]
Fresh(t) == [token |-> t, old |-> FALSE]

\* Holding a claim, from the create that won it to the unlink that frees it.
HoldSteps == {"held", "release", "unlink"}
AcquireSteps == {"create", "stat", "recreate", "park", "restore", "take"}
ClaimSteps == {"idle", "denied", "threw"} \cup HoldSteps \cup AcquireSteps

Holds(a, p) == cpc[a] \in HoldSteps /\ cpath[a] = p

ClaimInit ==
  \* A path may carry what a process of an earlier run left behind.
  /\ lock \in [Paths -> {Absent} \cup [token : {Dead}, old : BOOLEAN]]
  /\ parked = [a \in Actors |-> Absent]
  /\ cpc = [a \in Actors |-> "idle"]
  /\ cpath \in [Actors -> Paths]
  /\ wentStale = [p \in Paths |-> lock[p].old]

----------------------------------------------------------------------------
(* acquireClaim *)

Goto(a, step) == cpc' = [cpc EXCEPT ![a] = step]

\* a calls acquireClaim(p).
Request(a, p) ==
  /\ cpc[a] = "idle"
  /\ Goto(a, "create")
  /\ cpath' = [cpath EXCEPT ![a] = p]
  /\ UNCHANGED <<lock, parked, wentStale>>

\* Mutant of CreateClaim: flag 'w' instead of 'wx'.
CreateOverwrites(a, otherwise) ==
  /\ lock' = [lock EXCEPT ![cpath[a]] = Fresh(a)]
  /\ Goto(a, "held")

\* writeFile(lockPath, token, {flag: 'wx'}) at a step whose EEXIST leads to
\* otherwise.
CreateClaim(a, otherwise) ==
  IF lock[cpath[a]] = Absent
  THEN /\ lock' = [lock EXCEPT ![cpath[a]] = Fresh(a)]
       /\ Goto(a, "held")
  ELSE /\ Goto(a, otherwise)
       /\ UNCHANGED lock

Create(a) ==
  /\ cpc[a] = "create"
  /\ CreateClaim(a, "stat")
  /\ UNCHANGED <<parked, cpath, wentStale>>

\* Mutant of Stat: steal every existing claim, and leave it to the re-check of
\* the parked file to put a live one back.
StatNoAge(a) ==
  /\ cpc[a] = "stat"
  /\ Goto(a, IF lock[cpath[a]] = Absent THEN "recreate" ELSE "park")
  /\ UNCHANGED <<lock, parked, cpath, wentStale>>

\* Mutant of Stat: a claim that exists has a holder, whatever its age.
StatNeverStale(a) ==
  /\ cpc[a] = "stat"
  /\ Goto(a, IF lock[cpath[a]] = Absent THEN "recreate" ELSE "denied")
  /\ UNCHANGED <<lock, parked, cpath, wentStale>>

\* claimAge: ENOENT means try once more; a claim that is not stale has a holder.
Stat(a) ==
  /\ cpc[a] = "stat"
  /\ LET f == lock[cpath[a]]
     IN Goto(a, IF f = Absent THEN "recreate" ELSE IF f.old THEN "park" ELSE "denied")
  /\ UNCHANGED <<lock, parked, cpath, wentStale>>

Recreate(a) ==
  /\ cpc[a] = "recreate"
  /\ CreateClaim(a, "denied")
  /\ UNCHANGED <<parked, cpath, wentStale>>

\* Mutant of Park: no second look at the age of what was renamed.
ParkBlindly(a) ==
  /\ cpc[a] = "park"
  /\ LET f == lock[cpath[a]]
     IN /\ Goto(a, IF f = Absent THEN "denied" ELSE "take")
        /\ parked' = [parked EXCEPT ![a] = f]
        /\ lock' = [lock EXCEPT ![cpath[a]] = Absent]
  /\ UNCHANGED <<cpath, wentStale>>

\* stealStaleClaim renames whatever is at the path now to a name of its own
\* and then looks at its age.  Nobody else knows the new name, so the rename
\* and the second stat are one step.
Park(a) ==
  /\ cpc[a] = "park"
  /\ LET f == lock[cpath[a]]
     IN /\ Goto(a, IF f = Absent THEN "denied" ELSE IF f.old THEN "take" ELSE "restore")
        /\ parked' = [parked EXCEPT ![a] = f]
        /\ lock' = [lock EXCEPT ![cpath[a]] = Absent]
  /\ UNCHANGED <<cpath, wentStale>>

\* Mutant of Restore: the live claim is unlinked without being linked back.
RestoreForgets(a) ==
  /\ cpc[a] = "restore"
  /\ parked' = [parked EXCEPT ![a] = Absent]
  /\ Goto(a, "denied")
  /\ UNCHANGED <<lock, cpath, wentStale>>

\* The parked claim is live: link it back unless the path was taken meanwhile,
\* then unlink the parked name.
Restore(a) ==
  /\ cpc[a] = "restore"
  /\ lock' = [lock EXCEPT ![cpath[a]] = IF @ = Absent THEN parked[a] ELSE @]
  /\ parked' = [parked EXCEPT ![a] = Absent]
  /\ Goto(a, "denied")
  /\ UNCHANGED <<cpath, wentStale>>

\* The parked claim is stale: create a new one, then unlink the parked name.
Take(a) ==
  /\ cpc[a] = "take"
  /\ CreateClaim(a, "denied")
  /\ parked' = [parked EXCEPT ![a] = Absent]
  /\ UNCHANGED <<cpath, wentStale>>

\* The caller has seen that it got no claim, or that acquireClaim threw.
GiveUp(a) ==
  /\ cpc[a] \in {"denied", "threw"}
  /\ Goto(a, "idle")
  /\ UNCHANGED <<lock, parked, cpath, wentStale>>

----------------------------------------------------------------------------
(* releaseClaim *)

\* No reader will match a's token again, wherever it still is.
Disowned(f, a) == IF f.token = a THEN [f EXCEPT !.token = Dead] ELSE f

EndClaim(a, files) ==
  /\ lock' = [p \in Paths |-> Disowned(files[p], a)]
  /\ parked' = [b \in Actors |->
                  IF b = a THEN Absent ELSE Disowned(parked[b], a)]
  /\ Goto(a, "idle")

Release(a) ==
  /\ cpc[a] = "held"
  /\ Goto(a, "release")
  /\ UNCHANGED <<lock, parked, cpath, wentStale>>

\* readFile: with another token there, or no file, there is nothing to delete.
ReleaseRead(a) ==
  /\ cpc[a] = "release"
  /\ IF lock[cpath[a]].token = a
     THEN Goto(a, "unlink") /\ UNCHANGED <<lock, parked>>
     ELSE EndClaim(a, lock)
  /\ UNCHANGED <<cpath, wentStale>>

\* unlink deletes the file that is at the path now, whatever was read before.
ReleaseUnlink(a) ==
  /\ cpc[a] = "unlink"
  /\ EndClaim(a, [lock EXCEPT ![cpath[a]] = Absent])
  /\ UNCHANGED <<cpath, wentStale>>

----------------------------------------------------------------------------
(* Time, renewal and faults *)

\* The file at p gets older than staleMs.  punctual are the actors whose
\* claims are renewed, or end, well inside that window.
GoStale(p, punctual) ==
  /\ lock[p] # Absent
  /\ lock[p].token \notin punctual
  /\ ~lock[p].old
  /\ lock' = [lock EXCEPT ![p].old = TRUE]
  /\ wentStale' = [wentStale EXCEPT ![p] = TRUE]
  /\ UNCHANGED <<parked, cpc, cpath>>

\* startClaimRenewal's timer: utimes on the path, whoever's file is there; it
\* rejects, unheard, if there is none.  GoStale already spares a claim that is
\* renewed in time, so only the touch of a file that another left changes anything.
Renew(a) ==
  /\ cpc[a] = "held"
  /\ lock[cpath[a]] # Absent
  /\ lock' = [lock EXCEPT ![cpath[a]].old = FALSE]
  /\ UNCHANGED <<parked, cpc, cpath, wentStale>>

\* The process of a dies: what it wrote stays.
ClaimCrash(a) ==
  /\ cpc[a] # "idle"
  /\ IF cpc[a] = "restore" THEN "parkloss" \in Faults ELSE "crash" \in Faults
  /\ EndClaim(a, lock)
  /\ UNCHANGED <<cpath, wentStale>>

\* Mutant of AcquireThrows: the parked name is not unlinked on the way out.
ThrowsLeavingParked(a) ==
  /\ "ioerror" \in Faults
  /\ cpc[a] \in AcquireSteps
  /\ Goto(a, "threw")
  /\ UNCHANGED <<lock, parked, cpath, wentStale>>

\* A call of acquireClaim fails: the parked name is unlinked on the way out.
\* A create that fails after opening the file (a full disk) leaves a lock that
\* carries nobody's token.
AcquireThrows(a) ==
  /\ cpc[a] \in AcquireSteps
  /\ IF cpc[a] = "restore" THEN "parkloss" \in Faults ELSE "ioerror" \in Faults
  /\ \/ UNCHANGED lock
     \/ /\ cpc[a] \in {"create", "recreate", "take"}
        /\ lock[cpath[a]] = Absent
        /\ lock' = [lock EXCEPT ![cpath[a]] = Fresh(Dead)]
  /\ parked' = [parked EXCEPT ![a] = Absent]
  /\ Goto(a, "threw")
  /\ UNCHANGED <<cpath, wentStale>>

\* A call of releaseClaim fails: the lock stays until it is stale.
ReleaseThrows(a) ==
  /\ "ioerror" \in Faults
  /\ cpc[a] \in {"release", "unlink"}
  /\ EndClaim(a, lock)
  /\ UNCHANGED <<cpath, wentStale>>

----------------------------------------------------------------------------
(* acquireClaim and releaseClaim, once called, and a client that calls them *)
(* in any order the interface allows.                                      *)

ClaimStep(a) ==
  \/ Create(a) \/ Stat(a) \/ Recreate(a)
  \/ Park(a) \/ Restore(a) \/ Take(a)
  \/ ReleaseRead(a) \/ ReleaseUnlink(a)

ActorStep(a) ==
  \/ \E p \in Paths : Request(a, p)
  \/ ClaimStep(a) \/ GiveUp(a) \/ Release(a) \/ Renew(a)
  \/ ClaimCrash(a) \/ AcquireThrows(a) \/ ReleaseThrows(a)

ClaimNext ==
  \/ \E a \in Actors : ActorStep(a)
  \/ \E p \in Paths : GoStale(p, Actors)

\* A call in progress finishes, and time passes.
ClaimFairness ==
  /\ \A a \in Actors : WF_claimVars(ClaimStep(a) \/ GiveUp(a))
  /\ \A p \in Paths : WF_claimVars(GoStale(p, Actors))

ClaimSpec == ClaimInit /\ [][ClaimNext]_claimVars /\ ClaimFairness

----------------------------------------------------------------------------
(* Properties *)

ClaimTypeOK ==
  /\ lock \in [Paths -> File]
  /\ parked \in [Actors -> File]
  /\ cpc \in [Actors -> ClaimSteps]
  /\ cpath \in [Actors -> Paths]
  /\ wentStale \in [Paths -> BOOLEAN]
  \* Whatever the outcome, the parked name does not outlive the call.
  /\ \A a \in Actors : parked[a] # Absent => cpc[a] \in {"restore", "take"}

\* "Exclusive create (wx) is the only claim": two actors never hold the claim
\* on one path at the same time, not even while a third file operation has the
\* path's file parked under another name.
Exclusive ==
  \A a, b \in Actors : \A p \in Paths : Holds(a, p) /\ Holds(b, p) => a = b

\* The same for a path on which no claim has ever gone stale: until then no
\* number of contenders, and no fault, can make two of them hold it.
ExclusiveUntilStale ==
  \A a, b \in Actors : \A p \in Paths :
    ~wentStale[p] /\ Holds(a, p) /\ Holds(b, p) => a = b

\* A holder whose lock file was renamed aside by a contender that saw the claim
\* before it gets the file back, unless it lets go first: the window in which
\* the path looks free is closed again.
ParkedClaimReturns ==
  \A a \in Actors :
    (cpc[a] = "held" /\ lock[cpath[a]].token # a)
      ~> (cpc[a] # "held" \/ lock[cpath[a]].token = a)

Abstract == INSTANCE ExclusiveClaim
              WITH holders <- [p \in Paths |-> {a \in Actors : Holds(a, p)}]

\* Seen through who holds what, the protocol on files is an exclusive claim.
ImplementsExclusiveClaim == Abstract!ExSpec
============================================================================
