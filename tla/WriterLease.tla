---------------------------- MODULE WriterLease ----------------------------
(***************************************************************************)
(* One mailbox writer per machine: src/src/safety/writer-lease.ts, with    *)
(* the wiring of stdio-writers.ts and the step order of shutdown.ts.       *)
(*                                                                         *)
(* An actor of FileClaim is one stdio server process; the single path is   *)
(* mailbox-writers.lock.  tick() coalesces with a step that is running, so *)
(* a process is in at most one step, but shutdown runs beside that step.   *)
(*                                                                         *)
(* Faults, beside FileClaim's: "slowstart" (watcher.start, which logs in   *)
(* to every account, outlasts WRITER_LEASE_STALE_MS).                      *)
(***************************************************************************)
EXTENDS FileClaim, Naturals

CONSTANT MaxFailures   \* bound on the file-system failures in a behaviour

ASSUME FailuresCounted == MaxFailures \in Nat
ASSUME OneLeaseFile == \A p, q \in Paths : p = q

VARIABLES
  step,      \* step[a]: where the running step() is
  leading,   \* leading[a]: is a's token defined?
  writing,   \* writing[a]: are hooks, scheduler and watcher of a running?
  ticking,   \* ticking[a]: is the renewal interval set?
  started,   \* started[a]: has the client finished the handshake?
  life,      \* life[a]: where a is in shutdown
  stalled,   \* stalled[a]: has a's lease gone stale while a led? (history)
  failures   \* how many file-system calls have failed

leaseVars == <<step, leading, writing, ticking, started, life, stalled, failures>>
allVars == <<claimVars, leaseVars>>

\* The steps of shutdown: lease.halt waits for the running step, the writers
\* stop, the lease is released, connections and server close.
ShutdownSteps == {"halt", "stop", "logout", "release", "close"}
LeaseSteps == {"none", "acquire", "giveback", "start", "check", "touch", "logout"}

Halted(a) == life[a] # "up"
Alive(a) == life[a] # "gone"

LeaseInit ==
  /\ ClaimInit
  /\ step = [a \in Actors |-> "none"]
  /\ leading = [a \in Actors |-> FALSE]
  /\ writing = [a \in Actors |-> FALSE]
  /\ ticking = [a \in Actors |-> FALSE]
  /\ started = [a \in Actors |-> FALSE]
  /\ life = [a \in Actors |-> "up"]
  /\ stalled = [a \in Actors |-> FALSE]
  /\ failures = 0

Enter(a, s) == step' = [step EXCEPT ![a] = s]
Advance(a, s) == life' = [life EXCEPT ![a] = s]
Set(f, a, v) == f' = [f EXCEPT ![a] = v]

----------------------------------------------------------------------------
(* step() *)

\* lease.start(), once the client is initialized: even after a halt.
Start(a) ==
  /\ Alive(a)
  /\ ~started[a]
  /\ Set(started, a, TRUE)
  /\ Set(ticking, a, TRUE)
  /\ UNCHANGED <<claimVars, step, leading, writing, life, stalled, failures>>

Tick(a) ==
  /\ Alive(a)
  /\ ticking[a]
  /\ step[a] = "none"
  /\ IF leading[a]
     THEN Enter(a, "check") /\ UNCHANGED claimVars
     ELSE Enter(a, "acquire") /\ \E p \in Paths : Request(a, p)
  /\ UNCHANGED <<leading, writing, ticking, started, life, stalled, failures>>

\* acquireClaim returned no token, or threw: until the next tick.
Follow(a) ==
  /\ step[a] = "acquire"
  /\ GiveUp(a)
  /\ Enter(a, "none")
  /\ UNCHANGED <<leading, writing, ticking, started, life, stalled, failures>>

\* Mutant of Lead: halted is not looked at again after acquireClaim.
LeadThoughHalted(a) ==
  /\ step[a] = "acquire"
  /\ cpc[a] = "held"
  /\ Enter(a, "start")
  /\ Set(leading, a, TRUE)
  /\ Set(writing, a, TRUE)
  /\ Set(stalled, a, FALSE)
  /\ UNCHANGED <<claimVars, ticking, started, life, failures>>

\* acquireClaim returned a token.  A process that was halted meanwhile gives it
\* back; otherwise hooks and scheduler start at once and the watcher is awaited.
Lead(a) ==
  /\ step[a] = "acquire"
  /\ cpc[a] = "held"
  /\ IF Halted(a)
     THEN Enter(a, "giveback") /\ Release(a) /\ UNCHANGED <<leading, writing, stalled>>
     ELSE /\ Enter(a, "start")
          /\ Set(leading, a, TRUE)
          /\ Set(writing, a, TRUE)
          /\ Set(stalled, a, FALSE)
          /\ UNCHANGED claimVars
  /\ UNCHANGED <<ticking, started, life, failures>>

GivenBack(a) ==
  /\ step[a] = "giveback"
  /\ cpc[a] = "idle"
  /\ Enter(a, "none")
  /\ UNCHANGED <<claimVars, leading, writing, ticking, started, life, stalled, failures>>

\* onLead, or the logout of onLose, is over.
WritersSettled(a) ==
  /\ step[a] \in {"start", "logout"}
  /\ Enter(a, "none")
  /\ UNCHANGED <<claimVars, leading, writing, ticking, started, life, stalled, failures>>

\* Mutant of StillHeld: any file at the path counts as the leader's own.
StillHeldByAnyone(a) ==
  /\ step[a] = "check"
  /\ Enter(a, "touch")
  /\ UNCHANGED <<claimVars, leading, writing, ticking, started, life, stalled, failures>>

\* stillHeld: another token in the file, or no file, ends the lead.  onLose
\* stops scheduler, hooks and watcher at once; the watcher's logouts are awaited.
StillHeld(a) ==
  /\ step[a] = "check"
  /\ IF lock[cpath[a]].token = a
     THEN Enter(a, "touch") /\ UNCHANGED <<lock, parked, cpc, leading, writing>>
     ELSE /\ Enter(a, "logout")
          /\ Set(leading, a, FALSE)
          /\ Set(writing, a, FALSE)
          /\ EndClaim(a, lock)
  /\ UNCHANGED <<cpath, wentStale, ticking, started, life, stalled, failures>>

\* utimes on the path, whoever's file is there by now.
Touch(a) ==
  /\ step[a] = "touch"
  /\ Enter(a, "none")
  /\ lock' = [lock EXCEPT ![cpath[a]].old = FALSE]
  /\ UNCHANGED <<parked, cpc, cpath, wentStale>>
  /\ UNCHANGED <<leading, writing, ticking, started, life, stalled, failures>>

----------------------------------------------------------------------------
(* Shutdown *)

Halt(a) ==
  /\ life[a] = "up"
  /\ Advance(a, "halt")
  /\ Set(ticking, a, FALSE)
  /\ UNCHANGED <<claimVars, step, leading, writing, started, stalled, failures>>

\* Mutant of StepEnded: the lease is released before the writers stop.
ReleaseFirst(a) ==
  /\ life[a] = "halt"
  /\ step[a] = "none"
  /\ Advance(a, "stop")
  /\ Set(leading, a, FALSE)
  /\ IF leading[a] THEN Release(a) ELSE UNCHANGED claimVars
  /\ UNCHANGED <<step, writing, ticking, started, stalled, failures>>

\* `await running` returns when no step is running.
StepEnded(a) ==
  /\ life[a] = "halt"
  /\ step[a] = "none"
  /\ Advance(a, "stop")
  /\ UNCHANGED <<claimVars, step, leading, writing, ticking, started, stalled, failures>>

StopWriters(a) ==
  /\ life[a] = "stop"
  /\ Advance(a, "logout")
  /\ Set(writing, a, FALSE)
  /\ UNCHANGED <<claimVars, step, leading, ticking, started, stalled, failures>>

ReleaseLease(a) ==
  /\ life[a] = "logout"
  /\ Advance(a, "release")
  /\ Set(leading, a, FALSE)
  /\ IF leading[a] THEN Release(a) ELSE UNCHANGED claimVars
  /\ UNCHANGED <<step, writing, ticking, started, stalled, failures>>

\* releaseClaim is over, also when it failed.
Released(a) ==
  /\ life[a] = "release"
  /\ step[a] # "none" \/ cpc[a] = "idle"
  /\ Advance(a, "close")
  /\ UNCHANGED <<claimVars, step, leading, writing, ticking, started, stalled, failures>>

\* exit(), with whatever a step started after the halt has on disk.
Vanish(a) ==
  /\ Advance(a, "gone")
  /\ Enter(a, "none")
  /\ leading' = [leading EXCEPT ![a] = FALSE]
  /\ writing' = [writing EXCEPT ![a] = FALSE]
  /\ ticking' = [ticking EXCEPT ![a] = FALSE]
  /\ UNCHANGED <<started, stalled, failures>>

Exit(a) ==
  /\ life[a] = "close"
  /\ cpc[a] # "restore" \/ "parkloss" \in Faults
  /\ EndClaim(a, lock)
  /\ Vanish(a)
  /\ UNCHANGED <<cpath, wentStale>>

\* SHUTDOWN_DEADLINE_MS: a step that waits for the network is cut off.
Deadline(a) ==
  /\ \/ life[a] = "halt" /\ step[a] \in {"start", "logout"}
     \/ life[a] = "logout" /\ cpc[a] # "restore"
  /\ EndClaim(a, lock)
  /\ Vanish(a)
  /\ UNCHANGED <<cpath, wentStale>>

----------------------------------------------------------------------------
(* Claims, time and deaths *)

RunLeaseClaim(a) == ClaimStep(a) /\ UNCHANGED leaseVars

\* A tick that fails, or a release that does, leaves the lease to its age.
LeaseThrows(a) ==
  /\ failures < MaxFailures
  /\ failures' = failures + 1
  /\ AcquireThrows(a) \/ ReleaseThrows(a)
  /\ UNCHANGED <<step, leading, writing, ticking, started, life, stalled>>

\* Ticks renew the lease every WRITER_LEASE_RENEW_MS, but none runs during
\* onLead.
Renewed == Actors \ {a \in Actors : "slowstart" \in Faults /\ step[a] = "start"}

LeaseExpires(p) ==
  /\ GoStale(p, Renewed)
  /\ stalled' = [a \in Actors |-> stalled[a] \/ (leading[a] /\ lock[p].token = a)]
  /\ UNCHANGED <<step, leading, writing, ticking, started, life, failures>>

Die(a) ==
  /\ Alive(a)
  /\ ClaimCrash(a) \/ (cpc[a] = "idle" /\ "crash" \in Faults /\ UNCHANGED claimVars)
  /\ Vanish(a)

----------------------------------------------------------------------------

StepOf(a) ==
  \/ Tick(a) \/ Follow(a) \/ Lead(a) \/ GivenBack(a) \/ WritersSettled(a)
  \/ StillHeld(a) \/ Touch(a) \/ RunLeaseClaim(a)

ShutdownStep(a) ==
  StepEnded(a) \/ StopWriters(a) \/ ReleaseLease(a) \/ Released(a) \/ Exit(a)

LeaseNext ==
  \/ \E a \in Actors :
       \/ StepOf(a) \/ ShutdownStep(a)
       \/ Start(a) \/ Halt(a) \/ Deadline(a) \/ LeaseThrows(a) \/ Die(a)
  \/ \E p \in Paths : LeaseExpires(p)

(***************************************************************************)
(* Fairness.  A process whose interval is set ticks, and a step that runs  *)
(* ends: every wait in it has a timeout of its own.  Shutdown goes on when *)
(* the step it waits for has ended, though ticks may follow.  An unrenewed *)
(* lock gets old.  Nobody has to start, to halt or to die.                 *)
(***************************************************************************)
LeaseFairness ==
  /\ \A a \in Actors : WF_allVars(StepOf(a)) /\ SF_allVars(ShutdownStep(a))
  /\ \A p \in Paths : WF_allVars(LeaseExpires(p))

LeaseSpec == LeaseInit /\ [][LeaseNext]_allVars /\ LeaseFairness

----------------------------------------------------------------------------
(* Properties *)

\* A process that leads, or whose writers run, is in a step that knows it; a
\* process that does neither holds no claim outside a step or a shutdown.
LeaseTypeOK ==
  /\ ClaimTypeOK
  /\ step \in [Actors -> LeaseSteps]
  /\ life \in [Actors -> {"up", "gone"} \cup ShutdownSteps]
  /\ failures \in 0..MaxFailures
  /\ {leading, writing, ticking, started, stalled} \subseteq [Actors -> BOOLEAN]
  /\ \A a \in Actors :
       /\ leading[a] => cpc[a] = "held" /\ step[a] \in {"none", "start", "check", "touch"}
       /\ writing[a] => leading[a]
       /\ step[a] = "none" /\ life[a] # "release" => (leading[a] <=> cpc[a] = "held")

\* "Hooks, the IMAP IDLE watcher and the scheduler run in one of them only".
OneWriter == \A a, b \in Actors : writing[a] /\ writing[b] => a = b

\* The same for processes whose lease never went stale under them: no order of
\* ticks, take-overs, halts, deadlines and deaths makes both write.
OneWriterUnlessStalled ==
  \A a, b \in Actors :
    writing[a] /\ writing[b] /\ ~stalled[a] /\ ~stalled[b] => a = b

\* A process that lost its lease finds out and stops its writers, unless the
\* lock it sees next is its own again.
DisplacedStops ==
  \A a \in Actors :
    (writing[a] /\ lock[cpath[a]].token # a)
      ~> (~writing[a] \/ lock[cpath[a]].token = a)

\* "the others try for the lock": while a process keeps trying, somebody's
\* writers run again and again, whatever the processes before it left behind.
SomeoneWrites ==
  \A a \in Actors :
    (ticking[a] /\ ~Halted(a)) ~> (Halted(a) \/ \E b \in Actors : writing[b])
============================================================================
