----------------------------- MODULE Scheduler -----------------------------
(***************************************************************************)
(* The scheduled-send queue: src/src/services/scheduler.service.ts.        *)
(*                                                                         *)
(* A scheduled email is one JSON record in the queue directory, moved to   *)
(* its sent/ subdirectory at the end.  Any number of processes check the   *)
(* queue (server timers, `mailoo scheduler check`) and cancel from it; the *)
(* only thing they share is the file system, so one action is one read or  *)
(* one atomic replacement of a record, or one step of FileClaim.  A path p *)
(* of FileClaim stands for the email whose claim it is.                    *)
(*                                                                         *)
(* Faults, beside FileClaim's: "recordfail" (a record write or move fails, *)
(* as on a full disk), "ambiguous" (SMTP accepts but the sender sees an    *)
(* error), "slow" (an IMAP call outlasts STALE_LOCK_MS).                   *)
(***************************************************************************)
EXTENDS FileClaim, Naturals

CONSTANTS
  Checkers,      \* actors that run checkAndSend
  Cancellers,    \* actors that run cancel
  Procs,         \* processes that schedule emails
  MaxAttempts,   \* MAX_ATTEMPTS
  MaxPending,    \* MAX_PENDING_SCHEDULES
  MaxCrashes,    \* bound on the deaths of actors in a behaviour
  MaxSends       \* bound on the acceptances of one email, out of the code's reach

ASSUME SchedulerConstants ==
  /\ Checkers \subseteq Actors /\ Cancellers \subseteq Actors
  /\ MaxAttempts \in Nat \ {0} /\ MaxPending \in Nat \ {0} /\ MaxCrashes \in Nat
  /\ MaxSends \in Nat /\ MaxSends > MaxAttempts

VARIABLES
  rec,        \* rec[p]: the record in the queue directory
  done,       \* done[p]: the record in sent/
  due,        \* due[p]: has its send time been reached?
  op,         \* op[a]: where a is in checkAndSend or cancel
  copy,       \* copy[a]: the record a has read
  plan,       \* plan[r]: is r's schedule call past its count?
  crashes,    \* how many actors have died
  \* History: what SMTP and the user were told.
  accepted,   \* accepted[p]: how often SMTP accepted p
  planned,    \* planned[p]: was p queued?
  cancelled   \* cancelled[p]: was its sender told that p is cancelled?

recordVars == <<rec, done>>
historyVars == <<accepted, planned, cancelled>>
schedVars == <<rec, done, due, op, copy, plan, crashes, accepted, planned, cancelled>>
vars == <<claimVars, schedVars>>

Record == [status : {"none", "pending", "sending", "sent", "failed"}, attempts : Nat]
NoRecord == [status |-> "none", attempts |-> 0]

Init ==
  /\ ClaimInit
  \* A schedule id is a fresh UUID: no lock or record can precede it.
  /\ lock = [p \in Paths |-> Absent]
  /\ rec = [p \in Paths |-> NoRecord]
  /\ done = [p \in Paths |-> NoRecord]
  /\ due = [p \in Paths |-> FALSE]
  /\ op = [a \in Actors |-> "idle"]
  /\ copy = [a \in Actors |-> NoRecord]
  /\ plan = [r \in Procs |-> FALSE]
  \* At most MaxCrashes actors die from here on, or fewer.
  /\ crashes \in 0..MaxCrashes
  /\ accepted = [p \in Paths |-> 0]
  /\ planned = [p \in Paths |-> FALSE]
  /\ cancelled = [p \in Paths |-> FALSE]

Do(a, step) == op' = [op EXCEPT ![a] = step]
Write(p, r) == rec' = [rec EXCEPT ![p] = r] /\ UNCHANGED done

\* Mutant of Finish: no `finally`, the claim is kept.
FinishUnreleased(a) == Do(a, "idle") /\ UNCHANGED claimVars

\* The claim of p is over: `finally` releases it if it was taken.
Finish(a) ==
  /\ Do(a, "idle")
  /\ IF cpc[a] = "held" THEN Release(a) ELSE UNCHANGED claimVars

----------------------------------------------------------------------------
(* schedule(): calls in one process run one after the other (scheduleChain) *)

Live == {p \in Paths : rec[p].status \in {"pending", "sending"}}

\* Mutant of CountLive: `>` for `>=`.
CountOneMore(r) ==
  /\ ~plan[r]
  /\ ~(Cardinality(Live) > MaxPending)
  /\ plan' = [plan EXCEPT ![r] = TRUE]
  /\ UNCHANGED <<claimVars, rec, done, due, op, copy, crashes, historyVars>>

CountLive(r) ==
  /\ ~plan[r]
  /\ ~(Cardinality(Live) >= MaxPending)
  /\ plan' = [plan EXCEPT ![r] = TRUE]
  /\ UNCHANGED <<claimVars, rec, done, due, op, copy, crashes, historyVars>>

\* After the draft is saved, as far as that works.  sendAt is in the future.
WriteNew(r, p) ==
  /\ plan[r]
  /\ ~planned[p]
  /\ Write(p, [status |-> "pending", attempts |-> 0])
  /\ planned' = [planned EXCEPT ![p] = TRUE]
  /\ plan' = [plan EXCEPT ![r] = FALSE]
  /\ UNCHANGED <<claimVars, due, op, copy, crashes, accepted, cancelled>>

\* The record cannot be written, or the process dies first: nothing is queued.
AbandonPlan(r) ==
  /\ Faults \cap {"crash", "recordfail"} # {}
  /\ plan[r]
  /\ plan' = [plan EXCEPT ![r] = FALSE]
  /\ UNCHANGED <<claimVars, rec, done, due, op, copy, crashes, historyVars>>

BecomeDue(p) ==
  /\ planned[p]
  /\ ~due[p]
  /\ due' = [due EXCEPT ![p] = TRUE]
  /\ UNCHANGED <<claimVars, rec, done, op, copy, plan, crashes, historyVars>>

----------------------------------------------------------------------------
(* checkAndSend(): processQueueFile for each file, one after the other      *)

IsDelivered(r) == r.status = "sent"
\* Mutant of IsDue: only "pending" is due, so a record left at "sending" is not.
IsDuePending(r, p) == r.status = "pending" /\ due[p]

IsDue(r, p) == r.status \in {"pending", "sending"} /\ due[p]

others == <<due, plan, crashes, historyVars>>

\* The record is read without the claim, and decides what the claim is for.
ReadQueueFile(a, p) ==
  /\ op[a] = "idle"
  /\ IsDelivered(rec[p]) \/ IsDue(rec[p], p)
  /\ Request(a, p)
  /\ Do(a, IF IsDelivered(rec[p]) THEN "settle" ELSE "send")
  /\ UNCHANGED <<recordVars, copy, others>>

\* Somebody else has the claim: skipped, or "already being sent" for a cancel.
Skip(a) ==
  /\ cpc[a] = "denied"
  /\ GiveUp(a)
  /\ Do(a, "idle")
  /\ UNCHANGED <<recordVars, copy, others>>

\* claimSchedule threw.  processQueueFile's catch rewrites the record, although
\* this check holds no claim on it; cancel only rethrows.
ClaimThrew(a) ==
  /\ cpc[a] = "threw"
  /\ GiveUp(a)
  /\ Do(a, IF op[a] = "cancel" THEN "idle" ELSE "failread")
  /\ UNCHANGED <<recordVars, copy, others>>

\* rename(pending/p, sent/p); ENOENT leaves both directories as they are.
MoveToSent(p) ==
  IF rec[p] = NoRecord
  THEN UNCHANGED recordVars
  ELSE /\ done' = [done EXCEPT ![p] = rec[p]]
       /\ rec' = [rec EXCEPT ![p] = NoRecord]

Settle(a) ==
  /\ cpc[a] = "held" /\ op[a] = "settle"
  /\ \/ MoveToSent(cpath[a])
     \/ "recordfail" \in Faults /\ UNCHANGED recordVars
  /\ Finish(a)
  /\ UNCHANGED <<copy, others>>

\* Mutants of Reread: the record is not looked at again once it is claimed; an
\* attempt too many.
RereadSkipped(a) ==
  /\ cpc[a] = "held" /\ op[a] = "send"
  /\ copy' = [copy EXCEPT ![a] = rec[cpath[a]]]
  /\ Do(a, IF rec[cpath[a]].attempts >= MaxAttempts THEN "markfailed" ELSE "marksending")
  /\ UNCHANGED <<claimVars, recordVars, others>>

RereadOneMore(a) ==
  LET r == rec[cpath[a]]
  IN /\ cpc[a] = "held" /\ op[a] = "send"
     /\ IF ~IsDue(r, cpath[a])
        THEN Finish(a) /\ UNCHANGED copy
        ELSE /\ copy' = [copy EXCEPT ![a] = r]
             /\ Do(a, IF r.attempts > MaxAttempts THEN "markfailed" ELSE "marksending")
             /\ UNCHANGED claimVars
     /\ UNCHANGED <<recordVars, others>>

\* sendIfStillDue reads the record again, now under the claim.
Reread(a) ==
  LET r == rec[cpath[a]]
  IN /\ cpc[a] = "held" /\ op[a] = "send"
     /\ IF ~IsDue(r, cpath[a])
        THEN Finish(a) /\ UNCHANGED copy
        ELSE /\ copy' = [copy EXCEPT ![a] = r]
             /\ Do(a, IF r.attempts >= MaxAttempts THEN "markfailed" ELSE "marksending")
             /\ UNCHANGED claimVars
     /\ UNCHANGED <<recordVars, others>>

MarkFailed(a) ==
  /\ op[a] = "markfailed"
  /\ \/ Write(cpath[a], [copy[a] EXCEPT !.status = "failed"]) /\ Finish(a)
     \/ /\ "recordfail" \in Faults
        /\ Do(a, "failread")
        /\ UNCHANGED <<recordVars, claimVars>>
  /\ UNCHANGED <<copy, others>>

\* Mutant of MarkSending: the record says sent before SMTP is asked.
MarkSentEarly(a) ==
  /\ op[a] = "marksending"
  /\ Write(cpath[a], [status |-> "sent", attempts |-> copy[a].attempts + 1])
  /\ Do(a, "smtp")
  /\ UNCHANGED <<claimVars, copy, others>>

MarkSending(a) ==
  /\ op[a] = "marksending"
  /\ \/ /\ Write(cpath[a], [status |-> "sending", attempts |-> copy[a].attempts + 1])
        /\ Do(a, "smtp")
     \/ /\ "recordfail" \in Faults
        /\ Do(a, "failread")
        /\ UNCHANGED recordVars
  /\ UNCHANGED <<claimVars, copy, others>>

\* smtpService.sendEmail resolves, or rejects with or without the message
\* having been accepted.
SendEmail(a) ==
  /\ op[a] = "smtp"
  /\ \E taken \in BOOLEAN, resolves \in BOOLEAN :
       /\ resolves => taken
       /\ taken /\ ~resolves => "ambiguous" \in Faults
       /\ taken => accepted[cpath[a]] < MaxSends
       /\ accepted' = [accepted EXCEPT ![cpath[a]] = IF taken THEN @ + 1 ELSE @]
       /\ Do(a, IF resolves THEN "recordsent" ELSE "failread")
  /\ UNCHANGED <<claimVars, recordVars, due, copy, plan, crashes, planned, cancelled>>

\* ... or rejects with RateLimitError, before anything reached SMTP.
HeldBack(a) ==
  /\ op[a] = "smtp"
  /\ Do(a, "restore")
  /\ UNCHANGED <<claimVars, recordVars, copy, others>>

\* The record goes back as it was queued: no attempt was used.
RestoreQueued(a) ==
  /\ op[a] = "restore"
  /\ \/ Write(cpath[a], copy[a]) /\ Finish(a)
     \/ /\ "recordfail" \in Faults
        /\ Do(a, "failread")
        /\ UNCHANGED <<recordVars, claimVars>>
  /\ UNCHANGED <<copy, others>>

\* recordSent: first the record, then the move, which is tried in any case.
RecordSent(a) ==
  /\ op[a] = "recordsent"
  /\ \/ Write(cpath[a], [status |-> "sent", attempts |-> copy[a].attempts + 1])
     \/ "recordfail" \in Faults /\ UNCHANGED recordVars
  /\ Do(a, "move")
  /\ UNCHANGED <<claimVars, copy, others>>

MoveSent(a) ==
  /\ op[a] = "move"
  /\ \/ MoveToSent(cpath[a])
     \/ "recordfail" \in Faults /\ UNCHANGED recordVars
  /\ Finish(a)
  /\ UNCHANGED <<copy, others>>

\* writeSendFailure reads the record that is there now ...
FailRead(a) ==
  LET r == rec[cpath[a]]
  IN /\ op[a] = "failread"
     /\ IF r = NoRecord
        THEN Finish(a) /\ UNCHANGED copy
        ELSE /\ copy' = [copy EXCEPT ![a] = r]
             /\ Do(a, "failwrite")
             /\ UNCHANGED claimVars
     /\ UNCHANGED <<recordVars, others>>

\* ... and replaces it, whatever its status was.
FailWrite(a) ==
  /\ op[a] = "failwrite"
  /\ \/ Write(cpath[a], [copy[a] EXCEPT !.status =
                           IF copy[a].attempts >= MaxAttempts THEN "failed" ELSE "pending"])
     \/ "recordfail" \in Faults /\ UNCHANGED recordVars
  /\ Finish(a)
  /\ UNCHANGED <<copy, others>>

----------------------------------------------------------------------------
(* cancel()                                                                *)

CancelRead(a, p) ==
  /\ op[a] = "idle"
  /\ rec[p].status = "pending"
  /\ Request(a, p)
  /\ Do(a, "cancel")
  /\ UNCHANGED <<recordVars, copy, others>>

CancelReread(a) ==
  /\ cpc[a] = "held" /\ op[a] = "cancel"
  /\ IF rec[cpath[a]].status # "pending"
     THEN Finish(a)
     ELSE Do(a, "deletedraft") /\ UNCHANGED claimVars
  /\ UNCHANGED <<recordVars, copy, others>>

\* The draft is gone, as far as that works; now the record.
CancelUnlink(a) ==
  LET p == cpath[a]
  IN /\ op[a] = "deletedraft"
     /\ Write(p, NoRecord)
     /\ cancelled' = [cancelled EXCEPT ![p] = @ \/ rec[p] # NoRecord]
     /\ Finish(a)
     /\ UNCHANGED <<copy, due, plan, crashes, accepted, planned>>

----------------------------------------------------------------------------
(* Claims, time and deaths                                                 *)

RunClaim(a) == ClaimStep(a) /\ UNCHANGED schedVars

\* sendClaimedEmail renews its claim from the first record write to the last.
RenewClaim(a) ==
  /\ op[a] \in {"smtp", "restore", "recordsent", "move"}
  /\ Renew(a)
  /\ UNCHANGED schedVars

\* cancel does not renew its claim while it waits for IMAP.
Punctual ==
  Actors \ {a \in Actors : "slow" \in Faults /\ op[a] = "deletedraft"}

Expire(p) == GoStale(p, Punctual) /\ UNCHANGED schedVars

Throw(a) ==
  /\ AcquireThrows(a) \/ ReleaseThrows(a)
  /\ UNCHANGED schedVars

\* An actor dies at any step, with or without a claim.
Crash(a) ==
  /\ crashes < MaxCrashes
  /\ crashes' = crashes + 1
  /\ Do(a, "idle")
  /\ \/ ClaimCrash(a)
     \/ cpc[a] = "idle" /\ op[a] # "idle" /\ "crash" \in Faults /\ UNCHANGED claimVars
  /\ UNCHANGED <<recordVars, due, copy, plan, historyVars>>

----------------------------------------------------------------------------

CheckStep(a) ==
  \/ Settle(a) \/ Reread(a) \/ MarkFailed(a) \/ MarkSending(a)
  \/ SendEmail(a) \/ HeldBack(a) \/ RestoreQueued(a)
  \/ RecordSent(a) \/ MoveSent(a) \/ FailRead(a) \/ FailWrite(a)

CancelStep(a) == CancelReread(a) \/ CancelUnlink(a)

Next ==
  \/ \E r \in Procs : CountLive(r) \/ AbandonPlan(r) \/ \E p \in Paths : WriteNew(r, p)
  \/ \E p \in Paths : BecomeDue(p) \/ Expire(p)
  \/ \E a \in Checkers, p \in Paths : ReadQueueFile(a, p)
  \/ \E a \in Cancellers, p \in Paths : CancelRead(a, p)
  \/ \E a \in Actors :
       \/ RunClaim(a) \/ Skip(a) \/ ClaimThrew(a) \/ RenewClaim(a)
       \/ CheckStep(a) \/ CancelStep(a)
       \/ Throw(a) \/ Crash(a)

Spec == Init /\ [][Next]_vars

(***************************************************************************)
(* Fairness.  An actor that is running keeps running; every pass of a      *)
(* check reads every file and a pass starts every SCHEDULER_INTERVAL_MS,   *)
(* so a file that keeps being due keeps being read; a lock nobody renews   *)
(* gets old; the rate limit lets a waiting email through in the end; and   *)
(* the disk of an actor that keeps writing records takes one in the end.   *)
(***************************************************************************)
Fairness ==
  /\ \A a \in Actors : WF_vars(RunClaim(a) \/ Skip(a) \/ CheckStep(a) \/ CancelStep(a))
  /\ \A a \in Actors : SF_vars(SendEmail(a)) /\ SF_vars(CheckStep(a) /\ recordVars' # recordVars)
  /\ \A a \in Checkers, p \in Paths : SF_vars(ReadQueueFile(a, p))
  /\ \A p \in Paths : WF_vars(Expire(p))

FairSpec == Spec /\ Fairness

----------------------------------------------------------------------------
(* Properties *)

SchedTypeOK ==
  /\ ClaimTypeOK
  /\ rec \in [Paths -> Record]
  /\ done \in [Paths -> Record]
  /\ due \in [Paths -> BOOLEAN]
  /\ copy \in [Actors -> Record]
  /\ plan \in [Procs -> BOOLEAN]
  /\ crashes \in 0..MaxCrashes
  /\ accepted \in [Paths -> Nat]
  /\ planned \in [Paths -> BOOLEAN]
  /\ cancelled \in [Paths -> BOOLEAN]
  \* Between messages to others an actor is in a step it can leave.
  /\ \A a \in Actors :
       CASE op[a] = "idle" -> cpc[a] \in {"idle", "release", "unlink"}
         [] op[a] \in {"settle", "send", "cancel"} ->
              cpc[a] \in AcquireSteps \cup {"denied", "threw", "held"}
         [] op[a] \in {"failread", "failwrite"} -> cpc[a] \in {"idle", "held"}
         [] op[a] \in {"markfailed", "marksending", "smtp", "restore", "recordsent",
                       "move", "deletedraft"} -> cpc[a] = "held"
         [] OTHER -> FALSE

\* The record says how often SMTP can have accepted the email: no crash, lost
\* answer or failed write lets a send go out without an attempt on record, and
\* attempts stop at MAX_ATTEMPTS.
AcceptedIsOnRecord ==
  \A p \in Paths :
    /\ ~cancelled[p] => accepted[p] <= rec[p].attempts + done[p].attempts
    /\ rec[p].attempts + done[p].attempts <= MaxAttempts

\* A queued email is in exactly one of the two directories until it is
\* cancelled, and then in neither: no interleaving of moves, rewrites and deaths
\* loses its record, doubles it or brings it back.  Only a record whose email
\* was sent gets to sent/.
OneRecord ==
  \A p \in Paths :
    /\ planned[p] => IF cancelled[p]
                     THEN rec[p] = NoRecord /\ done[p] = NoRecord
                     ELSE (rec[p] = NoRecord) # (done[p] = NoRecord)
    /\ done[p].status \in {"none", "sending", "sent"}

\* The record tells all there is to know of an email.
RecordTellsAll == AcceptedIsOnRecord /\ OneRecord

\* What the queue says in the end is true, whatever fails and however many
\* actors believe they hold a claim: sent, or moved to sent/, only if SMTP
\* accepted the email; failed only after MAX_ATTEMPTS attempts.
OutcomeIsTrue ==
  \A p \in Paths :
    /\ (rec[p].status = "sent" \/ done[p] # NoRecord) => accepted[p] > 0
    /\ rec[p].status = "failed" => rec[p].attempts = MaxAttempts

\* scheduleChain makes the cap exact within a process; processes that count at
\* the same time exceed it by at most one email each.
LiveWithinCap == Cardinality(Live) <= MaxPending + Cardinality(Procs) - 1

\* "A record that says sent is never due again": nothing that checks, fails,
\* dies or cancels gets SMTP to accept an email once its record said sent.
NeverResent ==
  [][\A p \in Paths : accepted'[p] > accepted[p] =>
        rec[p].status # "sent" /\ done[p] = NoRecord]_vars

\* A sender who was told that an email is cancelled does not see it sent.
CancelledNotSent ==
  [][\A p \in Paths : cancelled[p] => accepted'[p] = accepted[p]]_vars

\* Every email that becomes due is settled in the end: sent, failed after
\* MAX_ATTEMPTS, or cancelled, even if actors die holding its claim.
Settled(p) == done[p] # NoRecord \/ rec[p].status = "failed" \/ cancelled[p]
DueIsSettled == \A p \in Paths : due[p] ~> Settled(p)

EmailState(p) ==
  CASE cancelled[p] -> "cancelled"
    [] ~cancelled[p] /\ (rec[p].status = "sent" \/ done[p] # NoRecord) -> "sent"
    [] ~cancelled[p] /\ done[p] = NoRecord /\ rec[p].status = "failed" -> "failed"
    [] OTHER -> IF planned[p] THEN "queued" ELSE "unplanned"

Lifecycle == INSTANCE MailLifecycle
               WITH Emails <- Paths, state <- [p \in Paths |-> EmailState(p)]

\* The queue of files, claims and processes is the queue its users were promised.
ImplementsLifecycle == Lifecycle!LifeSpec
============================================================================
