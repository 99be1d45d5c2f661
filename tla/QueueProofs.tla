---------------------------- MODULE QueueProofs ----------------------------
(***************************************************************************)
(* The queue of Scheduler, for any number of actors, emails and processes, *)
(* any limit of attempts and any faults.                                   *)
(*                                                                         *)
(* First what needs no claim: what the queue says is true                  *)
(* (OutcomeIsTrue), because whoever moves a record to sent/ or writes that *)
(* it is sent has seen SMTP accept it, or a record that says so, and no    *)
(* write of a record goes beyond MaxAttempts.                              *)
(*                                                                         *)
(* Then what the claims do for it.  The queue uses them as FileClaim       *)
(* allows (ClaimUse), so what FileClaimProofs proves of claims holds here; *)
(* and while no claim is held twice, whoever works on a record works on it *)
(* alone (InCharge), the record tells what happened to its email, the      *)
(* queue implements MailLifecycle, and the cap holds.                      *)
(***************************************************************************)
EXTENDS Scheduler, FileClaimProofs, FiniteSetTheorems, TLAPS

(***************************************************************************)
(* What needs no claim: the records are honest.                            *)
(***************************************************************************)

CheckSteps == {"idle", "settle", "send", "markfailed", "marksending", "smtp", "restore",
               "recordsent", "move", "failread", "failwrite", "cancel", "deletedraft"}

\* The part of SchedTypeOK the argument needs.
RecordTypes ==
  /\ rec \in [Paths -> Record] /\ done \in [Paths -> Record]
  /\ copy \in [Actors -> Record]
  /\ op \in [Actors -> CheckSteps]
  /\ cpath \in [Actors -> Paths]
  /\ accepted \in [Paths -> Nat]

\* A record is honest about p.
Honest(r, p) ==
  /\ r.attempts <= MaxAttempts
  /\ r.status = "sent" => accepted[p] > 0
  /\ r.status = "failed" => r.attempts = MaxAttempts

\* The steps that carry a copy of the record of cpath[a] to a later write.
Carrying == {"markfailed", "marksending", "smtp", "restore", "recordsent", "move", "failwrite"}

\* What an actor has read or seen when it is about to write: an honest copy,
\* with an attempt left if it sends, and SMTP's acceptance if it says sent.
Informed(a) ==
  /\ op[a] \in Carrying => Honest(copy[a], cpath[a])
  /\ op[a] = "markfailed" => copy[a].attempts = MaxAttempts
  /\ op[a] \in {"marksending", "smtp", "restore", "recordsent", "move"} =>
       copy[a].attempts < MaxAttempts
  /\ op[a] \in {"settle", "recordsent", "move"} => accepted[cpath[a]] > 0

HonestInv ==
  /\ RecordTypes
  /\ \A p \in Paths : Honest(rec[p], p)
  /\ \A p \in Paths : done[p] # NoRecord => accepted[p] > 0
  /\ \A a \in Actors : Informed(a)

----------------------------------------------------------------------------
(* Records *)

\* No record is an honest record.
LEMMA NoRecordIsHonest ==
  NoRecord \in Record /\ \A p \in Paths : Honest(NoRecord, p)
BY SchedulerConstants DEF NoRecord, Record, Honest

\* The records the queue writes are records, and a change of status keeps the
\* attempts.
LEMMA RecordForms ==
  /\ \A s \in {"none", "pending", "sending", "sent", "failed"}, n \in Nat :
       /\ [status |-> s, attempts |-> n] \in Record
       /\ [status |-> s, attempts |-> n].status = s
       /\ [status |-> s, attempts |-> n].attempts = n
  /\ \A s \in {"none", "pending", "sending", "sent", "failed"}, r \in Record :
       /\ [r EXCEPT !.status = s] \in Record
       /\ [r EXCEPT !.status = s].status = s
       /\ [r EXCEPT !.status = s].attempts = r.attempts
  /\ \A r \in Record : r.attempts \in Nat
BY DEF Record

----------------------------------------------------------------------------
(* What a step may do *)

\* Acceptances are never taken back, so what was honest stays honest and who
\* was informed stays informed.
LEMMA HonestyLasts ==
  ASSUME HonestInv, NEW b \in Actors,
         accepted' \in [Paths -> Nat],
         \A p \in Paths : accepted'[p] >= accepted[p],
         op'[b] = op[b], copy'[b] = copy[b], cpath'[b] = cpath[b]
  PROVE  Informed(b)'
<1>1. cpath[b] \in Paths /\ accepted'[cpath[b]] >= accepted[cpath[b]]
      /\ accepted[cpath[b]] \in Nat /\ accepted'[cpath[b]] \in Nat
  BY DEF HonestInv, RecordTypes
<1>2. Informed(b)
  BY DEF HonestInv
<1>3. QED
  BY <1>1, <1>2 DEF Informed, Honest

\* A step of one actor keeps the invariant if the records it leaves are honest
\* and the actor is informed afterwards.
LEMMA OneActorStep ==
  ASSUME HonestInv, NEW a \in Actors,
         RecordTypes',
         \A p \in Paths : accepted'[p] >= accepted[p],
         \A b \in Actors \ {a} :
           op'[b] = op[b] /\ copy'[b] = copy[b] /\ cpath'[b] = cpath[b],
         \A p \in Paths : Honest(rec[p], p)',
         \A p \in Paths : done'[p] # NoRecord => accepted'[p] > 0,
         Informed(a)'
  PROVE  HonestInv'
<1>1. ASSUME NEW b \in Actors
      PROVE  Informed(b)'
  <2>1. CASE b = a
    BY <2>1
  <2>2. CASE b # a
    BY <2>2, HonestyLasts DEF RecordTypes
  <2>3. QED
    BY <2>1, <2>2
<1>2. QED
  BY <1>1 DEF HonestInv

\* A step that touches neither the records nor what SMTP was told keeps the
\* invariant if its actor is informed afterwards.
LEMMA QuietStep ==
  ASSUME HonestInv, NEW a \in Actors,
         UNCHANGED <<rec, done, accepted>>,
         RecordTypes',
         \A b \in Actors \ {a} :
           op'[b] = op[b] /\ copy'[b] = copy[b] /\ cpath'[b] = cpath[b],
         Informed(a)'
  PROVE  HonestInv'
<1>1. \A p \in Paths : accepted'[p] >= accepted[p]
  BY DEF HonestInv, RecordTypes
<1>2. \A p \in Paths : Honest(rec[p], p)'
  BY DEF HonestInv, Honest
<1>3. \A p \in Paths : done'[p] # NoRecord => accepted'[p] > 0
  BY DEF HonestInv
<1>4. QED
  BY <1>1, <1>2, <1>3, OneActorStep

\* Releasing a claim leaves the records and the paths alone, and ends in "idle".
LEMMA FinishEffect ==
  ASSUME HonestInv, NEW a \in Actors, Finish(a)
  PROVE  op' = [op EXCEPT ![a] = "idle"] /\ cpath' = cpath
BY DEF Finish, Do, Release, claimVars

\* A step of one actor that writes a record at its path and is done with it, or
\* goes on to step.
LEMMA WriteStep ==
  ASSUME HonestInv, NEW a \in Actors, NEW r \in Record, NEW step \in CheckSteps,
         Write(cpath[a], r), Honest(r, cpath[a]),
         op' = [op EXCEPT ![a] = step], Informed(a)',
         UNCHANGED <<copy, cpath, accepted>>
  PROVE  HonestInv'
<1>1. RecordTypes'
  BY DEF HonestInv, RecordTypes, Write
<1>2. \A p \in Paths : Honest(rec[p], p)'
  BY DEF HonestInv, RecordTypes, Write, Honest
<1>3. \A p \in Paths : done'[p] # NoRecord => accepted'[p] > 0
  BY DEF HonestInv, Write
<1>4. \A p \in Paths : accepted'[p] >= accepted[p]
  BY DEF HonestInv, RecordTypes
<1>5. \A b \in Actors \ {a} : op'[b] = op[b] /\ copy'[b] = copy[b] /\ cpath'[b] = cpath[b]
  BY DEF HonestInv, RecordTypes
<1>6. QED
  BY <1>1, <1>2, <1>3, <1>4, <1>5, OneActorStep

\* Moving a record to sent/ is safe once SMTP accepted its email.
LEMMA MoveStep ==
  ASSUME HonestInv, NEW a \in Actors,
         MoveToSent(cpath[a]) \/ UNCHANGED recordVars,
         accepted[cpath[a]] > 0,
         op' = [op EXCEPT ![a] = "idle"],
         UNCHANGED <<copy, cpath, accepted>>
  PROVE  HonestInv'
<1>1. RecordTypes'
  BY NoRecordIsHonest DEF HonestInv, RecordTypes, MoveToSent, recordVars, CheckSteps
<1>2. \A p \in Paths : Honest(rec[p], p)'
  BY NoRecordIsHonest DEF HonestInv, RecordTypes, MoveToSent, recordVars, Honest
<1>3. \A p \in Paths : done'[p] # NoRecord => accepted'[p] > 0
  BY DEF HonestInv, RecordTypes, MoveToSent, recordVars
<1>4. \A p \in Paths : accepted'[p] >= accepted[p]
  BY DEF HonestInv, RecordTypes
<1>5. \A b \in Actors \ {a} : op'[b] = op[b] /\ copy'[b] = copy[b] /\ cpath'[b] = cpath[b]
  BY DEF HonestInv, RecordTypes
<1>6. Informed(a)'
  BY DEF HonestInv, RecordTypes, Informed, Carrying
<1>7. QED
  BY <1>1, <1>2, <1>3, <1>4, <1>5, <1>6, OneActorStep

----------------------------------------------------------------------------
(* The queue starts empty *)

\* An empty queue says nothing that could be untrue.
LEMMA HonestInit == Init => HonestInv
<1> SUFFICES ASSUME Init PROVE HonestInv
  OBVIOUS
<1>1. RecordTypes
  BY NoRecordIsHonest DEF Init, ClaimInit, RecordTypes, CheckSteps
<1>2. \A a \in Actors : Informed(a)
  BY DEF Init, Informed, Carrying
<1>3. QED
  BY <1>1, <1>2, NoRecordIsHonest DEF Init, HonestInv

----------------------------------------------------------------------------
(* Every step keeps the queue honest *)

\* The state the invariant speaks of.
LEMMA Untouched ==
  HonestInv /\ UNCHANGED <<rec, done, op, copy, cpath, accepted>> => HonestInv'
BY DEF HonestInv, RecordTypes, Honest, Informed

\* A step of FileClaim after the request keeps every actor on its path.
LEMMA ClaimKeepsPath ==
  ASSUME NEW a \in Actors,
         \/ ClaimStep(a) \/ Renew(a) \/ AcquireThrows(a) \/ ReleaseThrows(a)
         \/ ClaimCrash(a) \/ GiveUp(a) \/ Release(a)
         \/ \E p \in Paths : GoStale(p, Punctual)
  PROVE  cpath' = cpath
BY DEF ClaimStep, Create, Stat, Recreate, Park, Restore, Take, ReleaseRead, ReleaseUnlink,
       Renew, AcquireThrows, ReleaseThrows, ClaimCrash, GiveUp, Release, GoStale

\* An actor that only moves on to a step that carries nothing stays informed.
LEMMA MoveOnStep ==
  ASSUME HonestInv, NEW a \in Actors, NEW step \in CheckSteps \ (Carrying \cup {"settle"}),
         op' = [op EXCEPT ![a] = step],
         UNCHANGED <<rec, done, accepted, cpath>>,
         copy' \in [Actors -> Record],
         \A b \in Actors \ {a} : copy'[b] = copy[b]
  PROVE  HonestInv'
<1>1. RecordTypes'
  BY DEF HonestInv, RecordTypes, CheckSteps
<1>2. Informed(a)'
  BY DEF HonestInv, RecordTypes, Informed, Carrying
<1>3. \A b \in Actors \ {a} : op'[b] = op[b] /\ cpath'[b] = cpath[b]
  BY DEF HonestInv, RecordTypes
<1>4. QED
  BY <1>1, <1>2, <1>3, QuietStep

\* Ending a claim and its check or cancel.
LEMMA FinishStep ==
  ASSUME HonestInv, NEW a \in Actors, Finish(a),
         UNCHANGED <<rec, done, accepted, copy>>
  PROVE  HonestInv'
<1>1. "idle" \in CheckSteps \ (Carrying \cup {"settle"})
  BY DEF CheckSteps, Carrying
<1>2. copy' \in [Actors -> Record]
  BY DEF HonestInv, RecordTypes
<1>3. QED
  BY <1>1, <1>2, FinishEffect, MoveOnStep

\* An actor that copies the record at its path, or keeps its copy, and goes on
\* to a step for which that copy is good.
LEMMA CopyStep ==
  ASSUME HonestInv, NEW a \in Actors, NEW step \in CheckSteps,
         op' = [op EXCEPT ![a] = step],
         \/ copy' = [copy EXCEPT ![a] = rec[cpath[a]]]
         \/ copy' = copy,
         Informed(a)',
         UNCHANGED <<rec, done, accepted, cpath>>
  PROVE  HonestInv'
<1>1. RecordTypes'
  BY DEF HonestInv, RecordTypes
<1>2. \A b \in Actors \ {a} : op'[b] = op[b] /\ copy'[b] = copy[b] /\ cpath'[b] = cpath[b]
  BY DEF HonestInv, RecordTypes
<1>3. QED
  BY <1>1, <1>2, QuietStep

\* Requesting a claim: it is requested for settling only by an actor that read
\* a record that says sent.
LEMMA RequestStep ==
  ASSUME HonestInv, NEW a \in Actors, NEW p \in Paths,
         Request(a, p), NEW step \in {"settle", "send", "cancel"}, Do(a, step),
         step = "settle" => IsDelivered(rec[p]),
         UNCHANGED <<rec, done, copy, accepted>>
  PROVE  HonestInv'
<1>1. cpath' = [cpath EXCEPT ![a] = p] /\ op' = [op EXCEPT ![a] = step]
  BY DEF Request, Do
<1>2. RecordTypes'
  BY <1>1 DEF HonestInv, RecordTypes, CheckSteps
<1>3. step = "settle" => accepted[p] > 0
  BY DEF HonestInv, Honest, IsDelivered
<1>4. Informed(a)'
  BY <1>1, <1>3 DEF HonestInv, RecordTypes, Informed, Carrying
<1>5. \A b \in Actors \ {a} : op'[b] = op[b] /\ copy'[b] = copy[b] /\ cpath'[b] = cpath[b]
  BY <1>1 DEF HonestInv, RecordTypes
<1>6. QED
  BY <1>2, <1>4, <1>5, QuietStep

\* A newly scheduled email has a pending record and no attempt.
LEMMA WriteNewStep ==
  ASSUME HonestInv, NEW r \in Procs, NEW p \in Paths, WriteNew(r, p)
  PROVE  HonestInv'
<1> DEFINE new == [status |-> "pending", attempts |-> 0]
<1>1. new \in Record /\ Honest(new, p)
  BY SchedulerConstants DEF Record, Honest
<1>2. UNCHANGED <<done, op, copy, cpath, accepted>> /\ rec' = [rec EXCEPT ![p] = new]
  BY DEF WriteNew, Write, claimVars
<1> HIDE DEF new
<1>3. RecordTypes'
  BY <1>1, <1>2 DEF HonestInv, RecordTypes
<1>4. \A q \in Paths : Honest(rec[q], q)'
  BY <1>1, <1>2 DEF HonestInv, RecordTypes, Honest
<1>5. (\A q \in Paths : done[q] # NoRecord => accepted[q] > 0)'
  BY <1>2 DEF HonestInv
<1>6. ASSUME NEW a \in Actors
      PROVE  Informed(a)'
  BY <1>2 DEF HonestInv, Informed, Honest
<1>7. QED
  BY <1>3, <1>4, <1>5, <1>6 DEF HonestInv

\* The facts about one actor that the steps of a check start from.
LEMMA ActorFacts ==
  ASSUME HonestInv, NEW a \in Actors
  PROVE  /\ cpath[a] \in Paths
         /\ copy[a] \in Record /\ copy[a].attempts \in Nat
         /\ rec[cpath[a]] \in Record /\ rec[cpath[a]].attempts \in Nat
         /\ Honest(rec[cpath[a]], cpath[a])
         /\ Informed(a)
         /\ MaxAttempts \in Nat
BY SchedulerConstants, RecordForms DEF HonestInv, RecordTypes

\* A check that has its claim: settling, reading again, giving up and counting
\* the attempt.
LEMMA BeforeSmtp ==
  ASSUME HonestInv, NEW a \in Actors,
         Settle(a) \/ Reread(a) \/ MarkFailed(a) \/ MarkSending(a)
  PROVE  HonestInv'
<1>0. /\ cpath[a] \in Paths
      /\ copy[a] \in Record /\ copy[a].attempts \in Nat
      /\ rec[cpath[a]].attempts \in Nat
      /\ Honest(rec[cpath[a]], cpath[a]) /\ Informed(a) /\ MaxAttempts \in Nat
  BY ActorFacts
<1>1. CASE Settle(a)
  <2>1. accepted[cpath[a]] > 0
    BY <1>0, <1>1 DEF Settle, Informed
  <2>2. op' = [op EXCEPT ![a] = "idle"] /\ UNCHANGED <<copy, cpath, accepted>>
    BY <1>1, FinishEffect DEF Settle, others, historyVars
  <2>3. MoveToSent(cpath[a]) \/ UNCHANGED recordVars
    BY <1>1 DEF Settle
  <2>4. QED
    BY <2>1, <2>2, <2>3, MoveStep
<1>2. CASE Reread(a)
  <2>1. CASE ~IsDue(rec[cpath[a]], cpath[a])
    BY <1>2, <2>1, FinishStep DEF Reread, recordVars, others, historyVars
  <2>2. CASE IsDue(rec[cpath[a]], cpath[a])
    <3> DEFINE step == IF rec[cpath[a]].attempts >= MaxAttempts THEN "markfailed" ELSE "marksending"
    <3>1. /\ op' = [op EXCEPT ![a] = step]
          /\ copy' = [copy EXCEPT ![a] = rec[cpath[a]]]
          /\ UNCHANGED <<rec, done, accepted, cpath>>
      BY <1>2, <2>2 DEF Reread, Do, recordVars, others, historyVars, claimVars
    <3>2. copy'[a] = rec[cpath[a]] /\ op'[a] = step
      BY <3>1 DEF HonestInv, RecordTypes
    <3>3. Informed(a)'
      BY <1>0, <3>1, <3>2 DEF Informed, Honest
    <3>4. step \in CheckSteps
      BY DEF CheckSteps
    <3> HIDE DEF step
    <3>5. QED
      BY <3>1, <3>3, <3>4, CopyStep
  <2>3. QED
    BY <2>1, <2>2
<1>3. CASE MarkFailed(a)
  <2>1. CASE Write(cpath[a], [copy[a] EXCEPT !.status = "failed"]) /\ Finish(a)
    <3> DEFINE new == [copy[a] EXCEPT !.status = "failed"]
    <3>1. new \in Record /\ Honest(new, cpath[a])
      BY <1>0, <1>3, RecordForms DEF MarkFailed, Informed, Honest
    <3>2. op' = [op EXCEPT ![a] = "idle"] /\ UNCHANGED <<copy, cpath, accepted>>
      BY <1>3, <2>1, FinishEffect DEF MarkFailed, others, historyVars
    <3>3. "idle" \in CheckSteps /\ Informed(a)'
      BY <3>2 DEF HonestInv, RecordTypes, CheckSteps, Informed, Carrying
    <3>4. Write(cpath[a], new)
      BY <2>1
    <3> HIDE DEF new
    <3>5. QED
      BY <3>1, <3>2, <3>3, <3>4, WriteStep
  <2>2. CASE Do(a, "failread") /\ UNCHANGED <<recordVars, claimVars>>
    <3>1. "failread" \in CheckSteps \ (Carrying \cup {"settle"})
      BY DEF CheckSteps, Carrying
    <3>2. QED
      BY <1>3, <2>2, <3>1, MoveOnStep
         DEF MarkFailed, Do, recordVars, claimVars, others, historyVars, HonestInv, RecordTypes
  <2>3. QED
    BY <1>3, <2>1, <2>2 DEF MarkFailed
<1>4. CASE MarkSending(a)
  <2> DEFINE new == [status |-> "sending", attempts |-> copy[a].attempts + 1]
  <2>1. UNCHANGED <<copy, cpath, accepted>>
    BY <1>4 DEF MarkSending, claimVars, others, historyVars
  <2>2. CASE Write(cpath[a], new) /\ Do(a, "smtp")
    <3>1. copy[a].attempts < MaxAttempts /\ Honest(copy[a], cpath[a])
      BY <1>0, <1>4 DEF MarkSending, Informed, Carrying
    <3>2. new \in Record /\ new.attempts = copy[a].attempts + 1 /\ new.status = "sending"
      BY <1>0 DEF Record
    <3>3. Honest(new, cpath[a])
      BY <1>0, <3>1, <3>2 DEF Honest
    <3>4. op' = [op EXCEPT ![a] = "smtp"] /\ "smtp" \in CheckSteps
      BY <2>2 DEF Do, CheckSteps
    <3>5. Informed(a)'
      BY <2>1, <3>1, <3>4 DEF HonestInv, RecordTypes, Informed, Honest
    <3>6. Write(cpath[a], new)
      BY <2>2
    <3> HIDE DEF new
    <3>7. QED
      BY <2>1, <3>2, <3>3, <3>4, <3>5, <3>6, WriteStep
  <2>3. CASE Do(a, "failread") /\ UNCHANGED recordVars
    <3>1. "failread" \in CheckSteps \ (Carrying \cup {"settle"})
      BY DEF CheckSteps, Carrying
    <3>2. QED
      BY <2>1, <2>3, <3>1, MoveOnStep DEF Do, recordVars, HonestInv, RecordTypes
  <2>4. QED
    BY <1>4, <2>2, <2>3 DEF MarkSending
<1>5. QED
  BY <1>1, <1>2, <1>3, <1>4

\* SMTP answers, or the rate limit does: only an acceptance lets the check say
\* that the email was sent.
LEMMA SmtpStep ==
  ASSUME HonestInv, NEW a \in Actors, SendEmail(a) \/ HeldBack(a)
  PROVE  HonestInv'
<1>0. cpath[a] \in Paths /\ Informed(a)
  BY ActorFacts
<1>1. CASE SendEmail(a)
  <2>1. PICK taken \in BOOLEAN, resolves \in BOOLEAN :
          /\ resolves => taken
          /\ accepted' = [accepted EXCEPT ![cpath[a]] = IF taken THEN @ + 1 ELSE @]
          /\ Do(a, IF resolves THEN "recordsent" ELSE "failread")
    BY <1>1 DEF SendEmail
  <2>2. UNCHANGED <<rec, done, copy, cpath>>
    BY <1>1 DEF SendEmail, recordVars, claimVars
  <2>3. /\ accepted' \in [Paths -> Nat]
        /\ \A p \in Paths : accepted'[p] >= accepted[p]
        /\ resolves => accepted'[cpath[a]] > 0
    BY <1>0, <2>1 DEF HonestInv, RecordTypes
  <2>4. op' = [op EXCEPT ![a] = IF resolves THEN "recordsent" ELSE "failread"]
    BY <2>1 DEF Do
  <2>5. RecordTypes'
    BY <2>2, <2>3, <2>4 DEF HonestInv, RecordTypes, CheckSteps
  <2>6. \A p \in Paths : Honest(rec[p], p)'
    BY <2>2, <2>3 DEF HonestInv, RecordTypes, Honest
  <2>7. \A p \in Paths : done'[p] # NoRecord => accepted'[p] > 0
    BY <2>2, <2>3 DEF HonestInv, RecordTypes
  <2>8. op[a] = "smtp"
    BY <1>1 DEF SendEmail
  <2>9. op'[a] = IF resolves THEN "recordsent" ELSE "failread"
    BY <2>4 DEF HonestInv, RecordTypes
  <2>10. Honest(copy[a], cpath[a]) /\ copy[a].attempts < MaxAttempts
    BY <1>0, <2>8 DEF Informed, Carrying
  <2>11. Honest(copy[a], cpath[a])'
    BY <1>0, <2>2, <2>3, <2>10 DEF Honest, HonestInv, RecordTypes
  <2>12. Informed(a)'
    BY <2>2, <2>3, <2>9, <2>10, <2>11 DEF Informed, Carrying
  <2>13. \A b \in Actors \ {a} : op'[b] = op[b] /\ copy'[b] = copy[b] /\ cpath'[b] = cpath[b]
    BY <2>2, <2>4 DEF HonestInv, RecordTypes
  <2>14. QED
    BY <2>3, <2>5, <2>6, <2>7, <2>12, <2>13, OneActorStep
<1>2. CASE HeldBack(a)
  <2>1. op' = [op EXCEPT ![a] = "restore"] /\ UNCHANGED <<rec, done, copy, cpath, accepted>>
    BY <1>2 DEF HeldBack, Do, claimVars, recordVars, others, historyVars
  <2>2. op[a] = "smtp" /\ op'[a] = "restore"
    BY <1>2, <2>1 DEF HeldBack, HonestInv, RecordTypes
  <2>3. Informed(a)'
    BY <1>0, <2>1, <2>2 DEF Informed, Carrying, Honest
  <2>4. QED
    BY <2>1, <2>3, CopyStep DEF CheckSteps
<1>3. QED
  BY <1>1, <1>2

\* After SMTP: putting the record back, recording the success and moving it.
LEMMA AfterSmtp ==
  ASSUME HonestInv, NEW a \in Actors,
         RestoreQueued(a) \/ RecordSent(a) \/ MoveSent(a)
  PROVE  HonestInv'
<1>0. /\ cpath[a] \in Paths
      /\ copy[a] \in Record /\ copy[a].attempts \in Nat
      /\ Informed(a) /\ MaxAttempts \in Nat
  BY ActorFacts
<1>1. CASE RestoreQueued(a)
  <2>1. CASE Write(cpath[a], copy[a]) /\ Finish(a)
    <3>1. Honest(copy[a], cpath[a])
      BY <1>0, <1>1 DEF RestoreQueued, Informed, Carrying
    <3>2. op' = [op EXCEPT ![a] = "idle"] /\ UNCHANGED <<copy, cpath, accepted>>
      BY <1>1, <2>1, FinishEffect DEF RestoreQueued, others, historyVars
    <3>3. "idle" \in CheckSteps /\ Informed(a)'
      BY <3>2 DEF HonestInv, RecordTypes, CheckSteps, Informed, Carrying
    <3>4. QED
      BY <1>0, <2>1, <3>1, <3>2, <3>3, WriteStep
  <2>2. CASE Do(a, "failread") /\ UNCHANGED <<recordVars, claimVars>>
    <3>1. "failread" \in CheckSteps \ (Carrying \cup {"settle"})
      BY DEF CheckSteps, Carrying
    <3>2. QED
      BY <1>1, <2>2, <3>1, MoveOnStep
         DEF RestoreQueued, Do, recordVars, claimVars, others, historyVars, HonestInv, RecordTypes
  <2>3. QED
    BY <1>1, <2>1, <2>2 DEF RestoreQueued
<1>2. CASE RecordSent(a)
  <2> DEFINE new == [status |-> "sent", attempts |-> copy[a].attempts + 1]
  <2>1. op' = [op EXCEPT ![a] = "move"] /\ UNCHANGED <<copy, cpath, accepted>>
    BY <1>2 DEF RecordSent, Do, claimVars, others, historyVars
  <2>2. op[a] = "recordsent" /\ op'[a] = "move"
    BY <1>2, <2>1 DEF RecordSent, HonestInv, RecordTypes
  <2>3. /\ copy[a].attempts < MaxAttempts /\ Honest(copy[a], cpath[a])
        /\ accepted[cpath[a]] > 0
    BY <1>0, <2>2 DEF Informed, Carrying
  <2>4. Informed(a)'
    BY <2>1, <2>2, <2>3 DEF Informed, Carrying, Honest
  <2>5. CASE Write(cpath[a], new)
    <3>1. new \in Record /\ new.attempts = copy[a].attempts + 1 /\ new.status = "sent"
      BY <1>0 DEF Record
    <3>2. Honest(new, cpath[a])
      BY <1>0, <2>3, <3>1 DEF Honest
    <3> HIDE DEF new
    <3>3. QED
      BY <2>1, <2>4, <2>5, <3>1, <3>2, WriteStep DEF CheckSteps
  <2>6. CASE UNCHANGED recordVars
    BY <2>1, <2>4, <2>6, CopyStep DEF CheckSteps, recordVars
  <2>7. QED
    BY <1>2, <2>5, <2>6 DEF RecordSent
<1>3. CASE MoveSent(a)
  <2>1. accepted[cpath[a]] > 0
    BY <1>0, <1>3 DEF MoveSent, Informed
  <2>2. op' = [op EXCEPT ![a] = "idle"] /\ UNCHANGED <<copy, cpath, accepted>>
    BY <1>3, FinishEffect DEF MoveSent, others, historyVars
  <2>3. QED
    BY <1>3, <2>1, <2>2, MoveStep DEF MoveSent
<1>4. QED
  BY <1>1, <1>2, <1>3

\* writeSendFailure: what it writes is what it read, with a status the attempts
\* bear out.
LEMMA FailureStep ==
  ASSUME HonestInv, NEW a \in Actors, FailRead(a) \/ FailWrite(a)
  PROVE  HonestInv'
<1>0. /\ cpath[a] \in Paths
      /\ copy[a] \in Record /\ copy[a].attempts \in Nat
      /\ Honest(rec[cpath[a]], cpath[a]) /\ Informed(a) /\ MaxAttempts \in Nat
  BY ActorFacts
<1>1. CASE FailRead(a)
  <2>1. CASE rec[cpath[a]] = NoRecord
    BY <1>1, <2>1, FinishStep DEF FailRead, recordVars, others, historyVars
  <2>2. CASE rec[cpath[a]] # NoRecord
    <3>1. /\ op' = [op EXCEPT ![a] = "failwrite"]
          /\ copy' = [copy EXCEPT ![a] = rec[cpath[a]]]
          /\ UNCHANGED <<rec, done, accepted, cpath>>
      BY <1>1, <2>2 DEF FailRead, Do, recordVars, others, historyVars, claimVars
    <3>2. copy'[a] = rec[cpath[a]] /\ op'[a] = "failwrite"
      BY <3>1 DEF HonestInv, RecordTypes
    <3>3. Informed(a)'
      BY <1>0, <3>1, <3>2 DEF Informed, Honest
    <3>4. QED
      BY <3>1, <3>3, CopyStep DEF CheckSteps
  <2>3. QED
    BY <2>1, <2>2
<1>2. CASE FailWrite(a)
  <2> DEFINE new == [copy[a] EXCEPT !.status =
                       IF copy[a].attempts >= MaxAttempts THEN "failed" ELSE "pending"]
  <2>1. op' = [op EXCEPT ![a] = "idle"] /\ UNCHANGED <<copy, cpath, accepted>>
    BY <1>2, FinishEffect DEF FailWrite, others, historyVars
  <2>2. "idle" \in CheckSteps /\ Informed(a)'
    BY <2>1 DEF HonestInv, RecordTypes, CheckSteps, Informed, Carrying
  <2>3. CASE Write(cpath[a], new)
    <3>1. Honest(copy[a], cpath[a])
      BY <1>0, <1>2 DEF FailWrite, Informed, Carrying
    <3>2. /\ new \in Record /\ new.attempts = copy[a].attempts
          /\ new.status = IF copy[a].attempts >= MaxAttempts THEN "failed" ELSE "pending"
      BY <1>0, RecordForms
    <3>3. Honest(new, cpath[a])
      BY <1>0, <3>1, <3>2 DEF Honest
    <3> HIDE DEF new
    <3>4. QED
      BY <2>1, <2>2, <2>3, <3>2, <3>3, WriteStep
  <2>4. CASE UNCHANGED recordVars
    BY <2>1, <2>2, <2>4, CopyStep DEF recordVars
  <2>5. QED
    BY <1>2, <2>3, <2>4 DEF FailWrite
<1>3. QED
  BY <1>1, <1>2

\* cancel(): it writes no record but the empty one.
LEMMA CancelSteps ==
  ASSUME HonestInv, NEW a \in Actors, CancelStep(a)
  PROVE  HonestInv'
<1>1. CASE CancelReread(a)
  <2>1. CASE Finish(a)
    BY <1>1, <2>1, FinishStep DEF CancelReread, recordVars, others, historyVars
  <2>2. CASE Do(a, "deletedraft") /\ UNCHANGED claimVars
    <3>1. "deletedraft" \in CheckSteps \ (Carrying \cup {"settle"})
      BY DEF CheckSteps, Carrying
    <3>2. QED
      BY <1>1, <2>2, <3>1, MoveOnStep
         DEF CancelReread, Do, recordVars, claimVars, others, historyVars, HonestInv, RecordTypes
  <2>3. QED
    BY <1>1, <2>1, <2>2 DEF CancelReread
<1>2. CASE CancelUnlink(a)
  <2>1. op' = [op EXCEPT ![a] = "idle"] /\ UNCHANGED <<copy, cpath, accepted>>
    BY <1>2, FinishEffect DEF CancelUnlink
  <2>2. "idle" \in CheckSteps /\ Informed(a)'
    BY <2>1 DEF HonestInv, RecordTypes, CheckSteps, Informed, Carrying
  <2>3. Write(cpath[a], NoRecord) /\ cpath[a] \in Paths
    BY <1>2, ActorFacts DEF CancelUnlink
  <2>4. QED
    BY <2>1, <2>2, <2>3, NoRecordIsHonest, WriteStep
<1>3. QED
  BY <1>1, <1>2 DEF CancelStep

\* An actor that dies, or gets no claim, carries nothing on.
LEMMA StopStep ==
  ASSUME HonestInv, NEW a \in Actors, Crash(a) \/ Skip(a) \/ ClaimThrew(a)
  PROVE  HonestInv'
<1>1. cpath' = cpath
  BY ClaimKeepsPath DEF Crash, Skip, ClaimThrew, claimVars
<1>2. {"idle", "failread"} \subseteq CheckSteps \ (Carrying \cup {"settle"})
  BY DEF CheckSteps, Carrying
<1>3. \E step \in {"idle", "failread"} : op' = [op EXCEPT ![a] = step]
  BY DEF Crash, Skip, ClaimThrew, Do
<1>4. UNCHANGED <<rec, done, accepted, copy>> /\ copy \in [Actors -> Record]
  BY DEF Crash, Skip, ClaimThrew, recordVars, others, historyVars, HonestInv, RecordTypes
<1>5. QED
  BY <1>1, <1>2, <1>3, <1>4, MoveOnStep

\* Every step keeps what the queue says true.
LEMMA HonestStep == HonestInv /\ [Next]_vars => HonestInv'
<1> SUFFICES ASSUME HonestInv, [Next]_vars
             PROVE  HonestInv'
  OBVIOUS
<1>1. ASSUME NEW r \in Procs, CountLive(r) \/ AbandonPlan(r)
      PROVE  HonestInv'
  BY <1>1, Untouched DEF CountLive, AbandonPlan, claimVars, historyVars
<1>2. ASSUME NEW p \in Paths, BecomeDue(p)
      PROVE  HonestInv'
  BY <1>2, Untouched DEF BecomeDue, claimVars, historyVars
<1>3. ASSUME NEW p \in Paths, Expire(p)
      PROVE  HonestInv'
  BY <1>3, Untouched DEF Expire, GoStale, schedVars
<1>4. ASSUME NEW a \in Actors, NEW p \in Paths, ReadQueueFile(a, p)
      PROVE  HonestInv'
  <2> DEFINE step == IF IsDelivered(rec[p]) THEN "settle" ELSE "send"
  <2>1. step \in {"settle", "send", "cancel"} /\ (step = "settle" => IsDelivered(rec[p]))
    OBVIOUS
  <2>2. Request(a, p) /\ Do(a, step) /\ UNCHANGED <<rec, done, copy, accepted>>
    BY <1>4 DEF ReadQueueFile, recordVars, others, historyVars
  <2> HIDE DEF step
  <2>3. QED
    BY <2>1, <2>2, RequestStep
<1>5. ASSUME NEW a \in Actors, NEW p \in Paths, CancelRead(a, p)
      PROVE  HonestInv'
  BY <1>5, RequestStep DEF CancelRead, recordVars, others, historyVars
<1>6. ASSUME NEW a \in Actors, RunClaim(a) \/ RenewClaim(a) \/ Throw(a)
      PROVE  HonestInv'
  <2>1. cpath' = cpath
    BY <1>6, ClaimKeepsPath DEF RunClaim, RenewClaim, Throw
  <2>2. QED
    BY <1>6, <2>1, Untouched DEF RunClaim, RenewClaim, Throw, schedVars
<1>7. CASE UNCHANGED vars
  BY <1>7, Untouched DEF vars, claimVars, schedVars
<1>8. ASSUME NEW r \in Procs, NEW p \in Paths, WriteNew(r, p)
      PROVE  HonestInv'
  BY <1>8, WriteNewStep
<1>9. ASSUME NEW a \in Actors, CheckStep(a)
      PROVE  HonestInv'
  BY <1>9, BeforeSmtp, SmtpStep, AfterSmtp, FailureStep DEF CheckStep
<1>10. Checkers \subseteq Actors /\ Cancellers \subseteq Actors
  BY SchedulerConstants
<1>11. QED
  BY <1>1, <1>2, <1>3, <1>4, <1>5, <1>6, <1>7, <1>8, <1>9, <1>10, CancelSteps, StopStep DEF Next

\* Whatever fails and however many actors believe they hold a claim, an email
\* that is recorded as sent was accepted by SMTP, and one recorded as failed
\* was tried MaxAttempts times.
THEOREM OutcomesAreTrue == Spec => []OutcomeIsTrue
<1>1. Init => HonestInv
  BY HonestInit
<1>2. HonestInv /\ [Next]_vars => HonestInv'
  BY HonestStep
<1>3. HonestInv => OutcomeIsTrue
  BY DEF HonestInv, Honest, OutcomeIsTrue
<1>4. QED
  BY <1>1, <1>2, <1>3, PTL DEF Spec

(***************************************************************************)
(* The claims of the queue.                                                *)
(***************************************************************************)

\* What the queue does to the state of the claims.
QueueNext ==
  \/ \E a \in Actors : ActorStep(a)
  \/ \E p \in Paths : GoStale(p, Punctual)

\* Nothing in the queue touches a lock but through acquireClaim, releaseClaim and
\* the renewal of a claim it holds.
LEMMA ClaimUse == [Next]_vars => [QueueNext]_claimVars
<1> SUFFICES ASSUME [Next]_vars PROVE [QueueNext]_claimVars
  OBVIOUS
<1>1. ASSUME NEW a \in Actors, ActorStep(a) PROVE QueueNext
  BY <1>1 DEF QueueNext
<1>2. ASSUME NEW a \in Actors, Finish(a) PROVE [QueueNext]_claimVars
  BY <1>1, <1>2 DEF Finish, ActorStep
<1>3. ASSUME NEW r \in Procs, CountLive(r) \/ AbandonPlan(r) \/ \E p \in Paths : WriteNew(r, p)
      PROVE  UNCHANGED claimVars
  BY <1>3 DEF CountLive, AbandonPlan, WriteNew
<1>4. ASSUME NEW p \in Paths, BecomeDue(p) \/ Expire(p) PROVE [QueueNext]_claimVars
  BY <1>4 DEF BecomeDue, Expire, QueueNext
<1>5. ASSUME NEW a \in Actors, NEW p \in Paths, ReadQueueFile(a, p) \/ CancelRead(a, p)
      PROVE  [QueueNext]_claimVars
  BY <1>1, <1>5 DEF ReadQueueFile, CancelRead, ActorStep
<1>6. ASSUME NEW a \in Actors, RunClaim(a) \/ Skip(a) \/ ClaimThrew(a) \/ RenewClaim(a) \/ Throw(a)
      PROVE  [QueueNext]_claimVars
  BY <1>1, <1>6 DEF RunClaim, Skip, ClaimThrew, RenewClaim, Throw, ActorStep
<1>7. ASSUME NEW a \in Actors, Crash(a) PROVE [QueueNext]_claimVars
  BY <1>1, <1>7 DEF Crash, ActorStep
<1>8. ASSUME NEW a \in Actors, CheckStep(a) \/ CancelStep(a) PROVE [QueueNext]_claimVars
  BY <1>2, <1>8
     DEF CheckStep, CancelStep, Settle, Reread, MarkFailed, MarkSending, SendEmail, HeldBack,
         RestoreQueued, RecordSent, MoveSent, FailRead, FailWrite, CancelReread, CancelUnlink
<1>9. Checkers \subseteq Actors /\ Cancellers \subseteq Actors
  BY SchedulerConstants
<1>10. QED
  BY <1>3, <1>4, <1>5, <1>6, <1>7, <1>8, <1>9 DEF Next, vars

\* That is what FileClaim allows a client whose holders may be late.
LEMMA ClaimsMayBeLate == [Next]_vars => [LateNext]_claimVars
<1>1. QueueNext => LateNext
  BY DEF QueueNext, LateNext, GoStale
<1>2. QED
  BY <1>1, ClaimUse

\* The claims start as FileClaim's do.
LEMMA ClaimStart == Init => ClaimInit /\ ClaimTypeOK /\ UntilStale
  BY TypeInit, UntilStaleInit DEF Init

\* Until a claim on an email first goes stale, no two checks or cancels hold it,
\* whatever the number of processes and whatever fails.
THEOREM QueueExclusiveUntilStale == Spec => []ExclusiveUntilStale
  BY ClaimStart, ClaimsMayBeLate, TypeStep, UntilStaleStep, UntilStaleExclusive, PTL DEF Spec

\* No IMAP call of a cancel outlasts the stale window.
NoSlowCancel == "slow" \notin Faults

\* Then only the claims of actors that died or failed to release them go stale,
\* as FileClaim's own client has it.
LEMMA ClaimsArePunctual == ASSUME NoSlowCancel PROVE [Next]_vars => [ClaimNext]_claimVars
<1>1. Punctual = Actors
  BY DEF Punctual, NoSlowCancel
<1>2. QueueNext => ClaimNext
  BY <1>1 DEF QueueNext, ClaimNext
<1>3. QED
  BY <1>2, ClaimUse

\* With two actors, no claim parked by an actor that dies or fails, and no slow
\* cancel, a claim on an email has one holder through deaths and steals.
THEOREM QueueExclusive ==
  ASSUME TwoContenders, SafeFaults, NoSlowCancel
  PROVE  Spec => []Exclusive
<1>1. Init => ClaimTypeOK /\ OwnedInv
  BY ClaimStart, OwnedInit
<1>2. ClaimTypeOK /\ OwnedInv /\ [Next]_vars => (ClaimTypeOK /\ OwnedInv)'
  BY ClaimsArePunctual, ClaimsMayBeLate, TypeStep, OwnedStep
<1>3. QED
  BY <1>1, <1>2, OwnedExclusive, PTL DEF Spec

(***************************************************************************)
(* Types, and where an actor is.                                           *)
(***************************************************************************)

\* An actor at step of a check or cancel is at pc of its claim.
At(step, pc) ==
  CASE step = "idle" -> pc \in {"idle", "release", "unlink"}
    [] step \in {"settle", "send", "cancel"} -> pc \in AcquireSteps \cup {"denied", "threw", "held"}
    [] step \in {"failread", "failwrite"} -> pc \in {"idle", "held"}
    [] step \in {"markfailed", "marksending", "smtp", "restore", "recordsent",
                 "move", "deletedraft"} -> pc = "held"
    [] OTHER -> FALSE

Placed == \A a \in Actors : At(op[a], cpc[a])

\* The rest of SchedTypeOK.
OtherTypes ==
  /\ due \in [Paths -> BOOLEAN]
  /\ plan \in [Procs -> BOOLEAN]
  /\ crashes \in 0..MaxCrashes
  /\ planned \in [Paths -> BOOLEAN]
  /\ cancelled \in [Paths -> BOOLEAN]

TypeInv == ClaimTypeOK /\ RecordTypes /\ OtherTypes /\ Placed

\* The parts are the whole.
LEMMA TypeParts == TypeInv => SchedTypeOK
BY DEF TypeInv, RecordTypes, OtherTypes, Placed, At, SchedTypeOK

\* An actor that moves within its check and its claim at once stays placed if the
\* two places fit.
LEMMA MovesPlaced ==
  ASSUME TypeInv, NEW a \in Actors, NEW step, NEW pc, At(step, pc),
         op' = [op EXCEPT ![a] = step], cpc' = [cpc EXCEPT ![a] = pc]
  PROVE  Placed'
BY DEF TypeInv, RecordTypes, ClaimTypeOK, Placed

\* Finishing a check or cancel that may finish here leaves a claim being released,
\* or none.
LEMMA FinishPlaced ==
  ASSUME TypeInv, NEW a \in Actors, Finish(a), cpc[a] \in {"idle", "held"}
  PROVE  Placed'
<1> USE DEF Finish, Do, Release, Goto, claimVars
<1>1. CASE cpc[a] = "held"
  BY <1>1, MovesPlaced DEF At
<1>2. CASE cpc[a] = "idle"
  BY <1>2, MovesPlaced DEF At, TypeInv, ClaimTypeOK
<1>3. QED
  BY <1>1, <1>2

\* Going on with the claim as it is.
LEMMA GoesOnPlaced ==
  ASSUME TypeInv, NEW a \in Actors, NEW step, Do(a, step), UNCHANGED claimVars, At(step, cpc[a])
  PROVE  Placed'
BY MovesPlaced DEF Do, claimVars, TypeInv, ClaimTypeOK

\* Each step leaves its actor in a place it can leave.
LEMMA PlacedStep == TypeInv /\ [Next]_vars => Placed'
<1> SUFFICES ASSUME TypeInv, [Next]_vars PROVE Placed'
  OBVIOUS
<1>1. ASSUME UNCHANGED <<op, cpc>> PROVE Placed'
  BY <1>1 DEF TypeInv, Placed
<1>2. ASSUME NEW a \in Actors, CheckStep(a) \/ CancelStep(a) PROVE Placed'
  <2>0. At(op[a], cpc[a])
    BY DEF TypeInv, Placed
  <2> USE DEF At
  <2>1. CASE Settle(a)
    BY <2>1, FinishPlaced DEF Settle
  <2>2. CASE Reread(a)
    BY <2>2, FinishPlaced, GoesOnPlaced DEF Reread
  <2>3. CASE MarkFailed(a)
    BY <2>0, <2>3, FinishPlaced, GoesOnPlaced DEF MarkFailed
  <2>4. CASE MarkSending(a) \/ SendEmail(a) \/ HeldBack(a) \/ RecordSent(a)
    BY <2>0, <2>4, GoesOnPlaced DEF MarkSending, SendEmail, HeldBack, RecordSent
  <2>5. CASE RestoreQueued(a)
    BY <2>0, <2>5, FinishPlaced, GoesOnPlaced DEF RestoreQueued
  <2>6. CASE MoveSent(a)
    BY <2>0, <2>6, FinishPlaced DEF MoveSent
  <2>7. CASE FailRead(a)
    BY <2>0, <2>7, FinishPlaced, GoesOnPlaced DEF FailRead
  <2>8. CASE FailWrite(a)
    BY <2>0, <2>8, FinishPlaced DEF FailWrite
  <2>9. CASE CancelReread(a)
    BY <2>9, FinishPlaced, GoesOnPlaced DEF CancelReread
  <2>10. CASE CancelUnlink(a)
    BY <2>0, <2>10, FinishPlaced DEF CancelUnlink
  <2>11. QED
    BY <1>2, <2>1, <2>2, <2>3, <2>4, <2>5, <2>6, <2>7, <2>8, <2>9, <2>10 DEF CheckStep, CancelStep
<1>3. ASSUME NEW a \in Actors, NEW p \in Paths, ReadQueueFile(a, p) \/ CancelRead(a, p)
      PROVE  Placed'
  <2>1. \E step \in {"settle", "send", "cancel"} : op' = [op EXCEPT ![a] = step]
    BY <1>3 DEF ReadQueueFile, CancelRead, Do
  <2>2. cpc' = [cpc EXCEPT ![a] = "create"]
    BY <1>3 DEF ReadQueueFile, CancelRead, Request, Goto
  <2>3. QED
    BY <2>1, <2>2, MovesPlaced DEF At, AcquireSteps
<1>4. ASSUME NEW a \in Actors, Skip(a) \/ ClaimThrew(a) PROVE Placed'
  BY <1>4, MovesPlaced DEF Skip, ClaimThrew, GiveUp, Goto, Do, At
<1>5. ASSUME NEW a \in Actors, Crash(a) PROVE Placed'
  BY <1>5, MovesPlaced DEF Crash, ClaimCrash, EndClaim, Goto, Do, At, claimVars, TypeInv, ClaimTypeOK
<1>6. ASSUME NEW a \in Actors, RunClaim(a) \/ Throw(a) PROVE Placed'
  <2> DEFINE Got == AcquireSteps \cup {"denied", "threw", "held"}
  <2>1. op' = [op EXCEPT ![a] = op[a]]
    BY <1>6 DEF RunClaim, Throw, schedVars, TypeInv, RecordTypes
  <2>2. \/ cpc[a] \in AcquireSteps /\ \E pc \in Got : cpc' = [cpc EXCEPT ![a] = pc]
        \/ cpc[a] \in {"release", "unlink"}
             /\ \E pc \in {"idle", "unlink"} : cpc' = [cpc EXCEPT ![a] = pc]
    BY <1>6
       DEF RunClaim, Throw, ClaimStep, Create, Stat, Recreate, Park, Restore, Take, ReleaseRead,
           ReleaseUnlink, AcquireThrows, ReleaseThrows, CreateClaim, EndClaim, Goto, AcquireSteps
  <2>3. At(op[a], cpc[a])
    BY DEF TypeInv, Placed
  <2>4. CASE cpc[a] \in AcquireSteps
    <3>1. op[a] \in {"settle", "send", "cancel"}
      BY <2>3, <2>4 DEF At, AcquireSteps
    <3>2. cpc[a] \notin {"release", "unlink"}
      BY <2>4 DEF AcquireSteps
    <3>3. QED
      BY <2>1, <2>2, <3>1, <3>2, MovesPlaced DEF At
  <2>5. CASE cpc[a] \in {"release", "unlink"}
    <3>1. op[a] = "idle"
      BY <2>3, <2>5 DEF At, AcquireSteps
    <3>2. cpc[a] \notin AcquireSteps
      BY <2>5 DEF AcquireSteps
    <3>3. QED
      BY <2>1, <2>2, <3>1, <3>2, MovesPlaced DEF At
  <2>6. QED
    BY <2>2, <2>4, <2>5
<1>7. ASSUME NEW a \in Actors, RenewClaim(a) PROVE Placed'
  BY <1>1, <1>7 DEF RenewClaim, Renew, schedVars
<1>8. ASSUME NEW r \in Procs, CountLive(r) \/ AbandonPlan(r) \/ \E p \in Paths : WriteNew(r, p)
      PROVE  Placed'
  BY <1>1, <1>8 DEF CountLive, AbandonPlan, WriteNew, claimVars
<1>9. ASSUME NEW p \in Paths, BecomeDue(p) \/ Expire(p) PROVE Placed'
  BY <1>1, <1>9 DEF BecomeDue, Expire, GoStale, claimVars, schedVars
<1>10. CASE UNCHANGED vars
  BY <1>1, <1>10 DEF vars, claimVars, schedVars
<1>11. Checkers \subseteq Actors /\ Cancellers \subseteq Actors
  BY SchedulerConstants
<1>12. QED
  BY <1>2, <1>3, <1>4, <1>5, <1>6, <1>7, <1>8, <1>9, <1>10, <1>11 DEF Next

\* The due times, plans, deaths and the history keep their types.
LEMMA OtherTypesStep == OtherTypes /\ RecordTypes /\ [Next]_vars => OtherTypes'
<1> SUFFICES ASSUME OtherTypes, RecordTypes, [Next]_vars PROVE OtherTypes'
  OBVIOUS
<1> USE SchedulerConstants DEF OtherTypes
<1>1. ASSUME UNCHANGED others PROVE OtherTypes'
  BY <1>1 DEF others, historyVars
<1>2. ASSUME NEW r \in Procs, CountLive(r) \/ AbandonPlan(r) \/ \E p \in Paths : WriteNew(r, p)
      PROVE  OtherTypes'
  BY <1>2 DEF CountLive, AbandonPlan, WriteNew, historyVars
<1>3. ASSUME NEW p \in Paths, BecomeDue(p) PROVE OtherTypes'
  BY <1>3 DEF BecomeDue, historyVars
<1>4. ASSUME NEW a \in Actors, Crash(a) PROVE OtherTypes'
  BY <1>4 DEF Crash, historyVars
<1>5. ASSUME NEW a \in Actors, SendEmail(a) PROVE OtherTypes'
  BY <1>5 DEF SendEmail
<1>6. ASSUME NEW a \in Actors, CancelUnlink(a) PROVE OtherTypes'
  BY <1>6 DEF CancelUnlink, RecordTypes
<1>7. ASSUME NEW a \in Actors,
             \/ CheckStep(a) /\ ~SendEmail(a)
             \/ CancelReread(a) \/ Skip(a) \/ ClaimThrew(a)
             \/ \E p \in Paths : ReadQueueFile(a, p) \/ CancelRead(a, p)
      PROVE  UNCHANGED others
  BY <1>7
     DEF CheckStep, Settle, Reread, MarkFailed, MarkSending, HeldBack, RestoreQueued, RecordSent,
         MoveSent, FailRead, FailWrite, CancelReread, Skip, ClaimThrew, ReadQueueFile, CancelRead
<1>8. ASSUME UNCHANGED schedVars PROVE OtherTypes'
  BY <1>8 DEF schedVars
<1>9. ASSUME NEW a \in Actors, RunClaim(a) \/ RenewClaim(a) \/ Throw(a) PROVE OtherTypes'
  BY <1>8, <1>9 DEF RunClaim, RenewClaim, Throw
<1>10. ASSUME NEW p \in Paths, Expire(p) PROVE OtherTypes'
  BY <1>8, <1>10 DEF Expire
<1>11. CASE UNCHANGED vars
  BY <1>8, <1>11 DEF vars
<1>12. Checkers \subseteq Actors /\ Cancellers \subseteq Actors
  BY SchedulerConstants
<1>13. QED
  BY <1>1, <1>2, <1>3, <1>4, <1>5, <1>6, <1>7, <1>9, <1>10, <1>11, <1>12 DEF Next, CancelStep

\* The types hold from the start.
LEMMA TypeInvInit == Init => TypeInv
<1> SUFFICES ASSUME Init PROVE TypeInv
  OBVIOUS
<1>1. ClaimTypeOK /\ RecordTypes
  BY ClaimStart, HonestInit DEF HonestInv
<1>2. OtherTypes
  BY SchedulerConstants DEF Init, OtherTypes
<1>3. Placed
  BY DEF Init, ClaimInit, Placed, At
<1>4. QED
  BY <1>1, <1>2, <1>3 DEF TypeInv

\* Every actor is in a step it can leave and every record is a record, for any
\* number of actors, emails and processes and any faults.
THEOREM QueueTypeCorrect == Spec => []SchedTypeOK
<1>1. Init => TypeInv /\ HonestInv
  BY TypeInvInit, HonestInit
<1>2. TypeInv /\ HonestInv /\ [Next]_vars => (TypeInv /\ HonestInv)'
  BY ClaimsMayBeLate, TypeStep, HonestStep, PlacedStep, OtherTypesStep DEF TypeInv, HonestInv
<1>3. QED
  BY <1>1, <1>2, TypeParts, PTL DEF Spec

(***************************************************************************)
(* Records: a queue whose claims are exclusive and never throw.            *)
(***************************************************************************)

\* acquireClaim resolves: no lock file fails to be written, looked at or moved.
NoClaimErrors == {"ioerror", "parkloss"} \cap Faults = {}

\* The steps of an actor that acts on the record of cpath[a].
Working == {"markfailed", "marksending", "smtp", "restore", "recordsent", "move",
            "failread", "failwrite", "deletedraft"}

\* It does so under its claim.
InCharge ==
  \A a \in Actors : cpc[a] # "threw" /\ (op[a] \in Working => cpc[a] = "held")

Alive == {"pending", "sending"}

\* What is on record of p.
Sound(p) ==
  /\ rec[p] = NoRecord \/ done[p] = NoRecord
  /\ (rec[p] = NoRecord /\ done[p] = NoRecord) <=> (~planned[p] \/ cancelled[p])
  /\ cancelled[p] => planned[p]
  /\ done[p].status \in {"none", "sending", "sent"}
  /\ done[p].attempts <= MaxAttempts
  /\ ~cancelled[p] => accepted[p] <= rec[p].attempts + done[p].attempts

IsSettled(p) == ~cancelled[p] /\ (rec[p].status = "sent" \/ done[p] # NoRecord)

\* The record an actor works on is as the actor left it.
AsLeft(a) ==
  LET r == rec[cpath[a]]
      attempt == [status |-> "sending", attempts |-> copy[a].attempts + 1]
  IN /\ op[a] # "idle" => planned[cpath[a]]
     /\ op[a] = "settle" => IsSettled(cpath[a])
     /\ op[a] = "deletedraft" => r.status = "pending"
     /\ op[a] = "failread" => r.status \in Alive
     /\ op[a] \in {"markfailed", "marksending", "failwrite"} => r = copy[a] /\ r.status \in Alive
     /\ op[a] \in {"smtp", "restore"} => /\ r = attempt
                                         /\ copy[a].status \in Alive
                                         /\ accepted[cpath[a]] <= copy[a].attempts
     /\ op[a] = "recordsent" => r = attempt
     /\ op[a] = "move" => r.status \in {"sending", "sent"}

RecordInv == (\A p \in Paths : Sound(p)) /\ (\A a \in Actors : AsLeft(a))

\* An actor that moves within its check and its claim.
LEMMA MovesInCharge ==
  ASSUME TypeInv, InCharge, NEW a \in Actors, NEW step, NEW pc,
         pc # "threw", step \in Working => pc = "held",
         op' = [op EXCEPT ![a] = step], cpc' = [cpc EXCEPT ![a] = pc]
  PROVE  InCharge'
BY DEF TypeInv, RecordTypes, ClaimTypeOK, InCharge

\* An actor that is done with its check or cancel.
LEMMA FinishInCharge ==
  ASSUME TypeInv, InCharge, NEW a \in Actors, Finish(a)
  PROVE  InCharge'
<1>1. op' = [op EXCEPT ![a] = "idle"] /\ "idle" \notin Working
  BY DEF Finish, Do, Working
<1>2. \E pc : pc # "threw" /\ cpc' = [cpc EXCEPT ![a] = pc]
  BY DEF Finish, Release, Goto, claimVars, InCharge, TypeInv, ClaimTypeOK
<1>3. QED
  BY <1>1, <1>2, MovesInCharge

\* An actor that goes on with the claim it holds.
LEMMA GoesOnInCharge ==
  ASSUME TypeInv, InCharge, NEW a \in Actors, NEW step, Do(a, step), UNCHANGED claimVars,
         cpc[a] = "held"
  PROVE  InCharge'
BY MovesInCharge DEF Do, claimVars, TypeInv, ClaimTypeOK

\* Whoever works on a record does so under its claim, after every step.
LEMMA InChargeStep ==
  ASSUME NoClaimErrors
  PROVE  TypeInv /\ InCharge /\ [Next]_vars => InCharge'
<1> SUFFICES ASSUME TypeInv, InCharge, [Next]_vars PROVE InCharge'
  OBVIOUS
<1>1. ASSUME UNCHANGED <<op, cpc>> PROVE InCharge'
  BY <1>1 DEF InCharge
<1>2. ASSUME NEW a \in Actors, CheckStep(a) \/ CancelStep(a) PROVE InCharge'
  <2>1. op[a] \in Working => cpc[a] = "held"
    BY DEF InCharge
  <2> USE FinishInCharge, GoesOnInCharge DEF Working
  <2>2. CASE Settle(a) \/ Reread(a)
    BY <2>2 DEF Settle, Reread
  <2>3. CASE MarkFailed(a) \/ MarkSending(a)
    BY <2>1, <2>3 DEF MarkFailed, MarkSending
  <2>4. CASE SendEmail(a) \/ HeldBack(a) \/ RecordSent(a)
    BY <2>1, <2>4 DEF SendEmail, HeldBack, RecordSent
  <2>5. CASE RestoreQueued(a) \/ MoveSent(a)
    BY <2>1, <2>5 DEF RestoreQueued, MoveSent
  <2>6. CASE FailRead(a) \/ FailWrite(a)
    BY <2>1, <2>6 DEF FailRead, FailWrite
  <2>7. CASE CancelReread(a) \/ CancelUnlink(a)
    BY <2>7 DEF CancelReread, CancelUnlink
  <2>8. QED
    BY <1>2, <2>2, <2>3, <2>4, <2>5, <2>6, <2>7 DEF CheckStep, CancelStep
<1>3. ASSUME NEW a \in Actors, NEW p \in Paths, ReadQueueFile(a, p) \/ CancelRead(a, p)
      PROVE  InCharge'
  <2>1. \E step \in {"settle", "send", "cancel"} : op' = [op EXCEPT ![a] = step]
    BY <1>3 DEF ReadQueueFile, CancelRead, Do
  <2>2. cpc' = [cpc EXCEPT ![a] = "create"]
    BY <1>3 DEF ReadQueueFile, CancelRead, Request, Goto
  <2>3. QED
    BY <2>1, <2>2, MovesInCharge DEF Working
<1>4. ASSUME NEW a \in Actors, Skip(a) PROVE InCharge'
  BY <1>4, MovesInCharge DEF Skip, GiveUp, Goto, Do, Working
<1>5. ASSUME NEW a \in Actors, Crash(a) PROVE InCharge'
  BY <1>5, MovesInCharge
     DEF Crash, ClaimCrash, EndClaim, Goto, Do, claimVars, TypeInv, ClaimTypeOK, Working
<1>6. ASSUME NEW a \in Actors, RunClaim(a) \/ Throw(a) PROVE InCharge'
  <2>1. op' = [op EXCEPT ![a] = op[a]]
    BY <1>6 DEF RunClaim, Throw, schedVars, TypeInv, RecordTypes
  <2>2. /\ cpc[a] \in AcquireSteps \cup {"release", "unlink"}
        /\ \E pc \in AcquireSteps \cup {"denied", "held", "idle", "unlink"} :
             cpc' = [cpc EXCEPT ![a] = pc]
    BY <1>6
       DEF RunClaim, Throw, ClaimStep, Create, Stat, Recreate, Park, Restore, Take, ReleaseRead,
           ReleaseUnlink, AcquireThrows, ReleaseThrows, CreateClaim, EndClaim, Goto, AcquireSteps,
           NoClaimErrors
  <2>3. op[a] \notin Working
    BY <2>2 DEF InCharge, AcquireSteps
  <2>4. QED
    BY <2>1, <2>2, <2>3, MovesInCharge DEF AcquireSteps
<1>7. ASSUME NEW a \in Actors, RenewClaim(a) PROVE InCharge'
  BY <1>1, <1>7 DEF RenewClaim, Renew, schedVars
<1>8. ASSUME NEW r \in Procs, CountLive(r) \/ AbandonPlan(r) \/ \E p \in Paths : WriteNew(r, p)
      PROVE  InCharge'
  BY <1>1, <1>8 DEF CountLive, AbandonPlan, WriteNew, claimVars
<1>9. ASSUME NEW p \in Paths, BecomeDue(p) \/ Expire(p) PROVE InCharge'
  BY <1>1, <1>9 DEF BecomeDue, Expire, GoStale, claimVars, schedVars
<1>10. CASE UNCHANGED vars
  BY <1>1, <1>10 DEF vars, claimVars, schedVars
<1>11. Checkers \subseteq Actors /\ Cancellers \subseteq Actors
  BY SchedulerConstants
<1>12. ASSUME NEW a \in Actors, ClaimThrew(a) PROVE FALSE
  BY <1>12 DEF ClaimThrew, InCharge
<1>13. QED
  BY <1>2, <1>3, <1>4, <1>5, <1>6, <1>7, <1>8, <1>9, <1>10, <1>11, <1>12 DEF Next

----------------------------------------------------------------------------
(* One actor at a time *)

\* What a step of a check or cancel leaves alone.
ActsAlone(a) ==
  /\ UNCHANGED <<cpath, planned>>
  /\ \A b \in Actors \ {a} : UNCHANGED <<op[b], copy[b]>>
  /\ \A p \in Paths \ {cpath[a]} : UNCHANGED <<rec[p], done[p], accepted[p], cancelled[p]>>

\* A step of a check or a cancel concerns one actor and one email, whose claim
\* the actor holds.
LEMMA StepIsAlone ==
  ASSUME TypeInv, InCharge, NEW a \in Actors, CheckStep(a) \/ CancelStep(a)
  PROVE  ActsAlone(a) /\ Holds(a, cpath[a])
<1>1. cpc[a] = "held"
  BY DEF CheckStep, CancelStep, Settle, Reread, MarkFailed, MarkSending, SendEmail, HeldBack,
         RestoreQueued, RecordSent, MoveSent, FailRead, FailWrite, CancelReread, CancelUnlink,
         InCharge, Working
<1>2. cpath' = cpath /\ \A b \in Actors \ {a} : op'[b] = op[b]
  BY DEF CheckStep, CancelStep, Settle, Reread, MarkFailed, MarkSending, SendEmail, HeldBack,
         RestoreQueued, RecordSent, MoveSent, FailRead, FailWrite, CancelReread, CancelUnlink,
         Finish, Release, Do, claimVars, TypeInv, RecordTypes
<1>3. planned' = planned /\ \A b \in Actors \ {a} : copy'[b] = copy[b]
  BY DEF CheckStep, CancelStep, Settle, Reread, MarkFailed, MarkSending, SendEmail, HeldBack,
         RestoreQueued, RecordSent, MoveSent, FailRead, FailWrite, CancelReread, CancelUnlink,
         others, historyVars, TypeInv, RecordTypes
<1>4. \A p \in Paths \ {cpath[a]} : UNCHANGED <<rec[p], done[p]>>
  BY DEF CheckStep, CancelStep, Settle, Reread, MarkFailed, MarkSending, SendEmail, HeldBack,
         RestoreQueued, RecordSent, MoveSent, FailRead, FailWrite, CancelReread, CancelUnlink,
         Write, MoveToSent, recordVars, TypeInv, RecordTypes
<1>5. \A p \in Paths \ {cpath[a]} : UNCHANGED <<accepted[p], cancelled[p]>>
  BY DEF CheckStep, CancelStep, Settle, Reread, MarkFailed, MarkSending, SendEmail, HeldBack,
         RestoreQueued, RecordSent, MoveSent, FailRead, FailWrite, CancelReread, CancelUnlink,
         others, historyVars, TypeInv, RecordTypes, OtherTypes
<1>6. QED
  BY <1>1, <1>2, <1>3, <1>4, <1>5 DEF ActsAlone, Holds, HoldSteps

\* Such a step keeps the records in order if it does so for its own email, and
\* does not unsettle it.
LEMMA AloneStep ==
  ASSUME RecordInv, InCharge, Exclusive, TypeInv, NEW a \in Actors,
         ActsAlone(a), Holds(a, cpath[a]),
         Sound(cpath[a])', AsLeft(a)',
         IsSettled(cpath[a]) => IsSettled(cpath[a])'
  PROVE  RecordInv'
<1> DEFINE p == cpath[a]
<1>0. p \in Paths
  BY DEF TypeInv, RecordTypes
<1>1. ASSUME NEW q \in Paths PROVE Sound(q)'
  <2>1. CASE q # p
    BY <1>0, <2>1 DEF ActsAlone, RecordInv, Sound
  <2>2. QED
    BY <2>1 DEF ActsAlone, Sound
<1>2. ASSUME NEW b \in Actors PROVE AsLeft(b)'
  <2>1. CASE b # a /\ cpath[b] # p
    <3>1. cpath[b] \in Paths \ {p}
      BY <2>1 DEF TypeInv, RecordTypes
    <3>2. /\ op'[b] = op[b] /\ copy'[b] = copy[b] /\ cpath' = cpath /\ planned' = planned
          /\ rec'[cpath[b]] = rec[cpath[b]] /\ done'[cpath[b]] = done[cpath[b]]
          /\ accepted'[cpath[b]] = accepted[cpath[b]] /\ cancelled'[cpath[b]] = cancelled[cpath[b]]
      BY <2>1, <3>1 DEF ActsAlone
    <3>3. AsLeft(b)
      BY DEF RecordInv
    <3>4. QED
      BY <3>2, <3>3 DEF AsLeft, IsSettled, Alive
  <2>2. CASE b # a /\ cpath[b] = p
    <3>1. op[b] \notin Working
      BY <1>0, <2>2 DEF InCharge, Exclusive, Holds, HoldSteps
    <3>2. AsLeft(b) /\ op'[b] = op[b] /\ cpath' = cpath /\ planned' = planned
      BY <2>2 DEF ActsAlone, RecordInv
    <3>3. op[b] = "settle" => ~cancelled'[cpath[b]]
                              /\ (rec'[cpath[b]].status = "sent" \/ done'[cpath[b]] # NoRecord)
      BY <2>2, <3>2 DEF AsLeft, IsSettled
    <3>4. QED
      BY <3>1, <3>2, <3>3 DEF AsLeft, Working, IsSettled
  <2>3. QED
    BY <2>1, <2>2
<1>3. QED
  BY <1>1, <1>2 DEF RecordInv

\* The facts about the record of an actor that the steps start from.
LEMMA OwnFacts ==
  ASSUME TypeInv, HonestInv, RecordInv, NEW a \in Actors
  PROVE  /\ cpath[a] \in Paths /\ Sound(cpath[a]) /\ AsLeft(a) /\ Informed(a)
         /\ rec[cpath[a]] \in Record /\ done[cpath[a]] \in Record /\ copy[a] \in Record
         /\ rec[cpath[a]].attempts \in Nat /\ done[cpath[a]].attempts \in Nat
         /\ copy[a].attempts \in Nat /\ accepted[cpath[a]] \in Nat
         /\ rec[cpath[a]].attempts <= MaxAttempts
         /\ MaxAttempts \in Nat
         /\ op[a] \in CheckSteps
BY ActorFacts, RecordForms DEF TypeInv, RecordTypes, RecordInv, Honest

\* A record that is being worked on belongs to an email that is queued and not
\* cancelled, and it is its only record.
LEMMA AliveRecord ==
  ASSUME NEW p \in Paths, Sound(p), rec[p].status \in {"pending", "sending", "sent"}
  PROVE  planned[p] /\ ~cancelled[p] /\ done[p] = NoRecord /\ rec[p] # NoRecord
BY DEF Sound, NoRecord

\* Putting a record in the place of one that is being worked on keeps the email's
\* record sound if it has as many attempts as SMTP has accepted.
LEMMA RewriteSound ==
  ASSUME TypeInv, NEW p \in Paths, Sound(p), NEW r \in Record,
         rec[p].status \in Alive, Write(p, r), UNCHANGED <<planned, cancelled>>,
         r.status # "none", r.attempts >= accepted'[p]
  PROVE  Sound(p)' /\ ~IsSettled(p)
<1>1. planned[p] /\ ~cancelled[p] /\ done[p] = NoRecord /\ rec[p] # NoRecord
  BY AliveRecord DEF Alive
<1>2. rec'[p] = r /\ done' = done /\ r # NoRecord
  BY DEF Write, TypeInv, RecordTypes, NoRecord
<1>3. NoRecord.attempts = 0 /\ r.attempts \in Nat /\ NoRecord.status = "none"
  BY DEF NoRecord, Record
<1>4. accepted'[p] <= rec'[p].attempts + done'[p].attempts
  BY <1>1, <1>2, <1>3
<1>5. QED
  BY <1>1, <1>2, <1>3, <1>4, SchedulerConstants DEF Sound, IsSettled, Alive

\* Moving a record that says sent, or whose email was sent, keeps it sound.
LEMMA MoveSound ==
  ASSUME TypeInv, NEW p \in Paths, Sound(p), rec[p].attempts <= MaxAttempts,
         rec[p].status \in {"sending", "sent"} \/ done[p] # NoRecord,
         MoveToSent(p) \/ UNCHANGED recordVars, UNCHANGED <<planned, cancelled, accepted>>
  PROVE  Sound(p)' /\ (IsSettled(p) => IsSettled(p)')
<1>1. CASE rec[p] # NoRecord /\ MoveToSent(p)
  <2>1. done'[p] = rec[p] /\ rec'[p] = NoRecord /\ done[p] = NoRecord
    BY <1>1 DEF MoveToSent, TypeInv, RecordTypes, Sound
  <2>2. rec[p].status \in {"sending", "sent"}
    BY <2>1
  <2>3. planned[p] /\ ~cancelled[p]
    BY <2>2, AliveRecord
  <2>4. rec[p].attempts + 0 = 0 + rec[p].attempts /\ NoRecord.attempts = 0
    BY RecordForms DEF TypeInv, RecordTypes, NoRecord
  <2>5. QED
    BY <1>1, <2>1, <2>2, <2>3, <2>4 DEF Sound, IsSettled
<1>2. CASE UNCHANGED <<rec[p], done[p]>>
  BY <1>2 DEF Sound, IsSettled
<1>3. QED
  BY <1>1, <1>2 DEF MoveToSent, recordVars

\* A step of checkAndSend leaves the actor's own email in order.
LEMMA OwnCheckStep ==
  ASSUME TypeInv, HonestInv, RecordInv, InCharge, NEW a \in Actors, CheckStep(a)
  PROVE  Sound(cpath[a])' /\ AsLeft(a)' /\ (IsSettled(cpath[a]) => IsSettled(cpath[a])')
<1> DEFINE p == cpath[a]
           Goal == Sound(p)' /\ AsLeft(a)' /\ (IsSettled(p) => IsSettled(p)')
<1>0. /\ p \in Paths /\ Sound(p) /\ AsLeft(a) /\ Informed(a)
      /\ rec[p] \in Record /\ done[p] \in Record /\ copy[a] \in Record
      /\ rec[p].attempts \in Nat /\ done[p].attempts \in Nat /\ copy[a].attempts \in Nat
      /\ accepted[p] \in Nat /\ rec[p].attempts <= MaxAttempts /\ MaxAttempts \in Nat
  BY OwnFacts
<1>1. cpath' = cpath /\ planned' = planned
  BY StepIsAlone DEF ActsAlone
<1>2. ASSUME op'[a] = "idle" PROVE AsLeft(a)'
  BY <1>2 DEF AsLeft
<1>3. ASSUME Finish(a) PROVE op'[a] = "idle"
  BY <1>3 DEF Finish, Do, TypeInv, RecordTypes
<1>4. ASSUME NEW step, Do(a, step) PROVE op'[a] = step
  BY <1>4 DEF Do, TypeInv, RecordTypes
<1>5. ASSUME UNCHANGED <<rec, done, cancelled, accepted>>
      PROVE  Sound(p)' /\ (IsSettled(p) => IsSettled(p)')
  BY <1>0, <1>1, <1>5 DEF Sound, IsSettled
<1>6. \A step : step \in Alive => step \in {"pending", "sending", "sent"}
  BY DEF Alive
<1>10. CASE Settle(a)
  <2>1. rec[p].status \in {"sending", "sent"} \/ done[p] # NoRecord
    BY <1>0, <1>10 DEF Settle, AsLeft, IsSettled
  <2>2. (MoveToSent(p) \/ UNCHANGED recordVars) /\ UNCHANGED <<planned, cancelled, accepted>>
    BY <1>10 DEF Settle, others, historyVars
  <2>3. Sound(p)' /\ (IsSettled(p) => IsSettled(p)')
    BY <1>0, <1>1, <2>1, <2>2, MoveSound
  <2>4. QED
    BY <1>2, <1>3, <1>10, <2>3 DEF Settle
<1>11. CASE Reread(a)
  <2>1. Sound(p)' /\ (IsSettled(p) => IsSettled(p)')
    BY <1>5, <1>11 DEF Reread, recordVars, others, historyVars
  <2>2. CASE IsDue(rec[p], p) /\ ~Finish(a)
    <3>1. /\ copy'[a] = rec[p] /\ rec' = rec
          /\ op'[a] \in {"markfailed", "marksending"}
      BY <1>4, <1>11, <2>2 DEF Reread, recordVars, TypeInv, RecordTypes
    <3>2. rec[p].status \in Alive /\ planned[p]
      BY <1>0, <2>2, AliveRecord DEF IsDue, Alive
    <3>3. AsLeft(a)'
      BY <1>1, <3>1, <3>2 DEF AsLeft
    <3>4. QED
      BY <2>1, <3>3
  <2>3. QED
    BY <1>2, <1>3, <1>11, <2>1, <2>2 DEF Reread
<1>12. CASE MarkFailed(a)
  <2> DEFINE new == [copy[a] EXCEPT !.status = "failed"]
  <2>1. /\ rec[p] = copy[a] /\ rec[p].status \in Alive /\ planned[p]
        /\ UNCHANGED <<accepted, cancelled>>
    BY <1>0, <1>12 DEF MarkFailed, AsLeft, others, historyVars
  <2>2. CASE Write(p, new) /\ Finish(a)
    <3>1. new \in Record /\ new.attempts = copy[a].attempts /\ new.status = "failed"
      BY <1>0, RecordForms
    <3> HIDE DEF new
    <3>2. accepted[p] <= copy[a].attempts
      BY <1>0, <2>1, AliveRecord DEF Sound, Alive, NoRecord
    <3>3. Sound(p)' /\ ~IsSettled(p)
      BY <1>0, <1>1, <2>1, <2>2, <3>1, <3>2, RewriteSound
    <3>4. QED
      BY <1>2, <1>3, <2>2, <3>3
  <2>3. CASE Do(a, "failread") /\ UNCHANGED recordVars
    <3>1. AsLeft(a)'
      BY <1>1, <1>4, <2>1, <2>3 DEF AsLeft, recordVars
    <3>2. QED
      BY <1>5, <2>1, <2>3, <3>1 DEF recordVars
  <2>4. QED
    BY <1>12, <2>2, <2>3 DEF MarkFailed
<1>13. CASE MarkSending(a)
  <2> DEFINE new == [status |-> "sending", attempts |-> copy[a].attempts + 1]
  <2>1. rec[p] = copy[a] /\ rec[p].status \in Alive /\ planned[p] /\ copy' = copy
        /\ UNCHANGED <<accepted, cancelled>>
    BY <1>0, <1>13 DEF MarkSending, AsLeft, others, historyVars
  <2>2. CASE Write(p, new) /\ Do(a, "smtp")
    <3>1. accepted[p] <= copy[a].attempts
      BY <1>0, <2>1, AliveRecord DEF Sound, Alive, NoRecord
    <3>2. new \in Record /\ new.attempts = copy[a].attempts + 1 /\ new.status = "sending"
      BY <1>0 DEF Record
    <3>3. rec'[p] = new
      BY <1>0, <2>2 DEF Write, TypeInv, RecordTypes
    <3>4. AsLeft(a)'
      BY <1>0, <1>1, <1>4, <2>1, <2>2, <3>1, <3>3 DEF AsLeft
    <3>5. Sound(p)' /\ ~IsSettled(p)
      <4> HIDE DEF new
      <4>1. new.attempts >= accepted'[p]
        BY <1>0, <2>1, <3>1, <3>2
      <4>2. QED
        BY <1>0, <1>1, <2>1, <2>2, <3>2, <4>1, RewriteSound
    <3>6. QED
      BY <3>4, <3>5
  <2>3. CASE Do(a, "failread") /\ UNCHANGED recordVars
    <3>1. AsLeft(a)'
      BY <1>1, <1>4, <2>1, <2>3 DEF AsLeft, recordVars
    <3>2. QED
      BY <1>5, <2>1, <2>3, <3>1 DEF recordVars
  <2>4. QED
    BY <1>13, <2>2, <2>3 DEF MarkSending
<1>14. CASE SendEmail(a)
  <2>1. /\ rec[p] = [status |-> "sending", attempts |-> copy[a].attempts + 1]
        /\ accepted[p] <= copy[a].attempts /\ planned[p]
        /\ UNCHANGED <<rec, done, copy, cancelled>>
        /\ op'[a] \in {"recordsent", "failread"}
    BY <1>0, <1>4, <1>14 DEF SendEmail, AsLeft, recordVars
  <2>2. rec[p].status = "sending" /\ rec[p].attempts = copy[a].attempts + 1
    BY <2>1
  <2>3. done[p] = NoRecord /\ NoRecord.attempts = 0
    BY <1>0, <2>2, AliveRecord DEF NoRecord
  <2>4. accepted'[p] \in Nat /\ accepted'[p] <= rec[p].attempts
    BY <1>0, <1>14, <2>1, <2>2 DEF SendEmail, TypeInv, RecordTypes
  <2>5. Sound(p)' /\ (IsSettled(p) => IsSettled(p)')
    BY <1>0, <1>1, <2>1, <2>2, <2>3, <2>4 DEF Sound, IsSettled
  <2>6. AsLeft(a)'
    BY <1>1, <2>1, <2>2 DEF AsLeft, Alive
  <2>7. QED
    BY <2>5, <2>6
<1>15. CASE HeldBack(a)
  <2>1. AsLeft(a)'
    BY <1>0, <1>1, <1>4, <1>15 DEF HeldBack, AsLeft, recordVars, others, historyVars
  <2>2. QED
    BY <1>5, <1>15, <2>1 DEF HeldBack, recordVars, others, historyVars
<1>16. CASE RestoreQueued(a)
  <2>1. /\ rec[p].status = "sending" /\ copy[a].status \in Alive
        /\ accepted[p] <= copy[a].attempts /\ planned[p]
        /\ UNCHANGED <<accepted, cancelled>>
    BY <1>0, <1>16 DEF RestoreQueued, AsLeft, others, historyVars
  <2>2. CASE Write(p, copy[a]) /\ Finish(a)
    <3>1. Sound(p)' /\ ~IsSettled(p)
      BY <1>0, <1>1, <2>1, <2>2, RewriteSound DEF Alive
    <3>2. QED
      BY <1>2, <1>3, <2>2, <3>1
  <2>3. CASE Do(a, "failread") /\ UNCHANGED recordVars
    <3>1. AsLeft(a)'
      BY <1>1, <1>4, <2>1, <2>3 DEF AsLeft, recordVars, Alive
    <3>2. QED
      BY <1>5, <2>1, <2>3, <3>1 DEF recordVars
  <2>4. QED
    BY <1>16, <2>2, <2>3 DEF RestoreQueued
<1>17. CASE RecordSent(a)
  <2> DEFINE new == [status |-> "sent", attempts |-> copy[a].attempts + 1]
  <2>1. /\ rec[p] = [status |-> "sending", attempts |-> copy[a].attempts + 1] /\ planned[p]
        /\ UNCHANGED <<accepted, cancelled>> /\ op'[a] = "move"
    BY <1>0, <1>4, <1>17 DEF RecordSent, AsLeft, others, historyVars
  <2>2. rec[p].status = "sending" /\ rec[p].attempts = copy[a].attempts + 1
    BY <2>1
  <2>3. CASE Write(p, new)
    <3>1. accepted[p] <= rec[p].attempts
      BY <1>0, <2>2, AliveRecord DEF Sound, NoRecord
    <3>2. new \in Record /\ new.attempts = copy[a].attempts + 1 /\ new.status = "sent"
      BY <1>0 DEF Record
    <3>3. rec'[p] = new
      BY <1>0, <2>3 DEF Write, TypeInv, RecordTypes
    <3>4. AsLeft(a)'
      BY <1>1, <2>1, <3>2, <3>3 DEF AsLeft
    <3>5. Sound(p)' /\ ~IsSettled(p)
      <4> HIDE DEF new
      <4>1. new.attempts >= accepted'[p]
        BY <1>0, <2>1, <2>2, <3>1, <3>2
      <4>2. QED
        BY <1>0, <1>1, <2>1, <2>2, <2>3, <3>2, <4>1, RewriteSound DEF Alive
    <3>6. QED
      BY <3>4, <3>5
  <2>4. CASE UNCHANGED recordVars
    <3>1. AsLeft(a)'
      BY <1>1, <2>1, <2>2, <2>4 DEF AsLeft, recordVars
    <3>2. QED
      BY <1>5, <2>1, <2>4, <3>1 DEF recordVars
  <2>5. QED
    BY <1>17, <2>3, <2>4 DEF RecordSent
<1>18. CASE MoveSent(a)
  <2>1. rec[p].status \in {"sending", "sent"}
    BY <1>0, <1>18 DEF MoveSent, AsLeft
  <2>2. (MoveToSent(p) \/ UNCHANGED recordVars) /\ UNCHANGED <<planned, cancelled, accepted>>
    BY <1>18 DEF MoveSent, others, historyVars
  <2>3. Sound(p)' /\ (IsSettled(p) => IsSettled(p)')
    BY <1>0, <1>1, <2>1, <2>2, MoveSound
  <2>4. QED
    BY <1>2, <1>3, <1>18, <2>3 DEF MoveSent
<1>19. CASE FailRead(a)
  <2>1. Sound(p)' /\ (IsSettled(p) => IsSettled(p)')
    BY <1>5, <1>19 DEF FailRead, recordVars, others, historyVars
  <2>2. CASE ~Finish(a)
    <3>1. copy'[a] = rec[p] /\ rec' = rec /\ op'[a] = "failwrite"
      BY <1>4, <1>19, <2>2 DEF FailRead, recordVars, TypeInv, RecordTypes
    <3>2. rec[p].status \in Alive /\ planned[p]
      BY <1>0, <1>19 DEF FailRead, AsLeft
    <3>3. AsLeft(a)'
      BY <1>1, <3>1, <3>2 DEF AsLeft
    <3>4. QED
      BY <2>1, <3>3
  <2>3. QED
    BY <1>2, <1>3, <2>1, <2>2
<1>20. CASE FailWrite(a)
  <2> DEFINE new == [copy[a] EXCEPT !.status =
                       IF copy[a].attempts >= MaxAttempts THEN "failed" ELSE "pending"]
  <2>1. /\ rec[p] = copy[a] /\ rec[p].status \in Alive /\ planned[p]
        /\ UNCHANGED <<accepted, cancelled>>
    BY <1>0, <1>20 DEF FailWrite, AsLeft, others, historyVars
  <2>2. CASE Write(p, new)
    <3>1. /\ new \in Record /\ new.attempts = copy[a].attempts /\ new.status # "none"
      BY <1>0, RecordForms
    <3> HIDE DEF new
    <3>2. accepted[p] <= copy[a].attempts
      BY <1>0, <2>1, AliveRecord DEF Sound, Alive, NoRecord
    <3>3. Sound(p)' /\ ~IsSettled(p)
      BY <1>0, <1>1, <2>1, <2>2, <3>1, <3>2, RewriteSound
    <3>4. QED
      BY <1>2, <1>3, <1>20, <3>3 DEF FailWrite
  <2>3. CASE UNCHANGED recordVars
    BY <1>2, <1>3, <1>5, <1>20, <2>1, <2>3 DEF FailWrite, recordVars
  <2>4. QED
    BY <1>20, <2>2, <2>3 DEF FailWrite
<1>21. QED
  BY <1>10, <1>11, <1>12, <1>13, <1>14, <1>15, <1>16, <1>17, <1>18, <1>19, <1>20 DEF CheckStep

\* So does a step of cancel.
LEMMA OwnCancelStep ==
  ASSUME TypeInv, HonestInv, RecordInv, InCharge, NEW a \in Actors, CancelStep(a)
  PROVE  Sound(cpath[a])' /\ AsLeft(a)' /\ (IsSettled(cpath[a]) => IsSettled(cpath[a])')
<1> DEFINE p == cpath[a]
<1>0. p \in Paths /\ Sound(p) /\ AsLeft(a) /\ rec[p] \in Record /\ MaxAttempts \in Nat
  BY OwnFacts
<1>1. cpath' = cpath /\ planned' = planned
  BY StepIsAlone DEF ActsAlone
<1>2. ASSUME Finish(a) PROVE AsLeft(a)'
  BY <1>2 DEF Finish, Do, AsLeft, TypeInv, RecordTypes
<1>3. CASE CancelReread(a)
  <2>1. UNCHANGED <<rec, done, accepted, cancelled>>
    BY <1>3 DEF CancelReread, recordVars, others, historyVars
  <2>2. Sound(p)' /\ (IsSettled(p) => IsSettled(p)')
    BY <1>0, <1>1, <2>1 DEF Sound, IsSettled
  <2>3. CASE ~Finish(a)
    <3>1. op'[a] = "deletedraft" /\ rec[p].status = "pending"
      BY <1>3, <2>3 DEF CancelReread, Do, TypeInv, RecordTypes
    <3>2. planned[p]
      BY <1>0, <3>1, AliveRecord
    <3>3. AsLeft(a)'
      BY <1>1, <2>1, <3>1, <3>2 DEF AsLeft
    <3>4. QED
      BY <2>2, <3>3
  <2>4. QED
    BY <1>2, <2>2, <2>3
<1>4. CASE CancelUnlink(a)
  <2>1. rec[p].status = "pending"
    BY <1>0, <1>4 DEF CancelUnlink, AsLeft
  <2>2. planned[p] /\ ~cancelled[p] /\ done[p] = NoRecord /\ rec[p] # NoRecord
    BY <1>0, <2>1, AliveRecord
  <2>3. rec'[p] = NoRecord /\ done' = done /\ cancelled'[p] /\ accepted' = accepted
    BY <1>0, <1>4, <2>2 DEF CancelUnlink, Write, TypeInv, RecordTypes, OtherTypes
  <2>4. NoRecord.attempts = 0 /\ NoRecord.status = "none"
    BY DEF NoRecord
  <2>5. Sound(p)' /\ ~IsSettled(p)
    BY <1>0, <1>1, <2>1, <2>2, <2>3, <2>4 DEF Sound, IsSettled
  <2>6. QED
    BY <1>2, <1>4, <2>5 DEF CancelUnlink
<1>5. QED
  BY <1>3, <1>4 DEF CancelStep

\* The steps that leave every record and every actor's copy alone, and send an
\* actor at most to a step where nothing is asked of its record but that it is
\* there.
LEMMA ElsewhereStep ==
  ASSUME TypeInv, RecordInv, NEW a \in Actors, NEW step \in {"idle", "settle", "send", "cancel"},
         UNCHANGED <<rec, done, copy, accepted, planned, cancelled>>,
         op' = [op EXCEPT ![a] = step],
         \A b \in Actors \ {a} : cpath'[b] = cpath[b],
         step # "idle" => planned[cpath'[a]],
         step = "settle" => IsSettled(cpath'[a])
  PROVE  RecordInv'
<1>1. ASSUME NEW p \in Paths PROVE Sound(p)'
  BY DEF RecordInv, Sound
<1>2. AsLeft(a)'
  <2>1. op'[a] = step
    BY DEF TypeInv, RecordTypes
  <2>2. QED
    BY <2>1 DEF AsLeft, IsSettled
<1>3. ASSUME NEW b \in Actors \ {a} PROVE AsLeft(b)'
  <2>1. op'[b] = op[b] /\ cpath'[b] = cpath[b] /\ AsLeft(b)
    BY DEF TypeInv, RecordTypes, RecordInv
  <2>2. QED
    BY <2>1 DEF AsLeft, IsSettled
<1>4. QED
  BY <1>1, <1>2, <1>3 DEF RecordInv

\* An email that was never planned has no record, no attempt and no history.
LEMMA UnplannedIsEmpty ==
  ASSUME TypeInv, NEW p \in Paths, Sound(p), ~planned[p]
  PROVE  rec[p] = NoRecord /\ done[p] = NoRecord /\ accepted[p] = 0 /\ ~cancelled[p]
<1>1. rec[p] = NoRecord /\ done[p] = NoRecord /\ ~cancelled[p]
  BY DEF Sound
<1>2. accepted[p] \in Nat /\ accepted[p] <= 0
  BY <1>1 DEF Sound, NoRecord, TypeInv, RecordTypes
<1>3. QED
  BY <1>1, <1>2

\* Scheduling an email concerns nobody yet.
LEMMA PlanStep ==
  ASSUME TypeInv, RecordInv, NEW r \in Procs, NEW p \in Paths, WriteNew(r, p)
  PROVE  RecordInv'
<1> DEFINE new == [status |-> "pending", attempts |-> 0]
<1>1. /\ rec' = [rec EXCEPT ![p] = new] /\ planned' = [planned EXCEPT ![p] = TRUE] /\ ~planned[p]
      /\ UNCHANGED <<done, op, copy, cpath, accepted, cancelled>>
  BY DEF WriteNew, Write, claimVars
<1>2. new # NoRecord /\ new.attempts = 0 /\ NoRecord.attempts = 0 /\ NoRecord.status = "none"
  BY DEF NoRecord
<1>3. rec[p] = NoRecord /\ done[p] = NoRecord /\ accepted[p] = 0 /\ ~cancelled[p]
  BY <1>1, UnplannedIsEmpty DEF RecordInv
<1> HIDE DEF new
<1>4. ASSUME NEW q \in Paths PROVE Sound(q)'
  <2>1. CASE q = p
    <3>1. rec'[p] = new /\ planned'[p]
      BY <1>1 DEF TypeInv, RecordTypes, OtherTypes
    <3>2. QED
      BY <1>1, <1>2, <1>3, <2>1, <3>1, SchedulerConstants DEF Sound
  <2>2. CASE q # p
    BY <1>1, <2>2 DEF TypeInv, RecordTypes, OtherTypes, RecordInv, Sound
  <2>3. QED
    BY <2>1, <2>2
<1>5. ASSUME NEW a \in Actors PROVE AsLeft(a)'
  <2>1. AsLeft(a) /\ cpath[a] \in Paths
    BY DEF RecordInv, TypeInv, RecordTypes
  <2>2. CASE op[a] = "idle"
    BY <1>1, <2>2 DEF AsLeft
  <2>3. CASE op[a] # "idle"
    <3>1. cpath[a] # p
      BY <1>1, <2>1, <2>3 DEF AsLeft
    <3>2. rec'[cpath[a]] = rec[cpath[a]] /\ planned'[cpath[a]] = planned[cpath[a]]
      BY <1>1, <2>1, <3>1 DEF TypeInv, RecordTypes, OtherTypes
    <3>3. QED
      BY <1>1, <2>1, <3>2 DEF AsLeft, IsSettled
  <2>4. QED
    BY <2>2, <2>3
<1>6. QED
  BY <1>4, <1>5 DEF RecordInv

\* Every step of the queue keeps the records in order while claims are exclusive.
LEMMA RecordStep ==
  ASSUME TypeInv, HonestInv, InCharge, RecordInv, Exclusive, [Next]_vars
  PROVE  RecordInv'
<1>1. ASSUME UNCHANGED <<rec, done, op, copy, cpath, accepted, planned, cancelled>>
      PROVE  RecordInv'
  BY <1>1 DEF RecordInv, Sound, AsLeft, IsSettled
<1>2. ASSUME NEW a \in Actors, CheckStep(a) \/ CancelStep(a) PROVE RecordInv'
  BY <1>2, OwnCheckStep, OwnCancelStep, StepIsAlone, AloneStep
<1>3. ASSUME NEW a \in Actors, NEW p \in Paths, ReadQueueFile(a, p) \/ CancelRead(a, p)
      PROVE  RecordInv'
  <2>0. UNCHANGED <<rec, done, copy, accepted, planned, cancelled>>
    BY <1>3 DEF ReadQueueFile, CancelRead, recordVars, others, historyVars
  <2>1. cpath' = [cpath EXCEPT ![a] = p]
    BY <1>3 DEF ReadQueueFile, CancelRead, Request
  <2>2. cpath'[a] = p /\ \A b \in Actors \ {a} : cpath'[b] = cpath[b]
    BY <2>1 DEF TypeInv, RecordTypes
  <2>3. rec[p].status \in {"pending", "sending", "sent"}
    BY <1>3 DEF ReadQueueFile, CancelRead, IsDelivered, IsDue
  <2>4. planned[p] /\ ~cancelled[p]
    BY <2>3, AliveRecord DEF RecordInv
  <2>5. CASE op' = [op EXCEPT ![a] = "settle"] /\ IsDelivered(rec[p])
    BY <2>0, <2>2, <2>4, <2>5, ElsewhereStep DEF IsSettled, IsDelivered
  <2>6. CASE op' = [op EXCEPT ![a] = "send"] \/ op' = [op EXCEPT ![a] = "cancel"]
    BY <2>0, <2>2, <2>4, <2>6, ElsewhereStep
  <2>7. QED
    BY <1>3, <2>5, <2>6 DEF ReadQueueFile, CancelRead, Do
<1>4. ASSUME NEW a \in Actors, Skip(a) \/ Crash(a) PROVE RecordInv'
  <2>1. cpath' = cpath
    BY <1>4, ClaimKeepsPath DEF Skip, Crash, claimVars
  <2>2. op' = [op EXCEPT ![a] = "idle"] /\ UNCHANGED <<rec, done, copy, accepted, planned, cancelled>>
    BY <1>4 DEF Skip, Crash, Do, recordVars, others, historyVars
  <2>3. QED
    BY <2>1, <2>2, ElsewhereStep
<1>5. ASSUME NEW a \in Actors, RunClaim(a) \/ RenewClaim(a) \/ Throw(a) PROVE RecordInv'
  <2>1. cpath' = cpath
    BY <1>5, ClaimKeepsPath DEF RunClaim, RenewClaim, Throw
  <2>2. QED
    BY <1>1, <1>5, <2>1 DEF RunClaim, RenewClaim, Throw, schedVars
<1>6. ASSUME NEW r \in Procs, CountLive(r) \/ AbandonPlan(r) PROVE RecordInv'
  BY <1>1, <1>6 DEF CountLive, AbandonPlan, claimVars, historyVars
<1>7. ASSUME NEW p \in Paths, BecomeDue(p) \/ Expire(p) PROVE RecordInv'
  BY <1>1, <1>7 DEF BecomeDue, Expire, GoStale, claimVars, historyVars, schedVars
<1>8. CASE UNCHANGED vars
  BY <1>1, <1>8 DEF vars, claimVars, schedVars
<1>9. ASSUME NEW a \in Actors, ClaimThrew(a) PROVE FALSE
  BY <1>9 DEF ClaimThrew, InCharge
<1>10. Checkers \subseteq Actors /\ Cancellers \subseteq Actors
  BY SchedulerConstants
<1>11. QED
  BY <1>2, <1>3, <1>4, <1>5, <1>6, <1>7, <1>8, <1>9, <1>10, PlanStep DEF Next

\* The queue starts with no record and nobody at work.
LEMMA RecordInit == Init => InCharge /\ RecordInv
<1> SUFFICES ASSUME Init PROVE InCharge /\ RecordInv
  OBVIOUS
<1>1. InCharge
  BY DEF Init, ClaimInit, InCharge, Working
<1>2. NoRecord.status = "none" /\ NoRecord.attempts = 0
  BY DEF NoRecord
<1>3. ASSUME NEW p \in Paths PROVE Sound(p)
  BY <1>2, SchedulerConstants DEF Init, Sound
<1>4. ASSUME NEW a \in Actors PROVE AsLeft(a)
  BY DEF Init, AsLeft
<1>5. QED
  BY <1>1, <1>3, <1>4 DEF RecordInv

\* All that holds of a queue whose claims are exclusive.
QueueInv == TypeInv /\ HonestInv /\ InCharge /\ RecordInv

\* It is an invariant as long as claims are.
LEMMA QueueInvariant ==
  ASSUME NoClaimErrors
  PROVE  Spec /\ []Exclusive => []QueueInv
<1>1. Init => QueueInv
  BY TypeInvInit, HonestInit, RecordInit DEF QueueInv
<1>2. QueueInv /\ Exclusive /\ [Next]_vars => QueueInv'
  <2> SUFFICES ASSUME QueueInv, Exclusive, [Next]_vars PROVE QueueInv'
    OBVIOUS
  <2>1. HonestInv'
    BY HonestStep DEF QueueInv
  <2>2. TypeInv'
    BY <2>1, ClaimsMayBeLate, TypeStep, PlacedStep, OtherTypesStep DEF TypeInv, HonestInv, QueueInv
  <2>3. InCharge' /\ RecordInv'
    BY InChargeStep, RecordStep DEF QueueInv
  <2>4. QED
    BY <2>1, <2>2, <2>3 DEF QueueInv
<1>3. QED
  BY <1>1, <1>2, PTL DEF Spec

\* The record of every email tells what happened to it, for any number of actors,
\* emails and processes, through deaths, lost answers and failed writes, as long
\* as no claim is held twice and acquireClaim itself does not fail.
THEOREM RecordsTellAllIfExclusive ==
  ASSUME NoClaimErrors
  PROVE  Spec /\ []Exclusive => []RecordTellsAll
<1>1. QueueInv => RecordTellsAll
  <2> SUFFICES ASSUME QueueInv, NEW p \in Paths
               PROVE  /\ ~cancelled[p] => accepted[p] <= rec[p].attempts + done[p].attempts
                      /\ rec[p].attempts + done[p].attempts <= MaxAttempts
                      /\ planned[p] => IF cancelled[p]
                                       THEN rec[p] = NoRecord /\ done[p] = NoRecord
                                       ELSE (rec[p] = NoRecord) # (done[p] = NoRecord)
                      /\ done[p].status \in {"none", "sending", "sent"}
    BY DEF RecordTellsAll, AcceptedIsOnRecord, OneRecord
  <2>1. Sound(p) /\ rec[p].attempts <= MaxAttempts /\ MaxAttempts \in Nat
        /\ rec[p].attempts \in Nat /\ done[p].attempts \in Nat
    BY RecordForms, SchedulerConstants
       DEF QueueInv, RecordInv, HonestInv, Honest, TypeInv, RecordTypes
  <2>2. rec[p].attempts + done[p].attempts <= MaxAttempts
    BY <2>1 DEF Sound, NoRecord
  <2>3. QED
    BY <2>1, <2>2 DEF Sound
<1>2. QED
  BY <1>1, QueueInvariant, PTL

\* In particular for two actors, no slow cancel, and any death, lost answer or
\* failed record write.
THEOREM RecordsTellAll ==
  ASSUME TwoContenders, NoSlowCancel, NoClaimErrors
  PROVE  Spec => []RecordTellsAll
<1>1. SafeFaults
  BY DEF SafeFaults, NoClaimErrors
<1>2. QED
  BY <1>1, QueueExclusive, RecordsTellAllIfExclusive, PTL

(***************************************************************************)
(* The queue implements MailLifecycle.                                     *)
(***************************************************************************)

States == [p \in Paths |-> EmailState(p)]

\* What a record says of its email.
LEMMA StateOf ==
  ASSUME NEW p \in Paths, Sound(p)
  PROVE  /\ ~planned[p] => EmailState(p) = "unplanned"
         /\ cancelled[p] => EmailState(p) = "cancelled"
         /\ IsSettled(p) => EmailState(p) = "sent"
         /\ rec[p].status \in Alive => EmailState(p) = "queued"
         /\ rec[p].status = "failed" => EmailState(p) = "failed"
<1>1. ~planned[p] => ~cancelled[p] /\ rec[p] = NoRecord /\ done[p] = NoRecord
  BY DEF Sound
<1>2. rec[p].status \in Alive \cup {"failed"} =>
        planned[p] /\ ~cancelled[p] /\ done[p] = NoRecord
  BY DEF Sound, NoRecord, Alive
<1>3. QED
  BY <1>1, <1>2 DEF EmailState, IsSettled, Alive, NoRecord

\* If no other email is concerned, a change of state that a lifecycle allows is a
\* step of it.
LEMMA LifeMove ==
  ASSUME NEW p \in Paths, \A q \in Paths \ {p} : EmailState(q)' = EmailState(q),
         accepted' = accepted,
         \/ EmailState(p)' = EmailState(p)
         \/ EmailState(p) = "unplanned" /\ EmailState(p)' = "queued"
         \/ EmailState(p) = "queued" /\ EmailState(p)' \in {"failed", "cancelled"}
         \/ EmailState(p) = "queued" /\ EmailState(p)' = "sent" /\ accepted[p] > 0
  PROVE  [Lifecycle!LifeNext]_<<States, accepted>>
<1>1. States' = [States EXCEPT ![p] = EmailState(p)']
  BY DEF States
<1>2. States[p] = EmailState(p)
  BY DEF States
<1>3. CASE EmailState(p)' = EmailState(p)
  <2>1. States' = States
    BY <1>3 DEF States
  <2>2. QED
    BY <2>1
<1>4. CASE EmailState(p) = "unplanned" /\ EmailState(p)' = "queued"
  <2>1. Lifecycle!Plan(p)
    BY <1>1, <1>2, <1>4 DEF Lifecycle!Plan, Lifecycle!Becomes, States
  <2>2. QED
    BY <2>1 DEF Lifecycle!LifeNext
<1>5. CASE EmailState(p) = "queued" /\ EmailState(p)' \in {"failed", "cancelled"}
  <2>1. Lifecycle!Exhaust(p) \/ Lifecycle!Withdraw(p)
    BY <1>1, <1>2, <1>5 DEF Lifecycle!Exhaust, Lifecycle!Withdraw, Lifecycle!Becomes, States
  <2>2. QED
    BY <2>1 DEF Lifecycle!LifeNext
<1>6. CASE EmailState(p) = "queued" /\ EmailState(p)' = "sent" /\ accepted[p] > 0
  <2>1. Lifecycle!Conclude(p)
    BY <1>1, <1>2, <1>6 DEF Lifecycle!Conclude, Lifecycle!Becomes, States
  <2>2. QED
    BY <2>1 DEF Lifecycle!LifeNext
<1>7. QED
  BY <1>3, <1>4, <1>5, <1>6

\* A step that leaves what is on record of an email alone leaves its state alone.
LEMMA SameState ==
  ASSUME NEW p \in Paths, UNCHANGED <<rec[p], done[p], planned[p], cancelled[p]>>
  PROVE  EmailState(p)' = EmailState(p)
BY DEF EmailState

\* SMTP accepts an email only while it is queued and has an attempt left.
LEMMA AcceptStep ==
  ASSUME QueueInv, NEW a \in Actors, SendEmail(a)
  PROVE  [Lifecycle!LifeNext]_<<States, accepted>>
<1> DEFINE p == cpath[a]
<1>1. /\ p \in Paths /\ Sound(p) /\ rec[p].status = "sending"
      /\ accepted[p] < MaxAttempts
  <2>1. AsLeft(a) /\ Informed(a) /\ Sound(p) /\ p \in Paths
        /\ copy[a].attempts \in Nat /\ accepted[p] \in Nat /\ MaxAttempts \in Nat
    BY OwnFacts DEF QueueInv
  <2>2. QED
    BY <2>1 DEF SendEmail, AsLeft, Informed
<1>2. UNCHANGED <<rec, done, planned, cancelled>>
  BY DEF SendEmail, recordVars
<1>3. States' = States
  BY <1>2, SameState DEF States
<1>4. States[p] = "queued"
  BY <1>1, StateOf DEF Alive, States
<1>5. accepted' = accepted \/ accepted' = [accepted EXCEPT ![p] = @ + 1]
  BY <1>1 DEF SendEmail, QueueInv, TypeInv, RecordTypes
<1>6. ASSUME accepted' = [accepted EXCEPT ![p] = @ + 1]
      PROVE  Lifecycle!Accept(p)
  BY <1>1, <1>3, <1>4, <1>6 DEF Lifecycle!Accept, States
<1>7. QED
  BY <1>1, <1>3, <1>5, <1>6 DEF Lifecycle!LifeNext

\* The other steps of a check or cancel move its email only where a lifecycle
\* goes.
LEMMA ChangeStep ==
  ASSUME QueueInv, QueueInv', NEW a \in Actors, CheckStep(a) \/ CancelStep(a), ~SendEmail(a)
  PROVE  [Lifecycle!LifeNext]_<<States, accepted>>
<1> PICK p \in Paths : p = cpath[a]
  BY DEF QueueInv, TypeInv, RecordTypes
<1>0. /\ Sound(p) /\ AsLeft(a) /\ Informed(a)
      /\ rec[p] \in Record /\ done[p] \in Record /\ copy[a] \in Record
      /\ copy[a].attempts \in Nat
  BY OwnFacts DEF QueueInv
<1>1. ActsAlone(a) /\ Sound(p)'
  BY StepIsAlone DEF QueueInv, RecordInv
<1>2. \A q \in Paths \ {p} : EmailState(q)' = EmailState(q)
  BY <1>1, SameState DEF ActsAlone
<1>3. accepted' = accepted
  BY DEF CheckStep, CancelStep, Settle, Reread, MarkFailed, MarkSending, HeldBack, RestoreQueued,
         RecordSent, MoveSent, FailRead, FailWrite, CancelReread, CancelUnlink, others, historyVars
<1>4. ASSUME NEW r \in Record, Write(p, r) PROVE rec'[p] = r /\ done' = done
  BY <1>4 DEF Write, QueueInv, TypeInv, RecordTypes
<1>5. /\ ~cancelled'[p] /\ rec'[p].status = "sent" => EmailState(p)' = "sent"
      /\ ~cancelled'[p] /\ done'[p] # NoRecord => EmailState(p)' = "sent"
      /\ rec'[p].status \in Alive => EmailState(p)' = "queued"
      /\ rec'[p].status = "failed" => EmailState(p)' = "failed"
      /\ cancelled'[p] => EmailState(p)' = "cancelled"
  <2>1. rec'[p].status \in Alive \cup {"failed"} =>
          planned'[p] /\ ~cancelled'[p] /\ done'[p] = NoRecord
    BY <1>1 DEF Sound, NoRecord, Alive
  <2>2. QED
    BY <2>1 DEF EmailState, Alive, NoRecord
<1>6. ASSUME UNCHANGED recordVars, UNCHANGED cancelled
      PROVE  [Lifecycle!LifeNext]_<<States, accepted>>
  BY <1>1, <1>2, <1>3, <1>6, SameState, LifeMove DEF ActsAlone, recordVars
<1>7. ASSUME CheckStep(a) \/ CancelReread(a) PROVE cancelled' = cancelled
  BY <1>7
     DEF CheckStep, Settle, Reread, MarkFailed, MarkSending, HeldBack, RestoreQueued, SendEmail,
         RecordSent, MoveSent, FailRead, FailWrite, CancelReread, others, historyVars
<1>8. CASE Reread(a) \/ HeldBack(a) \/ FailRead(a) \/ CancelReread(a)
  BY <1>6, <1>7, <1>8 DEF Reread, HeldBack, FailRead, CancelReread, CheckStep
<1>9. CASE Settle(a) \/ MoveSent(a)
  <2>1. cancelled' = cancelled
    BY <1>7, <1>9 DEF CheckStep
  <2>2. CASE MoveToSent(p) /\ rec[p] # NoRecord
    <3>1. ~cancelled[p] /\ done[p] = NoRecord
      BY <1>0, <2>2 DEF Sound
    <3>2. done'[p] # NoRecord
      BY <2>2 DEF MoveToSent, QueueInv, TypeInv, RecordTypes
    <3>3. EmailState(p)' = "sent"
      BY <1>5, <2>1, <3>1, <3>2
    <3>4. \/ rec[p].status = "sent"
          \/ rec[p].status = "sending" /\ accepted[p] > 0
      BY <1>0, <1>9, <3>1 DEF Settle, MoveSent, AsLeft, IsSettled, Informed
    <3>5. \/ EmailState(p) = "sent"
          \/ EmailState(p) = "queued" /\ accepted[p] > 0
      BY <1>0, <3>1, <3>4, StateOf DEF IsSettled, Alive
    <3>6. QED
      BY <1>2, <1>3, <3>3, <3>5, LifeMove
  <2>3. CASE UNCHANGED recordVars
    BY <1>6, <2>1, <2>3
  <2>4. QED
    BY <1>9, <2>2, <2>3 DEF Settle, MoveSent, MoveToSent
<1>10. CASE MarkFailed(a) \/ FailWrite(a)
  <2>1. rec[p] = copy[a] /\ rec[p].status \in Alive
    BY <1>0, <1>10 DEF MarkFailed, FailWrite, AsLeft
  <2>2. CASE UNCHANGED recordVars
    BY <1>6, <1>7, <1>10, <2>2 DEF CheckStep
  <2>3. ASSUME NEW s \in {"failed", "pending"}, Write(p, [copy[a] EXCEPT !.status = s])
        PROVE  EmailState(p)' \in {"failed", "queued"}
    <3> DEFINE new == [copy[a] EXCEPT !.status = s]
    <3>1. new \in Record /\ new.status = s
      BY <1>0, RecordForms
    <3>2. Write(p, new)
      BY <2>3
    <3> HIDE DEF new
    <3>3. rec'[p].status \in {"failed", "pending"}
      BY <1>4, <3>1, <3>2
    <3>4. QED
      BY <1>5, <3>3 DEF Alive
  <2>4. EmailState(p) = "queued"
    BY <1>0, <2>1, StateOf
  <2>5. \/ UNCHANGED recordVars
        \/ \E s \in {"failed", "pending"} : Write(p, [copy[a] EXCEPT !.status = s])
    BY <1>10 DEF MarkFailed, FailWrite
  <2>6. QED
    BY <1>2, <1>3, <2>2, <2>3, <2>4, <2>5, LifeMove
<1>11. CASE MarkSending(a) \/ RestoreQueued(a)
  <2>1. rec[p].status \in Alive
    BY <1>0, <1>11 DEF MarkSending, RestoreQueued, AsLeft, Alive
  <2>2. CASE UNCHANGED recordVars
    BY <1>6, <1>7, <1>11, <2>2 DEF CheckStep
  <2>3. CASE ~UNCHANGED recordVars
    <3>1. copy[a].status \in Alive
      BY <1>0, <1>11 DEF MarkSending, RestoreQueued, AsLeft
    <3>2. rec'[p].status \in Alive
      BY <1>11, <2>3, <3>1
         DEF MarkSending, RestoreQueued, Write, Alive, QueueInv, TypeInv, RecordTypes
    <3>3. EmailState(p)' = EmailState(p)
      BY <1>0, <1>5, <2>1, <3>2, StateOf
    <3>4. QED
      BY <1>2, <1>3, <3>3, LifeMove
  <2>4. QED
    BY <2>2, <2>3
<1>12. CASE RecordSent(a)
  <2>1. rec[p].status = "sending" /\ accepted[p] > 0
    BY <1>0, <1>12 DEF RecordSent, AsLeft, Informed
  <2>2. EmailState(p) = "queued" /\ ~cancelled[p]
    BY <1>0, <2>1, StateOf, AliveRecord DEF Alive
  <2>3. CASE UNCHANGED recordVars
    BY <1>6, <1>7, <1>12, <2>3 DEF CheckStep
  <2>4. CASE ~UNCHANGED recordVars
    <3>1. rec'[p].status = "sent" /\ cancelled' = cancelled
      BY <1>7, <1>12, <2>4 DEF RecordSent, Write, CheckStep, QueueInv, TypeInv, RecordTypes
    <3>2. EmailState(p)' = "sent"
      BY <1>5, <2>2, <3>1
    <3>3. QED
      BY <1>2, <1>3, <2>1, <2>2, <3>2, LifeMove
  <2>5. QED
    BY <2>3, <2>4
<1>13. CASE CancelUnlink(a)
  <2>1. rec[p].status = "pending"
    BY <1>0, <1>13 DEF CancelUnlink, AsLeft
  <2>2. EmailState(p) = "queued" /\ rec[p] # NoRecord
    BY <1>0, <2>1, StateOf, AliveRecord DEF Alive
  <2>3. cancelled'[p]
    BY <1>13, <2>2 DEF CancelUnlink, QueueInv, TypeInv, OtherTypes
  <2>4. QED
    BY <1>2, <1>3, <1>5, <2>2, <2>3, LifeMove
<1>14. QED
  BY <1>8, <1>9, <1>10, <1>11, <1>12, <1>13 DEF CheckStep, CancelStep

\* Every step of the queue is a step of the abstract life of one email, or none.
LEMMA LifeStep ==
  ASSUME QueueInv, QueueInv', [Next]_vars
  PROVE  [Lifecycle!LifeNext]_<<States, accepted>>
<1>1. ASSUME UNCHANGED <<rec, done, accepted, planned, cancelled>>
      PROVE  UNCHANGED <<States, accepted>>
  BY <1>1, SameState DEF States
<1>2. ASSUME NEW r \in Procs, NEW p \in Paths, WriteNew(r, p)
      PROVE  [Lifecycle!LifeNext]_<<States, accepted>>
  <2>1. /\ rec' = [rec EXCEPT ![p] = [status |-> "pending", attempts |-> 0]]
        /\ planned' = [planned EXCEPT ![p] = TRUE] /\ ~planned[p]
        /\ UNCHANGED <<done, accepted, cancelled>>
    BY <1>2 DEF WriteNew, Write
  <2>2. Sound(p) /\ ~cancelled[p] /\ done[p] = NoRecord
    BY <2>1, UnplannedIsEmpty DEF QueueInv, RecordInv
  <2>3. EmailState(p) = "unplanned"
    BY <2>1, <2>2, StateOf
  <2>4. rec'[p].status = "pending" /\ planned'[p] /\ done'[p] = NoRecord /\ ~cancelled'[p]
    BY <2>1, <2>2 DEF QueueInv, TypeInv, RecordTypes, OtherTypes
  <2>5. EmailState(p)' = "queued"
    BY <2>4 DEF EmailState
  <2>6. \A q \in Paths \ {p} : EmailState(q)' = EmailState(q)
    BY <2>1, SameState DEF QueueInv, TypeInv, RecordTypes, OtherTypes
  <2>7. QED
    BY <2>1, <2>3, <2>5, <2>6, LifeMove
<1>3. ASSUME NEW a \in Actors, CheckStep(a) \/ CancelStep(a)
      PROVE  [Lifecycle!LifeNext]_<<States, accepted>>
  BY <1>3, AcceptStep, ChangeStep
<1>4. ASSUME NEW r \in Procs, CountLive(r) \/ AbandonPlan(r)
      PROVE  [Lifecycle!LifeNext]_<<States, accepted>>
  BY <1>1, <1>4 DEF CountLive, AbandonPlan, historyVars
<1>5. ASSUME NEW p \in Paths, BecomeDue(p) \/ Expire(p)
      PROVE  [Lifecycle!LifeNext]_<<States, accepted>>
  BY <1>1, <1>5 DEF BecomeDue, Expire, historyVars, schedVars
<1>6. ASSUME NEW a \in Actors,
             \/ RunClaim(a) \/ RenewClaim(a) \/ Throw(a) \/ Skip(a) \/ ClaimThrew(a) \/ Crash(a)
             \/ \E p \in Paths : ReadQueueFile(a, p) \/ CancelRead(a, p)
      PROVE  [Lifecycle!LifeNext]_<<States, accepted>>
  BY <1>1, <1>6
     DEF RunClaim, RenewClaim, Throw, Skip, ClaimThrew, Crash, ReadQueueFile, CancelRead, schedVars,
         recordVars, others, historyVars
<1>7. CASE UNCHANGED vars
  BY <1>1, <1>7 DEF vars, schedVars
<1>8. Checkers \subseteq Actors /\ Cancellers \subseteq Actors
  BY SchedulerConstants
<1>9. QED
  BY <1>2, <1>3, <1>4, <1>5, <1>6, <1>7, <1>8 DEF Next

\* The queue of files, claims and processes is the queue its users were promised,
\* as long as no claim is held twice and acquireClaim itself does not fail.
THEOREM QueueRefinementIfExclusive ==
  ASSUME NoClaimErrors
  PROVE  Spec /\ []Exclusive => ImplementsLifecycle
<1>1. Init => Lifecycle!LifeInit
  <2> SUFFICES ASSUME Init PROVE Lifecycle!LifeInit
    OBVIOUS
  <2>1. \A p \in Paths : EmailState(p) = "unplanned"
    BY DEF Init, EmailState, NoRecord
  <2>2. QED
    BY <2>1 DEF Init, Lifecycle!LifeInit
<1>2. QueueInv /\ QueueInv' /\ [Next]_vars => [Lifecycle!LifeNext]_<<States, accepted>>
  BY LifeStep
<1>3. QED
  BY <1>1, <1>2, QueueInvariant, PTL
     DEF Spec, ImplementsLifecycle, Lifecycle!LifeSpec, States

\* In particular for two actors, no slow cancel, and any death, lost answer or
\* failed record write.
THEOREM QueueRefinement ==
  ASSUME TwoContenders, NoSlowCancel, NoClaimErrors
  PROVE  Spec => ImplementsLifecycle
<1>1. SafeFaults
  BY DEF SafeFaults, NoClaimErrors
<1>2. QED
  BY <1>1, QueueExclusive, QueueRefinementIfExclusive, PTL

(***************************************************************************)
(* Where the two runs that expect a violation cannot be repeated.          *)
(***************************************************************************)

\* SMTP accepts an email only while its record says that an attempt is under way.
LEMMA AcceptedWhileSending ==
  ASSUME QueueInv, [Next]_vars, NEW p \in Paths, accepted'[p] # accepted[p]
  PROVE  rec[p].status = "sending" /\ done[p] = NoRecord /\ ~cancelled[p]
<1>1. ASSUME NEW a \in Actors, SendEmail(a)
      PROVE  rec[p].status = "sending" /\ done[p] = NoRecord /\ ~cancelled[p]
  <2>1. cpath[a] = p
    BY <1>1 DEF SendEmail, QueueInv, TypeInv, RecordTypes
  <2>2. AsLeft(a) /\ Sound(p)
    BY DEF QueueInv, RecordInv
  <2>3. rec[p].status = "sending"
    BY <1>1, <2>1, <2>2 DEF SendEmail, AsLeft
  <2>4. QED
    BY <2>2, <2>3, AliveRecord
<1>2. \E a \in Actors : SendEmail(a)
  <2>1. accepted' # accepted
    OBVIOUS
  <2>2. ASSUME NEW a \in Actors,
               \/ CheckStep(a) /\ ~SendEmail(a)
               \/ CancelStep(a) \/ Skip(a) \/ ClaimThrew(a)
               \/ \E q \in Paths : ReadQueueFile(a, q) \/ CancelRead(a, q)
        PROVE  accepted' = accepted
    BY <2>2
       DEF CheckStep, CancelStep, Settle, Reread, MarkFailed, MarkSending, HeldBack, RestoreQueued,
           RecordSent, MoveSent, FailRead, FailWrite, CancelReread, CancelUnlink, Skip, ClaimThrew,
           ReadQueueFile, CancelRead, others, historyVars
  <2>3. ASSUME NEW a \in Actors, RunClaim(a) \/ RenewClaim(a) \/ Throw(a) \/ Crash(a)
        PROVE  accepted' = accepted
    BY <2>3 DEF RunClaim, RenewClaim, Throw, Crash, schedVars, historyVars
  <2>4. ASSUME NEW r \in Procs, CountLive(r) \/ AbandonPlan(r) \/ \E q \in Paths : WriteNew(r, q)
        PROVE  accepted' = accepted
    BY <2>4 DEF CountLive, AbandonPlan, WriteNew, historyVars
  <2>5. ASSUME NEW q \in Paths, BecomeDue(q) \/ Expire(q)
        PROVE  accepted' = accepted
    BY <2>5 DEF BecomeDue, Expire, schedVars, historyVars
  <2>6. CASE UNCHANGED vars
    BY <2>1, <2>6 DEF vars, schedVars
  <2>7. Checkers \subseteq Actors /\ Cancellers \subseteq Actors
    BY SchedulerConstants
  <2>8. QED
    BY <2>1, <2>2, <2>3, <2>4, <2>5, <2>6, <2>7 DEF Next
<1>3. QED
  BY <1>1, <1>2

\* What SchedClaimError refutes holds once acquireClaim cannot fail: no email is
\* sent again after its record said sent.
THEOREM NeverResentIfExclusive ==
  ASSUME NoClaimErrors
  PROVE  Spec /\ []Exclusive => NeverResent
<1>1. QueueInv /\ [Next]_vars =>
        [\A p \in Paths : accepted'[p] > accepted[p] => rec[p].status # "sent" /\ done[p] = NoRecord]_vars
  <2> SUFFICES ASSUME QueueInv, [Next]_vars, NEW p \in Paths, accepted'[p] > accepted[p]
               PROVE  rec[p].status # "sent" /\ done[p] = NoRecord
    OBVIOUS
  <2>1. accepted'[p] # accepted[p]
    BY DEF QueueInv, TypeInv, RecordTypes
  <2>2. QED
    BY <2>1, AcceptedWhileSending
<1>2. QED
  BY <1>1, QueueInvariant, PTL DEF Spec, NeverResent

\* A sender who was told that an email is cancelled does not see it sent, as long
\* as no cancel outlasts its claim and acquireClaim does not fail.
THEOREM CancelledNotSentIfExclusive ==
  ASSUME NoClaimErrors
  PROVE  Spec /\ []Exclusive => CancelledNotSent
<1>1. QueueInv /\ [Next]_vars =>
        [\A p \in Paths : cancelled[p] => accepted'[p] = accepted[p]]_vars
  BY AcceptedWhileSending
<1>2. QED
  BY <1>1, QueueInvariant, PTL DEF Spec, CancelledNotSent

(***************************************************************************)
(* The cap on scheduled emails.                                            *)
(***************************************************************************)

\* The processes that have counted and not yet written.
Planning == {r \in Procs : plan[r]}

\* Each of them has room for one more email: a count below the cap leaves room
\* for every process.
RoomForPlans ==
  /\ IsFiniteSet(Live)
  /\ Cardinality(Live) + Cardinality(Planning) <= MaxPending + Cardinality(Procs) - 1

\* No check or cancel makes an email live again.
LEMMA NoRevival ==
  ASSUME QueueInv, NEW a \in Actors, CheckStep(a) \/ CancelStep(a)
  PROVE  Live' \subseteq Live
<1> PICK p \in Paths : p = cpath[a]
  BY DEF QueueInv, TypeInv, RecordTypes
<1>1. Sound(p) /\ AsLeft(a)
  BY OwnFacts DEF QueueInv
<1>2. \A q \in Paths \ {p} : rec'[q] = rec[q]
  BY StepIsAlone DEF ActsAlone, QueueInv
<1>3. ASSUME rec'[p].status \in {"pending", "sending"}
      PROVE  rec[p].status \in {"pending", "sending"}
  <2>1. CASE Settle(a) \/ MoveSent(a)
    BY <1>3, <2>1 DEF Settle, MoveSent, MoveToSent, recordVars, NoRecord, QueueInv, TypeInv, RecordTypes
  <2>2. CASE Reread(a) \/ SendEmail(a) \/ HeldBack(a) \/ FailRead(a) \/ CancelReread(a)
    BY <1>3, <2>2 DEF Reread, SendEmail, HeldBack, FailRead, CancelReread, recordVars
  <2>3. CASE MarkFailed(a) \/ MarkSending(a) \/ RestoreQueued(a) \/ FailWrite(a)
    BY <1>1, <2>3 DEF MarkFailed, MarkSending, RestoreQueued, FailWrite, AsLeft, Alive
  <2>4. CASE RecordSent(a)
    BY <1>1, <2>4 DEF RecordSent, AsLeft
  <2>5. CASE CancelUnlink(a)
    BY <1>1, <2>5 DEF CancelUnlink, AsLeft
  <2>6. QED
    BY <2>1, <2>2, <2>3, <2>4, <2>5 DEF CheckStep, CancelStep
<1>4. QED
  BY <1>2, <1>3 DEF Live

\* Counting and writing keep room for every plan.
LEMMA RoomStep ==
  ASSUME IsFiniteSet(Procs), QueueInv, RoomForPlans, [Next]_vars
  PROVE  RoomForPlans'
<1> USE SchedulerConstants
<1>0. /\ IsFiniteSet(Planning) /\ Cardinality(Planning) \in Nat
      /\ Cardinality(Procs) \in Nat /\ Cardinality(Live) \in Nat
      /\ Cardinality(Planning) <= Cardinality(Procs)
  BY FS_Subset, FS_CardinalityType DEF Planning, RoomForPlans
<1>1. ASSUME Live' \subseteq Live, plan' = plan PROVE RoomForPlans'
  <2>1. Planning' = Planning
    BY <1>1 DEF Planning
  <2>2. IsFiniteSet(Live') /\ Cardinality(Live') <= Cardinality(Live) /\ Cardinality(Live') \in Nat
    BY <1>1, FS_Subset, FS_CardinalityType DEF RoomForPlans
  <2>3. QED
    BY <1>0, <2>1, <2>2 DEF RoomForPlans
<1>2. ASSUME UNCHANGED <<rec, plan>> PROVE RoomForPlans'
  BY <1>1, <1>2 DEF Live
<1>3. ASSUME NEW r \in Procs, CountLive(r) PROVE RoomForPlans'
  <2>1. Live' = Live /\ Cardinality(Live) < MaxPending
    BY <1>0, <1>3 DEF CountLive, Live
  <2>2. Planning' \subseteq Procs
    BY DEF Planning
  <2>3. Cardinality(Planning') \in Nat /\ Cardinality(Planning') <= Cardinality(Procs)
    BY <2>2, FS_Subset, FS_CardinalityType
  <2>4. QED
    BY <1>0, <2>1, <2>3 DEF RoomForPlans
<1>4. ASSUME NEW r \in Procs, AbandonPlan(r) PROVE RoomForPlans'
  <2>1. Live' = Live /\ Planning' \subseteq Planning
    BY <1>4 DEF AbandonPlan, Live, Planning, QueueInv, TypeInv, OtherTypes
  <2>2. Cardinality(Planning') \in Nat /\ Cardinality(Planning') <= Cardinality(Planning)
    BY <1>0, <2>1, FS_Subset, FS_CardinalityType
  <2>3. QED
    BY <1>0, <2>1, <2>2 DEF RoomForPlans
<1>5. ASSUME NEW r \in Procs, NEW p \in Paths, WriteNew(r, p) PROVE RoomForPlans'
  <2>1. Live' = Live \cup {p} /\ r \in Planning /\ Planning' = Planning \ {r}
    BY <1>5 DEF WriteNew, Write, Live, Planning, QueueInv, TypeInv, RecordTypes, OtherTypes
  <2>2. /\ IsFiniteSet(Live \cup {p}) /\ Cardinality(Live \cup {p}) \in Nat
        /\ Cardinality(Live \cup {p}) <= Cardinality(Live) + 1
    <3>1. /\ IsFiniteSet(Live \cup {p})
          /\ Cardinality(Live \cup {p}) = IF p \in Live THEN Cardinality(Live) ELSE Cardinality(Live) + 1
      BY FS_AddElement DEF RoomForPlans
    <3>2. QED
      BY <1>0, <3>1
  <2>3. Cardinality(Planning \ {r}) = Cardinality(Planning) - 1
    BY <1>0, <2>1, FS_RemoveElement
  <2>4. QED
    BY <1>0, <2>1, <2>2, <2>3 DEF RoomForPlans
<1>6. ASSUME NEW a \in Actors, CheckStep(a) \/ CancelStep(a) PROVE RoomForPlans'
  <2>1. plan' = plan
    BY <1>6
       DEF CheckStep, CancelStep, Settle, Reread, MarkFailed, MarkSending, SendEmail, HeldBack,
           RestoreQueued, RecordSent, MoveSent, FailRead, FailWrite, CancelReread, CancelUnlink, others
  <2>2. QED
    BY <1>1, <1>6, <2>1, NoRevival
<1>7. ASSUME NEW p \in Paths, BecomeDue(p) \/ Expire(p) PROVE RoomForPlans'
  BY <1>2, <1>7 DEF BecomeDue, Expire, schedVars
<1>8. ASSUME NEW a \in Actors,
             \/ RunClaim(a) \/ RenewClaim(a) \/ Throw(a) \/ Skip(a) \/ ClaimThrew(a) \/ Crash(a)
             \/ \E p \in Paths : ReadQueueFile(a, p) \/ CancelRead(a, p)
      PROVE  RoomForPlans'
  BY <1>2, <1>8
     DEF RunClaim, RenewClaim, Throw, Skip, ClaimThrew, Crash, ReadQueueFile, CancelRead, schedVars,
         recordVars, others
<1>9. CASE UNCHANGED vars
  BY <1>2, <1>9 DEF vars, schedVars
<1>10. Checkers \subseteq Actors /\ Cancellers \subseteq Actors
  OBVIOUS
<1>11. QED
  BY <1>3, <1>4, <1>5, <1>6, <1>7, <1>8, <1>9, <1>10 DEF Next

\* Finitely many processes exceed the cap by at most one email each but one, as
\* long as no claim is held twice and acquireClaim does not fail: else a record
\* that was settled can come back to life.
THEOREM CapHoldsIfExclusive ==
  ASSUME NoClaimErrors, IsFiniteSet(Procs)
  PROVE  Spec /\ []Exclusive => []LiveWithinCap
<1>1. Init => RoomForPlans
  <2> SUFFICES ASSUME Init PROVE RoomForPlans
    OBVIOUS
  <2>1. Live = {} /\ Planning = {}
    BY DEF Init, Live, Planning, NoRecord
  <2>2. Cardinality(Procs) \in Nat /\ Cardinality({}) = 0 /\ IsFiniteSet({})
    BY FS_CardinalityType, FS_EmptySet
  <2>3. QED
    BY <2>1, <2>2, SchedulerConstants DEF RoomForPlans
<1>2. QueueInv /\ RoomForPlans /\ [Next]_vars => RoomForPlans'
  BY RoomStep
<1>3. RoomForPlans => LiveWithinCap
  <2> SUFFICES ASSUME RoomForPlans PROVE LiveWithinCap
    OBVIOUS
  <2>1. IsFiniteSet(Planning)
    BY FS_Subset DEF Planning
  <2>2. Cardinality(Planning) \in Nat /\ Cardinality(Live) \in Nat /\ Cardinality(Procs) \in Nat
    BY <2>1, FS_CardinalityType DEF RoomForPlans
  <2>3. QED
    BY <2>2, SchedulerConstants DEF RoomForPlans, LiveWithinCap
<1>4. QED
  BY <1>1, <1>2, <1>3, QueueInvariant, PTL DEF Spec
=============================================================================
