-------------------------------- MODULE Hooks --------------------------------
(***************************************************************************)
(* src/src/services/hooks.service.ts with the notifier it owns and the     *)
(* classification of src/src/services/mail-arrival/index.ts: new mail is   *)
(* queued from the event bus, a timer starts a flush, and each flush waits *)
(* for the one before.  A flush applies static rules, then hands the rest  *)
(* to System One, to the client (sampling) or to the notifier.             *)
(*                                                                         *)
(* An email's handling is a list of steps, one await each, so that the     *)
(* emails of a batch interleave.  stop() does not end a flush that runs.   *)
(***************************************************************************)
EXTENDS Notifier, MailPolicy

CONSTANTS
  Emails,       \* messages, each reported once by the watcher
  NoRule,       \* no static rule matches
  RuleFor,      \* RuleFor[e]: what the matching rule asks for, or NoRule
  MessageKey,   \* MessageKey[e]: seenKey (a copy of a message shares it)
  CalendarKey,  \* CalendarKey[e]: stateKey of the calendar state
  InSource,     \* is the folder of e one of sourceFolders?
  Configs,      \* the configurations to explore
  Decisions,    \* what decideMailAction may answer
  Replies,      \* what a triage reply may say of an email
  MaxPending,   \* MAX_PENDING_EMAILS
  MaxSampling,  \* MAX_SAMPLING_PER_MIN
  SeenLimit,    \* SEEN_LIMIT
  MaxStops,     \* bound on calls of stop()
  MaxFailures   \* bound on calls that fail

ASSUME HooksConstants ==
  /\ {MaxPending, MaxSampling, MaxStops, MaxFailures} \subseteq Nat
  /\ SeenLimit \in Nat \ {0} /\ IsFiniteSet(Emails)

VARIABLES
  config,    \* mode, arrival (is System One on?), autoCalendar; never changes
  started,
  target,    \* samplingSupported
  queue,     \* pendingEmails
  handle,    \* batchTimer: none, pending, or a timer that has fired
  stray,     \* timers that wait although batchTimer does not hold them
  chain,     \* flushes in flushChain that have not begun
  stage,     \* where the flush that runs is
  rest,      \* its emails that no rule matched
  work,      \* work[e]: the steps left for e
  rate,      \* rateCounter
  seen,      \* the keys MailArrival has claimed, oldest first
  processed, \* the calendar state file
  stops, failures,
  \* History.
  fate,      \* fate[e]: new, queued, skipped (queue full), dropped (by a stop), taken
  asked,     \* asked[e]: the steps asked for e, by its rule or by the client
  did,       \* did[e]: the steps whose turn came
  alerted,   \* alerted[e]: how many alerts there were for e
  added,     \* the emails whose event was settled
  moved,     \* the emails moved out of the folder they were found in
  classified \* classified[k]: how often a message was classified

hookVars == <<config, started, target, queue, handle, stray, chain, stage, rest, work,
              rate, seen, processed, stops, failures, fate, asked, did, alerted,
              added, moved, classified>>
vars == <<notifierVars, hookVars>>

Steps == <<"label", "flag", "read", "move", "alert", "event">>

\* What of a sequence is in S, in its order: SelectSeq as a recursive function, which
\* the proofs can unfold.
Kept(s, S) ==
  LET kept[n \in 0..Len(s)] ==
        IF n = 0 THEN <<>>
        ELSE IF s[n] \in S THEN Append(kept[n - 1], s[n]) ELSE kept[n - 1]
  IN kept[Len(s)]

StepsOf(S) == Kept(Steps, S)
Keys == {MessageKey[e] : e \in Emails}

Init ==
  /\ NotifierInit
  /\ config \in Configs
  /\ started = FALSE /\ target = FALSE
  /\ queue = <<>> /\ handle = "none" /\ stray = 0 /\ chain = 0
  /\ stage = "idle" /\ rest = <<>>
  /\ work = [e \in Emails |-> <<>>]
  /\ rate = 0 /\ seen = <<>> /\ processed = {}
  /\ stops = 0 /\ failures = 0
  /\ fate = [e \in Emails |-> "new"]
  /\ asked = [e \in Emails |-> {}]
  /\ did = [e \in Emails |-> {}]
  /\ alerted = [e \in Emails |-> 0]
  /\ added = {} /\ moved = {}
  /\ classified = [k \in Keys |-> 0]

historyVars == <<asked, did, alerted, added, moved, classified>>
lifeVars == <<config, started, target, stops>>

----------------------------------------------------------------------------
(* start, stop, setSamplingTarget                                          *)

\* A stop ended the last run; the constructor's reset timer is not set again.
Start ==
  /\ ~started
  /\ started' = TRUE
  /\ target' \in BOOLEAN
  /\ UNCHANGED <<notifierVars, config, queue, handle, stray, chain, stage, rest, work, rate,
                 seen, processed, stops, failures, fate, historyVars>>

SetSamplingTarget ==
  /\ started
  /\ target' = ~target
  /\ UNCHANGED <<notifierVars, config, started, queue, handle, stray, chain, stage, rest,
                 work, rate, seen, processed, stops, failures, fate, historyVars>>

Stop ==
  /\ started /\ stops < MaxStops
  /\ stops' = stops + 1
  /\ started' = FALSE
  /\ handle' = "none"
  /\ queue' = <<>>
  /\ fate' = [e \in Emails |-> IF fate[e] = "queued" THEN "dropped" ELSE fate[e]]
  /\ NotifierStop
  /\ UNCHANGED <<config, target, stray, chain, stage, rest, work, rate, seen, processed,
                 failures, historyVars>>

RateReset ==
  /\ started /\ rate > 0
  /\ rate' = 0
  /\ UNCHANGED <<notifierVars, lifeVars, queue, handle, stray, chain, stage, rest, work, seen,
                 processed, failures, fate, historyVars>>

----------------------------------------------------------------------------
(* Events and flushes                                                      *)

\* Mutant of Room: the queue's bound forgets what is in it.
RoomAnyway == MaxPending
Room == MaxPending - Len(queue)

\* 'email:new' with some new messages, in order.
OnNewEmail(emails) ==
  LET accepted == SubSeq(emails, 1, Min({Room, Len(emails)}))
  IN /\ started /\ config.mode # "none"
     /\ queue' = queue \o accepted
     /\ fate' = [e \in Emails |->
                   IF e \in Range(accepted) THEN "queued"
                   ELSE IF e \in Range(emails) THEN "skipped" ELSE fate[e]]
     /\ handle' = IF handle = "none" THEN "pending" ELSE handle
     /\ UNCHANGED <<notifierVars, lifeVars, stray, chain, stage, rest, work, rate, seen,
                    processed, failures, historyVars>>

Events == {s \in UNION {[1..n -> Emails] : n \in 1..2} : IsInjective(s)}
NewEmail == \E emails \in Events :
  (\A e \in Range(emails) : fate[e] = "new") /\ OnNewEmail(emails)

TimerFires ==
  /\ \/ handle = "pending" /\ handle' = "fired" /\ UNCHANGED stray
     \/ stray > 0 /\ stray' = stray - 1 /\ UNCHANGED handle
  /\ chain' = chain + 1
  /\ UNCHANGED <<notifierVars, lifeVars, queue, stage, rest, work, rate, seen, processed,
                 failures, fate, historyVars>>

\* flushBatch: what the rules ask for begins at once, for all emails.  A flush
\* that a stop() overtook drops the handle of the next run's timer.
FlushBegins ==
  LET batch == Range(queue)
      ruled == {e \in batch : RuleFor[e] # NoRule}
  IN /\ chain > 0 /\ stage = "idle"
     /\ chain' = chain - 1
     /\ handle' = "none"
     /\ stray' = IF handle = "pending" THEN stray + 1 ELSE stray
     /\ queue' = <<>>
     /\ stage' = IF batch = {} THEN "idle" ELSE "rules"
     /\ rest' = Kept(queue, batch \ ruled)
     /\ fate' = [e \in Emails |-> IF e \in batch THEN "taken" ELSE fate[e]]
     /\ asked' = [e \in Emails |->
                    IF e \in ruled
                    THEN (RuleFor[e] \cap Range(Steps)) \cup {"alert"}
                         \cup {s \in {"event"} : config.autoCalendar /\ "noevent" \notin RuleFor[e]}
                    ELSE IF e \in batch THEN {"alert"} ELSE asked[e]]
     /\ work' = [e \in Emails |-> IF e \in ruled THEN StepsOf(asked'[e]) ELSE work[e]]
     /\ UNCHANGED <<notifierVars, lifeVars, rate, seen, processed, failures, did, alerted,
                    added, moved, classified>>

Quiet == \A e \in Emails : work[e] = <<>>
AlertAll(emails) == [e \in Emails |-> IF e \in emails THEN <<"alert">> ELSE work[e]]

\* Once all rules are applied: System One takes the rest one by one; the client
\* is asked within its budget; or else the notifier tells.
Residue ==
  /\ stage = "rules" /\ Quiet
  /\ \/ /\ rest = <<>>
        /\ stage' = "idle"
        /\ UNCHANGED <<work, rate>>
     \/ /\ rest # <<>> /\ config.arrival
        /\ stage' = "arrival"
        /\ UNCHANGED <<work, rate>>
     \/ /\ rest # <<>> /\ ~config.arrival
        /\ config.mode = "triage" /\ target /\ rate < MaxSampling
        /\ stage' = "sampling"
        /\ rate' = rate + 1
        /\ UNCHANGED work
     \/ /\ rest # <<>> /\ ~config.arrival
        /\ ~(config.mode = "triage" /\ target /\ rate < MaxSampling)
        /\ stage' = "batch"
        /\ work' = AlertAll(Range(rest))
        /\ UNCHANGED rate
  /\ UNCHANGED <<notifierVars, lifeVars, queue, handle, stray, chain, rest, seen, processed,
                 failures, fate, historyVars>>

\* The client answers: the i-th result is for the i-th email.
TriageAnswered ==
  /\ stage = "sampling"
  /\ stage' = "batch"
  /\ \E reply \in UNION {[1..n -> Replies] : n \in 0 .. Len(rest)} :
       LET triage == TriageOf(reply, Len(rest))
           steps(e) ==
             LET t == triage[CHOOSE i \in DOMAIN rest : rest[i] = e]
             IN {"alert"} \cup {s \in {"label"} : t.labels # Unset}
                \cup {s \in {"flag"} : t.flag = TRUE}
                \cup {s \in {"event"} :
                        IF t.event = Unset THEN config.autoCalendar ELSE t.event}
       IN /\ asked' = [e \in Emails |-> IF e \in Range(rest) THEN steps(e) ELSE asked[e]]
          /\ work' = [e \in Emails |-> IF e \in Range(rest) THEN StepsOf(steps(e)) ELSE work[e]]
  /\ UNCHANGED <<notifierVars, lifeVars, queue, handle, stray, chain, rest, rate, seen,
                 processed, failures, fate, did, alerted, added, moved, classified>>

\* Mutant of SamplingFails: the emails of a failed request are not announced.
SamplingFailsQuietly ==
  /\ stage = "sampling" /\ failures < MaxFailures
  /\ failures' = failures + 1
  /\ stage' = "batch"
  /\ UNCHANGED <<notifierVars, lifeVars, queue, handle, stray, chain, rest, work, rate, seen,
                 processed, fate, historyVars>>

SamplingFails ==
  /\ stage = "sampling" /\ failures < MaxFailures
  /\ failures' = failures + 1
  /\ stage' = "batch"
  /\ work' = AlertAll(Range(rest))
  /\ UNCHANGED <<notifierVars, lifeVars, queue, handle, stray, chain, rest, rate, seen,
                 processed, fate, historyVars>>

BatchDone ==
  /\ stage = "batch" /\ Quiet
  /\ stage' = "idle" /\ rest' = <<>>
  /\ UNCHANGED <<notifierVars, lifeVars, queue, handle, stray, chain, work, rate, seen,
                 processed, failures, fate, historyVars>>

----------------------------------------------------------------------------
(* System One, one email at a time                                         *)

\* The next email: handle() classifies it unless its key was claimed or its
\* folder is not a source.  The alert follows whatever the outcome.
ArrivalNext ==
  /\ stage = "arrival" /\ Quiet
  /\ IF rest = <<>> THEN stage' = "idle" /\ UNCHANGED <<rest, work, seen>>
     ELSE LET e == Head(rest)
              claims == InSource[e] /\ MessageKey[e] \notin Range(seen)
              grown == Append(seen, MessageKey[e])
          IN /\ rest' = Tail(rest)
             /\ work' = [work EXCEPT ![e] = IF claims THEN <<"classify", "alert">>
                                            ELSE <<"alert">>]
             /\ seen' = IF ~claims THEN seen
                        ELSE IF Len(grown) > SeenLimit THEN Tail(grown) ELSE grown
             /\ UNCHANGED stage
  /\ UNCHANGED <<notifierVars, lifeVars, queue, handle, stray, chain, rate, processed,
                 failures, fate, historyVars>>

\* Mutant of Classified: a filtered message can be classified again, too.
ClassifiedUnlessApplied(e) ==
  /\ \E d \in Decisions :
       /\ work' = [work EXCEPT ![e] = StepsOf({s \in {"flag"} : d.kind = "apply" /\ d.flag}
                    \cup {s \in {"move"} : d.kind = "apply" /\ d.destination # Unset}) \o Tail(@)]
       /\ seen' = IF d.kind = "noop" THEN Kept(seen, Keys \ {MessageKey[e]}) ELSE seen
  /\ classified' = [classified EXCEPT ![MessageKey[e]] = @ + 1]
  /\ UNCHANGED <<failures, asked, processed>>

\* One answer: flag first, then move, as the policy decides.
Classified(e) ==
  /\ \E d \in Decisions :
       work' = [work EXCEPT ![e] = StepsOf({s \in {"flag"} : d.kind = "apply" /\ d.flag}
                 \cup {s \in {"move"} : d.kind = "apply" /\ d.destination # Unset}) \o Tail(@)]
  /\ classified' = [classified EXCEPT ![MessageKey[e]] = @ + 1]
  /\ UNCHANGED <<seen, failures, asked, processed>>

\* api_error: the message keeps its next chance.
ClassifyFails(e) ==
  /\ failures < MaxFailures
  /\ failures' = failures + 1
  /\ work' = [work EXCEPT ![e] = Tail(@)]
  /\ seen' = Kept(seen, Keys \ {MessageKey[e]})
  /\ UNCHANGED <<classified, asked, processed>>

Classify(e) ==
  /\ work[e] # <<>> /\ Head(work[e]) = "classify"
  /\ Classified(e) \/ ClassifyFails(e)
  /\ UNCHANGED <<notifierVars, lifeVars, queue, handle, stray, chain, stage, rest, rate, fate,
                 did, alerted, added, moved>>

----------------------------------------------------------------------------
(* The steps of an email                                                   *)

Turn(e, step) == work[e] # <<>> /\ Head(work[e]) = step
Done(e, step) ==
  /\ did' = [did EXCEPT ![e] = @ \cup {step}]
  /\ work' = [work EXCEPT ![e] = Tail(@)]
flushVars == <<queue, handle, stray, chain, stage, rest, rate, seen, fate, asked, classified>>

Fails == failures < MaxFailures /\ failures' = failures + 1

\* Mutant of ImapStep: a step that fails takes the ones after it along.
ImapStepOrNone(e, step) ==
  /\ Turn(e, step)
  /\ \/ Done(e, step) /\ UNCHANGED failures
     \/ Fails /\ work' = [work EXCEPT ![e] = <<>>]
        /\ did' = [did EXCEPT ![e] = @ \cup {step}]
  /\ moved' = IF step = "move" /\ UNCHANGED failures THEN moved \cup {e} ELSE moved
  /\ UNCHANGED <<notifierVars, lifeVars, flushVars, processed, alerted, added>>

\* A label, a flag, a read mark or a move.  A failure is logged and no more.
ImapStep(e, step) ==
  /\ Turn(e, step)
  /\ Done(e, step)
  /\ \/ Fails /\ UNCHANGED moved
     \/ UNCHANGED failures /\ moved' = IF step = "move" THEN moved \cup {e} ELSE moved
  /\ UNCHANGED <<notifierVars, lifeVars, flushVars, processed, alerted, added>>

\* The payload's urgency: high if a rule flags, the client's if it has one.
Priorities(e) ==
  IF RuleFor[e] # NoRule THEN {IF "flag" \in RuleFor[e] THEN High ELSE Normal}
  ELSE IF config.mode = "triage" /\ ~config.arrival THEN Urgency ELSE {Normal}

Alert(e) ==
  /\ Turn(e, "alert")
  /\ Done(e, "alert")
  /\ alerted' = [alerted EXCEPT ![e] = @ + 1]
  /\ \E p \in Priorities(e) : SendAlert(p, RuleFor[e] # NoRule /\ "force" \in RuleFor[e])
  /\ UNCHANGED <<lifeVars, flushVars, processed, failures, added, moved>>

\* addToCalendarOnce: skip what is marked, add, and mark what was settled.
EventCheck(e) ==
  /\ Turn(e, "event")
  /\ did' = [did EXCEPT ![e] = @ \cup {"event"}]
  /\ work' = [work EXCEPT ![e] = IF CalendarKey[e] \in processed THEN <<>> ELSE <<"add">>]
  /\ UNCHANGED <<notifierVars, lifeVars, flushVars, processed, failures, alerted, added, moved>>

\* applyCalendarAction reads the message in the folder it was found in.  A dialog
\* that times out or a calendar that cannot be opened leaves it eligible.
EventAdd(e) ==
  /\ Turn(e, "add")
  /\ \/ /\ e \notin moved
        /\ added' = added \cup {e}
        /\ work' = [work EXCEPT ![e] = <<"mark">>]
        /\ UNCHANGED failures
     \/ /\ IF e \in moved THEN UNCHANGED failures ELSE Fails
        /\ work' = [work EXCEPT ![e] = <<>>]
        /\ UNCHANGED added
  /\ UNCHANGED <<notifierVars, lifeVars, flushVars, processed, did, alerted, moved>>

EventMark(e) ==
  /\ Turn(e, "mark")
  /\ \/ processed' = processed \cup {CalendarKey[e]} /\ UNCHANGED failures
     \/ Fails /\ UNCHANGED processed
  /\ work' = [work EXCEPT ![e] = <<>>]
  /\ UNCHANGED <<notifierVars, lifeVars, flushVars, did, alerted, added, moved>>

EmailStep(e) ==
  \/ \E step \in {"label", "flag", "read", "move"} : ImapStep(e, step)
  \/ Classify(e) \/ Alert(e) \/ EventCheck(e) \/ EventAdd(e) \/ EventMark(e)

FlushStep ==
  FlushBegins \/ Residue \/ TriageAnswered \/ SamplingFails \/ BatchDone \/ ArrivalNext

Next ==
  \/ Start \/ Stop \/ SetSamplingTarget \/ RateReset
  \/ NewEmail \/ TimerFires \/ FlushStep
  \/ \E e \in Emails : EmailStep(e)
  \/ NotifierNext /\ UNCHANGED hookVars

(***************************************************************************)
(* Fairness: timers fire, and every call a flush awaits has a timeout.  It *)
(* is enough that one of the steps at hand happens.                        *)
(***************************************************************************)
Handle == TimerFires \/ FlushStep \/ \E e \in Emails : EmailStep(e)

Fairness ==
  /\ WF_vars(Handle)
  /\ WF_vars(DesktopReset /\ UNCHANGED hookVars)

Spec == Init /\ [][Next]_vars /\ Fairness

----------------------------------------------------------------------------
(* Properties *)

HooksTypeOK ==
  /\ alerts \in AlertsConfig /\ shown \in 0..MaxDesktop
  /\ queue \in Seq(Emails) /\ Len(queue) <= MaxPending
  /\ handle \in {"none", "pending", "fired"}
  /\ stage \in {"idle", "rules", "arrival", "sampling", "batch"}
  /\ rate \in 0..MaxSampling
  /\ Len(seen) <= SeenLimit
  /\ \A e \in Emails :
       work[e] \in Seq(Range(Steps) \cup {"classify", "add", "mark"})
  /\ \A e \in Emails : fate[e] = "queued" <=> e \in Range(queue)

\* Between flushes, every email that was taken from the queue was alerted exactly
\* once, and every step asked for it had its turn, whatever failed before it.
HandledInFull ==
  \A e \in Emails :
    /\ alerted[e] <= 1
    /\ stage = "idle" /\ fate[e] = "taken" => alerted[e] = 1 /\ asked[e] \subseteq did[e]

\* System One is asked once about a message, however many copies are reported,
\* unless so many others came since that its key was forgotten.
ClassifiedOnce ==
  Cardinality(Keys) <= SeenLimit => \A k \in Keys : classified[k] <= 1

\* Every accepted email ends in an alert, unless a stop dropped it.
AcceptedIsHandled ==
  \A e \in Emails : fate[e] = "queued" ~> alerted[e] = 1 \/ fate[e] = "dropped"

\* The desktop cap is lifted again, as long as the hooks were never stopped.
DesktopRecovers == shown = MaxDesktop ~> shown < MaxDesktop \/ stops > 0

\* "Add to calendar if rule requests it": when nothing failed and the message was
\* not processed before, the event is there.
RuleAddsEvent ==
  \A e \in Emails :
    failures = 0 /\ "event" \in did[e] /\ work[e] = <<>> => e \in added
==============================================================================
