--------------------------- MODULE MailLifecycle ---------------------------
(***************************************************************************)
(* What scheduling an email promises its sender, with no files, processes  *)
(* or claims: an email is queued once, SMTP may accept it only while it is *)
(* queued, and sent, failed and cancelled are final.  More than one        *)
(* acceptance is possible while it is queued (an attempt whose outcome was *)
(* lost is made again), but no more than MaxAttempts.                      *)
(***************************************************************************)
EXTENDS Naturals

CONSTANTS Emails, MaxAttempts

VARIABLES
  state,     \* state[e]: what the queue says of e
  accepted   \* accepted[e]: how often an SMTP server has accepted e

LifeInit ==
  /\ state = [e \in Emails |-> "unplanned"]
  /\ accepted = [e \in Emails |-> 0]

Becomes(e, from, to) == state[e] = from /\ state' = [state EXCEPT ![e] = to]

Plan(e) == Becomes(e, "unplanned", "queued") /\ UNCHANGED accepted

Accept(e) ==
  /\ state[e] = "queued"
  /\ accepted[e] < MaxAttempts
  /\ accepted' = [accepted EXCEPT ![e] = @ + 1]
  /\ UNCHANGED state

Conclude(e) ==
  /\ accepted[e] > 0
  /\ Becomes(e, "queued", "sent")
  /\ UNCHANGED accepted

Exhaust(e) == Becomes(e, "queued", "failed") /\ UNCHANGED accepted

Withdraw(e) == Becomes(e, "queued", "cancelled") /\ UNCHANGED accepted

LifeNext ==
  \E e \in Emails : Plan(e) \/ Accept(e) \/ Conclude(e) \/ Exhaust(e) \/ Withdraw(e)

LifeSpec == LifeInit /\ [][LifeNext]_<<state, accepted>>
============================================================================
