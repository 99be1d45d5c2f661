------------------------- MODULE MCSchedulerFaults -------------------------
(***************************************************************************)
(* Every fault, in two scenarios that share one run: two actors race for   *)
(* one email and one may die, or two processes schedule three emails at a  *)
(* cap of one while two actors check and cancel.                           *)
(***************************************************************************)
EXTENDS MCScheduler

\* In the first scenario one email is scheduled and one actor may die.
Race ==
  /\ crashes' < MaxCrashes
  /\ Cardinality({p \in Paths : planned'[p]}) + Cardinality({r \in Procs : plan'[r]}) <= 1

\* In the second nobody dies and no claim goes stale, nor does a call on one fail;
\* that gives the premises of CapHoldsIfExclusive (QueueProofs).
Cap ==
  /\ \A a \in Actors : cpc'[a] # "threw"
  /\ \A p \in Paths : ~wentStale'[p] /\ lock'[p].token # Dead

Scenario == IF crashes = MaxCrashes THEN Cap ELSE Race
============================================================================
