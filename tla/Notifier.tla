------------------------------ MODULE Notifier ------------------------------
(***************************************************************************)
(* src/src/services/notifier.service.ts: where an alert goes, the desktop  *)
(* cap and its reset timer, and the settings that configure_alerts and a   *)
(* test notification change at run time.                                   *)
(***************************************************************************)
EXTENDS Naturals, FiniteSets

CONSTANTS
  MaxDesktop,  \* MAX_DESKTOP_PER_MIN
  Tests,       \* sendTestNotification calls that may overlap
  MaxUpdates   \* bound on updateConfig and on tests

ASSUME NotifierConstants == MaxDesktop \in Nat /\ MaxUpdates \in Nat

VARIABLES
  alerts,   \* config
  shown,    \* desktopCount
  ticking,  \* is desktopResetTimer set?
  test,     \* test[t]: the settings a test notification has to put back
  updates,  \* how many updates and tests there were
  wanted,   \* history: the settings as last loaded or updated
  mixed     \* history: did anything change them while a test ran?

notifierVars == <<alerts, shown, ticking, test, updates, wanted, mixed>>

\* URGENCY_ORDER
Urgency == 1..4
Urgent == 4
High == 3
Normal == 2

AlertsConfig == [desktop : BOOLEAN, sound : BOOLEAN, threshold : Urgency,
                 webhook : BOOLEAN, events : SUBSET Urgency]
NoTest == [running |-> FALSE, desktop |-> FALSE, sound |-> FALSE]

NotifierInit ==
  /\ alerts \in {[desktop |-> d, sound |-> FALSE, threshold |-> High,
                  webhook |-> FALSE, events |-> {Urgent, High}] : d \in BOOLEAN}
  /\ shown = 0
  /\ ticking = TRUE
  /\ test = [t \in Tests |-> NoTest]
  /\ updates = 0
  /\ wanted = alerts
  /\ mixed = FALSE

\* alert(): its channels.
Channels(config, priority, force) ==
  {"log"}
  \cup {c \in {"desktop"} : config.desktop /\ (priority >= config.threshold \/ force)}
  \cup {c \in {"webhook"} : config.webhook /\ priority \in config.events}

\* sendDesktopNotification: silently dropped at the cap.
Show == shown' = IF shown < MaxDesktop THEN shown + 1 ELSE shown

SendAlert(priority, force) ==
  /\ IF "desktop" \in Channels(alerts, priority, force) THEN Show ELSE UNCHANGED shown
  /\ UNCHANGED <<alerts, ticking, test, updates, wanted, mixed>>

\* Mutant of DesktopReset: a timer that fires once.
DesktopResetOnce ==
  /\ ticking /\ shown > 0
  /\ shown' = 0 /\ ticking' = FALSE
  /\ UNCHANGED <<alerts, test, updates, wanted, mixed>>

DesktopReset ==
  /\ ticking /\ shown > 0
  /\ shown' = 0
  /\ UNCHANGED <<alerts, ticking, test, updates, wanted, mixed>>

\* applyAlertsPatch: the given fields, each checked, over the current ones.
Patched(config, patch) ==
  [f \in DOMAIN config |-> IF f \in DOMAIN patch THEN patch[f] ELSE config[f]]

Testing == \E t \in Tests : test[t].running

UpdateConfig ==
  /\ updates < MaxUpdates
  /\ \E d \in BOOLEAN :
       /\ alerts' = Patched(alerts, [desktop |-> d])
       /\ wanted' = Patched(wanted, [desktop |-> d])
  /\ updates' = updates + 1
  /\ mixed' = (mixed \/ Testing)
  /\ UNCHANGED <<shown, ticking, test>>

\* A test forces desktop and sound on, and waits for the OS command.
TestBegins(t) ==
  /\ ~test[t].running /\ updates < MaxUpdates
  /\ test' = [test EXCEPT ![t] = [running |-> TRUE, desktop |-> alerts.desktop,
                                  sound |-> alerts.sound]]
  /\ \E withSound \in BOOLEAN :
       alerts' = Patched(alerts, [desktop |-> TRUE, sound |-> withSound])
  /\ Show
  /\ updates' = updates + 1
  /\ mixed' = (mixed \/ Testing)
  /\ UNCHANGED <<ticking, wanted>>

\* Mutant of TestEnds: the sound stays as the test had it.
TestEndsSoundOn(t) ==
  /\ test[t].running
  /\ alerts' = Patched(alerts, [desktop |-> test[t].desktop])
  /\ test' = [test EXCEPT ![t] = NoTest]
  /\ UNCHANGED <<shown, ticking, updates, wanted, mixed>>

\* The finally block, on whatever settings are there by then.
TestEnds(t) ==
  /\ test[t].running
  /\ alerts' = Patched(alerts, [desktop |-> test[t].desktop, sound |-> test[t].sound])
  /\ test' = [test EXCEPT ![t] = NoTest]
  /\ UNCHANGED <<shown, ticking, updates, wanted, mixed>>

NotifierStop == ticking' = FALSE /\ UNCHANGED <<alerts, shown, test, updates, wanted, mixed>>

NotifierNext ==
  \/ DesktopReset \/ UpdateConfig
  \/ \E t \in Tests : TestBegins(t) \/ TestEnds(t)

\* A test notification leaves the settings as it found them, unless they were
\* changed, or another test began, while it ran.
AlertsKept == ~Testing /\ ~mixed => alerts = wanted
==============================================================================
