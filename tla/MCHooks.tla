------------------------------ MODULE MCHooks ------------------------------
(* Instances of Hooks for TLC, in three scenarios that share one run: the  *)
(* hooks are stopped and started again; some calls fail; and the alert     *)
(* settings change while one email is handled.                             *)
EXTENDS Hooks

CONSTANTS e1, e2, e3, m1, m2, t1
VARIABLE scenario

ThreeEmails == {e1, e2, e3}
TwoEmails == {e1, e2}

Config(mode, arrival, auto) == [mode |-> mode, arrival |-> arrival, autoCalendar |-> auto]
AllConfigs == {Config("notify", TRUE, FALSE), Config("triage", FALSE, FALSE),
               Config("triage", FALSE, TRUE)}
NotifyConfig == {Config("notify", FALSE, FALSE)}

\* e1 fits the second rule only; the first has no condition and never matches.
Sent(from, to, subject) == [from |-> from, to |-> to, subject |-> subject]
Mail == e1 :> Sent("boss", {"me"}, "lunch") @@ e2 :> Sent("list", {"me", "all"}, "sale")
          @@ e3 :> Sent("list", {"me"}, "sale")
Match(from, to, subject) == [from |-> from, to |-> to, subject |-> subject]
Rules(actions) ==
  << [match |-> Match(Unset, Unset, Unset), actions |-> {"read"}],
     [match |-> Match({"boss"}, {"me"}, Unset), actions |-> actions],
     [match |-> Match({"boss"}, Unset, {"lunch"}), actions |-> {"move"}] >>
RuleOf(e, actions) ==
  LET i == MatchStaticRules(Mail[e], Rules(actions))
  IN IF i = 0 THEN NoRule ELSE Rules(actions)[i].actions

\* One email has a rule, two are copies of one message.
SomeRule == e1 :> {"label", "event", "force"} @@ e2 :> NoRule @@ e3 :> NoRule
MovingRule == e1 :> {"flag", "move", "event"} @@ e2 :> NoRule
Copies == e1 :> m1 @@ e2 :> m2 @@ e3 :> m2
OwnKeys == [e \in Emails |-> e]
AllInSource == [e \in Emails |-> TRUE]

Percents == {10, 60}
Folder(path, priority) == [path |-> path, priority |-> priority]
Listed == VisibleFolders(
            FolderSpecs(<<Folder(m1, 2), Folder(m2, Unset), Folder(t1, 1)>>,
                        m1 :> "a" @@ m2 :> "b" @@ t1 :> "c"), {m1, m2, t1})
Policy(move, flag) ==
  [folders |-> Listed, autoMove |-> move, autoFlag |-> flag, folderFitMin |-> 60,
   spamUncertainLow |-> 40, spamUncertainHigh |-> 75, injectionHigh |-> 85,
   importanceFlagMin |-> 60, importanceMinConfidence |-> 60, isCriticalMin |-> 90]
Answers ==
  {[injection |-> i, credentials |-> c, reward |-> c, mismatch |-> 10, critical |-> x,
    importance |-> [score |-> s, confidence |-> 60], fit |-> f] :
     i \in {10, 40, 90}, c \in Percents, x \in {Unset, 10, 90}, s \in {10, 60},
     f \in [1..3 -> {Unset, 60, 90}]}
GoodAnswers == {a \in Answers : Answered(a)}

\* "Product, not XOR": what a message may get at all, said folder by folder rather
\* than by going through them: a filtered or doubtful one is left alone, the
\* destination fits and beats every other that does, a flag is never lost to a move.
PolicyMatchesReference ==
  \A a \in GoodAnswers, move \in BOOLEAN, flag \in BOOLEAN :
    LET policy == Policy(move, flag)
        d == DecideMailAction(a, policy)
        fits == {i \in DOMAIN Listed : move /\ a.fit[i] # Unset /\ a.fit[i] >= 60}
        best == {i \in fits : \A j \in fits \ {i} : Better(Listed, a.fit, i, j)}
        flags == flag /\ (a.critical >= 90 \/ a.importance.score >= 60)
        left == a.injection \in {40, 90} \/ ComposeSpamRisk(a) \in 4001 .. 7499
    IN /\ d.kind = "apply" <=> ~left /\ (fits # {} \/ flags)
       /\ d.kind = "apply" => /\ d.flag = flags
                              /\ IF fits = {} THEN d.destination = Unset
                                 ELSE \E i \in best : d.destination = Listed[i].path

SomeDecisions == {Noop("spam_uncertain"), Apply(m1, TRUE), Apply(Unset, TRUE)}

\* What TLC gets as constants is what the operators compute.
ASSUME ConstantsAreComputed ==
  /\ PolicyMatchesReference
  /\ \A e \in Emails : RuleFor[e] = RuleOf(e, RuleFor[e1])
  /\ SomeDecisions \subseteq {DecideMailAction(a, Policy(TRUE, TRUE)) : a \in GoodAnswers}
SomeReplies == {Unset, [priority |-> High, labels |-> 1, flag |-> TRUE, event |-> Unset]}

MCInit ==
  /\ Init
  /\ scenario \in {"stops", "failures", "alerts"}
  /\ scenario = "alerts" => config.arrival
  /\ scenario = "alerts" \/ alerts.desktop

\* What the surroundings do in each scenario; what the hooks do is not restricted.
MCNext ==
  /\ Next
  /\ UNCHANGED scenario
  /\ config.mode # "triage" => target' = FALSE
  /\ scenario # "stops" => stops' = 0
  /\ scenario # "failures" => failures' = 0
  /\ IF scenario = "alerts" THEN \A e \in Emails \ {e1} : fate'[e] = "new"
     ELSE updates' = 0

MCSpec == MCInit /\ [][MCNext]_<<vars, scenario>> /\ Fairness
============================================================================
