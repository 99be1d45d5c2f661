----------------------------- MODULE MailPolicy -----------------------------
(***************************************************************************)
(* The pure decisions about new mail: which static rule handles it         *)
(* (src/src/services/hooks.service.ts), what becomes of a classified       *)
(* message (mail-arrival/policy.ts, folders.ts) and what a triage reply    *)
(* says.  Numbers between 0 and 1 are percents here, so the spam risk is   *)
(* out of 10000; rounding of floats is left out but where it decides.      *)
(***************************************************************************)
EXTENDS Integers, Sequences, SequencesExt, FiniteSetsExt

CONSTANT Unset  \* undefined: an answer or a setting that is not there

----------------------------------------------------------------------------
(* Static rules.  A pattern is the set of the values it matches; Unset is  *)
(* an absent or empty pattern.                                             *)

Fits(pattern, value) == pattern = Unset \/ value \in pattern

EmailMatchesRule(email, match) ==
  /\ Fits(match.from, email.from)
  /\ match.to = Unset \/ email.to \cap match.to # {}
  /\ Fits(match.subject, email.subject)
  /\ ~(match.from = Unset /\ match.to = Unset /\ match.subject = Unset)

\* The first rule that matches; 0 if none does.
MatchStaticRules(email, rules) ==
  SelectInSeq(rules, LAMBDA rule : EmailMatchesRule(email, rule.match))

----------------------------------------------------------------------------
(* Classification                                                          *)

Questions == {"injection", "credentials", "reward", "mismatch", "critical", "importance"}

\* mapAnswers: null unless every fixed question is answered.  A folder that is
\* not answered has no fit.
Answered(answers) == \A q \in Questions : answers[q] # Unset

Clamp(n) == IF n < 0 THEN 0 ELSE IF n > 10000 THEN 10000 ELSE n

ComposeSpamRisk(a) == Clamp(45 * a.credentials + 30 * a.mismatch + 25 * a.reward)

ShouldFlag(a, config) ==
  /\ config.autoFlag
  /\ \/ a.critical >= config.isCriticalMin
     \/ /\ a.importance.score >= config.importanceFlagMin
        /\ a.importance.confidence >= config.importanceMinConfidence

\* The order of two folders: fit, then priority (its place when it has none),
\* then place.
PriorityOf(folders, i) == IF folders[i].priority = Unset THEN i - 1 ELSE folders[i].priority
Better(folders, fit, i, j) ==
  \/ fit[i] > fit[j]
  \/ /\ fit[i] = fit[j]
     /\ \/ PriorityOf(folders, i) < PriorityOf(folders, j)
        \/ PriorityOf(folders, i) = PriorityOf(folders, j) /\ i < j

\* pickDestination keeps the best folder so far as it goes through them.
PickDestination(a, config) ==
  LET fits == {i \in DOMAIN config.folders :
                 a.fit[i] # Unset /\ a.fit[i] >= config.folderFitMin}
      best == FoldLeftDomain(LAMBDA acc, i :
                               IF i \in fits /\ (acc = 0 \/ Better(config.folders, a.fit, i, acc))
                               THEN i ELSE acc,
                             0, config.folders)
  IN IF ~config.autoMove \/ best = 0 THEN Unset ELSE config.folders[best].path

Noop(reason) == [kind |-> "noop", reason |-> reason]
Apply(destination, flag) == [kind |-> "apply", destination |-> destination, flag |-> flag]

\* |x - 0.5| < 0.1 holds of 0.4 and 0.6, too: the float difference is below 0.1.
InjectionFilter(a, config) ==
  \/ a.injection >= config.injectionHigh
  \/ a.injection - 50 \in -10 .. 10

SpamUncertain(a, config) ==
  /\ ComposeSpamRisk(a) > 100 * config.spamUncertainLow
  /\ ComposeSpamRisk(a) < 100 * config.spamUncertainHigh

DecideMailAction(a, config) ==
  LET flag == ShouldFlag(a, config)
      destination == PickDestination(a, config)
  IN CASE InjectionFilter(a, config) -> Noop("injection_filter")
       [] ~InjectionFilter(a, config) /\ SpamUncertain(a, config) -> Noop("spam_uncertain")
       [] OTHER ->
            IF destination # Unset \/ flag THEN Apply(destination, flag)
            ELSE Noop(IF config.autoMove THEN "no_folder_fit" ELSE "auto_move_off")

\* buildFolderSpecs: null (all of System One off) if a path has no slug or two
\* share one.  slug is the folder id of each path, Unset if nothing is left.
FolderSpecs(folders, slug) ==
  IF \E i \in DOMAIN folders :
       \/ slug[folders[i].path] = Unset
       \/ \E j \in 1 .. i - 1 : slug[folders[j].path] = slug[folders[i].path]
  THEN Unset ELSE folders

\* probeAccountFolders: the folders an account has; none if its LIST fails.
VisibleFolders(folders, listed) ==
  IF listed = Unset THEN <<>> ELSE SelectSeq(folders, LAMBDA f : f.path \in listed)

----------------------------------------------------------------------------
(* Triage replies                                                          *)

NoTriage == [priority |-> Unset, labels |-> Unset, flag |-> Unset, event |-> Unset]

\* sanitizeTriageResult: a field of the wrong type is dropped.
SanitizeTriageResult(raw) ==
  IF raw = Unset THEN NoTriage
  ELSE [priority |-> IF raw.priority \in 1..4 THEN raw.priority ELSE Unset,
        labels |-> IF raw.labels \in Nat THEN Min({raw.labels, 5}) ELSE Unset,
        flag |-> IF raw.flag \in BOOLEAN THEN raw.flag ELSE Unset,
        event |-> IF raw.event \in BOOLEAN THEN raw.event ELSE Unset]

\* parseTriageResponse, then results[i] ?? {}: what the i-th of n emails gets.  A
\* reply is a sequence, one result, or no JSON (Unset).
TriageOf(reply, n) ==
  [i \in 1..n |-> IF i \in DOMAIN reply THEN SanitizeTriageResult(reply[i]) ELSE NoTriage]
============================================================================
