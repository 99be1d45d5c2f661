\* Mail that is ruled, classified, triaged or announced while the hooks restart.
CONSTANTS
  e1 = e1
  e2 = e2
  e3 = e3
  m1 = m1
  m2 = m2
  t1 = t1
  Unset = Unset
  NoRule = NoRule
  Emails <- ThreeEmails
  RuleFor <- SomeRule
  MessageKey <- Copies
  CalendarKey <- OwnKeys
  InSource <- AllInSource
  Configs <- AllConfigs
  Decisions <- SomeDecisions
  Replies <- SomeReplies
  Tests = {t1}
  MaxDesktop = 1
  MaxUpdates = 2
  MaxPending = 2
  MaxSampling = 1
  SeenLimit = 2
  MaxStops = 1
  MaxFailures = 1
SPECIFICATION MCSpec
CHECK_DEADLOCK FALSE
INVARIANT HooksTypeOK
INVARIANT HandledInFull
 
INVARIANT AlertsKept
PROPERTY AcceptedIsHandled
PROPERTY DesktopRecovers
