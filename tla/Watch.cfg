\* A watcher that is restarted, loses connections and fails fetches.
CONSTANTS
  c1 = c1
  c2 = c2
  f1 = f1
  f2 = f2
  NoClient = NoClient
  Clients <- TwoClients
  Fetches <- TwoFetches
  MaxUid = 2
  MaxEpoch = 2
  MaxRuns = 2
  MaxDrops = 2
SPECIFICATION MCSpec
CHECK_DEADLOCK FALSE
INVARIANT WatcherTypeOK
INVARIANT ReportedInTurn
INVARIANT NoStrayClient
PROPERTY ArrivalsAreReported
