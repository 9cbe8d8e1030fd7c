SPECIFICATION PollingFairSpec
CONSTANTS
  f1 = f1
  f2 = f2
  Workers = {w1}
  Scheduler = scheduler
  Clients = {c1}
  Pushers = {scheduler, c1}
  Selections = {{f1, f2}}
  Chosen = {f2}
  Editors = {u1}
  Feeds = {f1, f2, f3}
  NoFeed = NoFeed
  HostOf <- TwoOnOneHost
  BatchSize = 2
  LimitPerHost = 1
  ErrorLimit = 1
  MaxErrors = 1
  MaxRequests = 1
INVARIANTS QuietEditsAreKept
PROPERTIES BatchesAreFair EveryDueFeedIsRefreshed EveryPushReturns ShutdownCompletes
CHECK_DEADLOCK FALSE
