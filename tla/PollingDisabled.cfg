SPECIFICATION PollingSpec
CONSTANTS
  f1 = f1
  f2 = f2
  Workers = {w1}
  Scheduler = scheduler
  Clients = {}
  Pushers = {scheduler}
  Selections = {}
  Chosen = {f1}
  Editors = {u1}
  Feeds = {f1}
  NoFeed = NoFeed
  HostOf <- TwoOnOneHost
  BatchSize = 1
  LimitPerHost = 1
  ErrorLimit = 1
  MaxErrors = 1
  MaxRequests = 1
INVARIANTS DisabledFeedsStayDisabled
CHECK_DEADLOCK FALSE
