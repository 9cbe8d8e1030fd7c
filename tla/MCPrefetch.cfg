SPECIFICATION HSpec
CONSTANTS
  Entries = {e1, e2}
  Workers = {w1, w2}
  Refreshers = {r1}
  HostOf <- OneHost
  QueueSize = 2
  FailedKept = 1
  MaxLength = 1
  ThinLimit = 1
  Recent = {e1, e2}
  IgnoreUpdates = FALSE
  Forcing = {FALSE, TRUE}
  MaxChanges = 1
  MaxRestarts = 0
  NoEntry = NoEntry
SYMMETRY Interchangeable
INVARIANTS PrefetchInv QuietRewritesAreQueued
