SPECIFICATION HSpec
CONSTANTS
  Entries = {e1}
  Workers = {w1}
  Refreshers = {r1}
  HostOf <- OneHost
  QueueSize = 1
  FailedKept = 1
  MaxLength = 2
  ThinLimit = 1
  Recent = {e1}
  IgnoreUpdates = FALSE
  Forcing = {FALSE}
  MaxChanges = 1
  MaxRestarts = 0
  NoEntry = NoEntry
PROPERTIES OnlyLongerContentIsStored
