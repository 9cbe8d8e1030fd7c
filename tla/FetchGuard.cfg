SPECIFICATION GuardFairSpec
CONSTANTS
  Callers = {c1, c2, c3}
  Pages = {p, q}
  Spacing = 1
  Patience = 1
  FailuresBeforeBackoff = 2
  Doublings = 1
  BackoffMin = 1
  BackoffMax = 2
  Resets = {2}
  CacheSize = 1
  MaxBacklog = 3
  NoPage = NoPage
INVARIANTS GuardInv SlotsAheadAreTaken
PROPERTIES OnlyLateCallsInCooldown CooldownEnds
