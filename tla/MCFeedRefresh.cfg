SPECIFICATION RefreshFairSpec
CONSTANTS
  Workers = {w}
  Requests = {c}
  Editors = {u}
  a = a
  b = b
  Items = {a, b}
  Documents <- AThenBoth
  Tagged = {1, 2}
  UpdatesExisting = TRUE
INVARIANTS ValidatorsAreEarned DeletedStayDeleted NewEntriesAreNew ContentIsCurrent
 
CHECK_DEADLOCK FALSE
