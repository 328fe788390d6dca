CONSTANTS
  Id = {c1, c2}
  Capacity = 3
  Timeout <- MCTimeout
  MaxLate = 4
SPECIFICATION Spec
INVARIANTS EntriesAreAlive
PROPERTIES CountsDown TimersEnd
