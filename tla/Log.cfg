\* Threads stop logging in the end, or a sink is destroyed in use.
CONSTANTS
  Thread = {t1, t2}
  MaxMessages = 3
  MaxSinks = 3
SPECIFICATION Spec
INVARIANTS LinesAreWhole OwnOrder
PROPERTY StatementsEnd
CHECK_DEADLOCK FALSE
