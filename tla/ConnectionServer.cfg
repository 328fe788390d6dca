\* Nothing happens once all clients are done, or after a fault.
SPECIFICATION Safety
CONSTANTS
  c1 = c1  c2 = c2  c3 = c3  fd1 = fd1  fd2 = fd2
  Conn = {c1, c2, c3}
  NoConn = NoConn
  Fd = {fd1, fd2}
  NoFd = NoFd
  Timeout = 2
  MaxLate = 1
  MaxCalls = 2
CONSTANT Programs <- ServerPrograms
INVARIANTS TypeOK NoFault ReleasedOnce FlushedBeforeClose FoundIsAlive ConnectedIsFound WatchedWhileUnsent FreedIsClosed TimersAsAsked
PROPERTIES StatusAdvances
CHECK_DEADLOCK FALSE
