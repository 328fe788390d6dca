\* Nothing happens once all clients are done.
SPECIFICATION Spec
CONSTANTS
  c1 = c1  c2 = c2  c3 = c3  fd1 = fd1  fd2 = fd2
  Conn = {c1}
  NoConn = NoConn
  Fd = {fd1}
  NoFd = NoFd
  Timeout = 2
  MaxLate = 1
  MaxCalls = 0
CONSTANT Programs <- LonePrograms
PROPERTIES LazyLinkReleased
CHECK_DEADLOCK FALSE
