\* Pools of no, one and two threads, any of which may overtake its constructor.
\* Nothing happens once all clients are done and nobody starts the server.
SPECIFICATION ServerSpec
CONSTANTS
  MaxThreads = 2
  Client = {c1, c2, c3}
  Backlog = 2
  Descriptors = 2
  MaxStarts = 2
INVARIANTS NoLostNotification DealtEvenly NeverBlocks
PROPERTIES EveryClientServed
CHECK_DEADLOCK FALSE
