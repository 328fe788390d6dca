CONSTANTS
  Thread = {loop, base, worker}
  Loop = loop
  Task = {t1, t2}
  NoTask = NoTask
  Channel = {ch1, ch2}
  EventCh = eventch
  NoChannel = NoChannel
  MaxEvents = 2
  MaxQueue = 3
SPECIFICATION Spec
INVARIANTS NoLostWakeup
PROPERTIES RunsInOrder KeepsPolling
