\* Two routes and a request, or a route and two requests at a time.
SPECIFICATION Spec
CONSTANTS
  Worker = {w1, w2}
  MaxRoutes = 2
  MaxRequests = 2
  MaxWork = 3
CONSTANT Symbol <- MCSymbol
CONSTANT Request <- MCRequest
CONSTANT Pattern <- MCPattern
CONSTANT Initial <- MCInitial
INVARIANTS FirstRegisteredAnswers FilesServed
PROPERTY EveryRequestAnswered
CHECK_DEADLOCK FALSE
