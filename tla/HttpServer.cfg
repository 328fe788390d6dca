\* The client stops sending in the end.
SPECIFICATION Spec
CONSTANT Stream <- MCStream
CONSTANT SizeMax = 65535
INVARIANTS AnswersAsInOnePiece CleanContext
PROPERTY EndsAfterClose
CHECK_DEADLOCK FALSE
