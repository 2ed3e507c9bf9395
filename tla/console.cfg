SPECIFICATION Spec
CONSTANTS
  none = none
  None = none
  Sessions <- MCSessions
  RecursionLimit = 24
INVARIANTS
  RoundsHeld
  ContextIsOwn
  LimitOnlyByTools
  LogIsTranscript
  ReportsAreFinal
  DisplayFollowsRun
  ClientAsChosen
PROPERTIES
  CompletedStays
CHECK_DEADLOCK FALSE
