SPECIFICATION Spec
CONSTANTS
  Callers = {p, q}
  p = p
  q = q
  Tools <- MCTools
  Ages <- MCAges
  Chains <- MCChains
  DayLen = 5
  CloseTick = 4
  Start = 13
  MaxTime = 15
  TTL = 0
  MaxStale = 1
  Window = 2
  Retries = 1
  LookBack = 1
ACTION_CONSTRAINT PrivateAtOnce
INVARIANT AnswerFitsRequest
INVARIANT FreshUnlessReplaced
INVARIANT HistoricalExact
INVARIANT VerdictNamesCause
