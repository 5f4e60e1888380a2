CONSTANTS
  r1 = r1
  r2 = r2
  r3 = r3
  Requests = {r1, r2, r3}
  ModelSlots = 2
  SearchWorkers = 1
  Interval = 2
SPECIFICATION FairSpec
INVARIANTS
  SlotsAccounted
  StatsExplainAnswers
PROPERTIES
  FetchesKeepTheirRate
  EveryRequestEnds
CHECK_DEADLOCK FALSE
