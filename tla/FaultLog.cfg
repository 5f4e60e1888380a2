CONSTANTS
  c1 = c1
  c2 = c2
  c3 = c3
  s1 = s1
  s2 = s2
  Calls = {c1, c2, c3}
  Sessions = {s1, s2}
  OtherRun = OtherRun
  NoHeader = NoHeader
  SessionOf <- MCSessionOf
  MaxStale = 1
SPECIFICATION FairSpec
INVARIANTS
  ServedFaultsReachTheirSession
  StopLeavesNothing
PROPERTIES
  HoldsAndStopsEnd
CHECK_DEADLOCK FALSE
