CONSTANTS
  RampStart = 1
  RampStop = 2
  RampStep = 1
  Workers = {w1, w2}
  TurnsMin = 1
  TurnsMax = 1
  MaxAttempts = 2
  ThinkTime = FALSE
  MaxSessions = 1
  MonitorInjector = FALSE
  SampleResources = FALSE
  Disturbances = {"stop", "observer_raises"}
  MaxCancels = 1
  Idle = Idle
  Main = Main
  Tokens <- MCTokens
  Unknown = Unknown
  InputPrice = 1
  OutputPrice = 1
  Caps <- MCCaps
  NoCap = NoCap
  NotSeen = NotSeen
SPECIFICATION CappedSpec
SYMMETRY WorkerSymmetry
INVARIANTS
  OvershootBounded
  CompletedWithinCap
  EveryAnswerCharged
PROPERTIES
  DispatchWithinCap
