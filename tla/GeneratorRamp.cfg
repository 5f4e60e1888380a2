CONSTANTS
  RampStart = 1
  RampStop = 2
  RampStep = 1
  Workers = {w1, w2}
  TurnsMin = 1
  TurnsMax = 1
  MaxAttempts = 2
  ThinkTime = TRUE
  MaxSessions = 1
  MonitorInjector = FALSE
  SampleResources = TRUE
  Disturbances = {"stop", "observer_raises", "budget", "client"}
  MaxCancels = 1
  Idle = Idle
  Main = Main
SPECIFICATION FairSpec
INVARIANTS
  RunStatusExplained
  CancellationEndsRun
PROPERTIES
  AdmissionSpec
  RunEnds
