CONSTANTS
  RampStart = 1
  RampStop = 2
  RampStep = 1
  Workers = {w1, w2}
  TurnsMin = 1
  TurnsMax = 1
  MaxAttempts = 1
  ThinkTime = TRUE
  MaxSessions = 1
  MonitorInjector = TRUE
  SampleResources = TRUE
  Disturbances = {"stop", "observer_raises", "budget", "client"}
  MaxCancels = 1
  Idle = Idle
  Main = Main
SPECIFICATION Spec
SYMMETRY WorkerSymmetry
INVARIANT LevelOutcomeTerminal
