CONSTANTS
  RampStart = 2
  RampStop = 2
  RampStep = 1
  Workers = {w1, w2}
  TurnsMin = 1
  TurnsMax = 2
  MaxAttempts = 2
  ThinkTime = TRUE
  MaxSessions = 1
  MonitorInjector = TRUE
  SampleResources = FALSE
  Disturbances = {"stop", "observer_raises", "budget", "client"}
  MaxCancels = 1
  Idle = Idle
  Main = Main
SPECIFICATION Spec
SYMMETRY WorkerSymmetry
INVARIANTS
  RecordsMatchAttempts
  SummariesMatchRecords
  RetryDiscipline
  NothingLeftRunning
  CompletedLevelServedEveryWorker
  LevelOutcomeTerminal
  IndInv
PROPERTIES
  AdmissionClosed
