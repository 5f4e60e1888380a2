CONSTANTS
  Runs = {a, b}
  NoRun = NoRun
  Options <- MCOptions
  MaxRecords = 2
  MaxSessions = 1
  MaxLines = 2
SYMMETRY Invocations
SPECIFICATION Spec
INVARIANTS
  AccountedIsOnDisk
  RerenderIsTheReport
  PartialRunsReportedAsSuch
  EmptyReportIsZeroCap
  ExitCodeHonest
CHECK_DEADLOCK FALSE
