CONSTANTS
  Statuses <- MCStatuses
  MaxChunks = 1
  NoOutcome = NoOutcome
  Raised = Raised
SPECIFICATION Spec
INVARIANTS
  AbandonedIsRetried
CHECK_DEADLOCK FALSE
