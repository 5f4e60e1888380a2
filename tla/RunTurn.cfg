CONSTANTS
  Statuses <- MCStatuses
  MaxChunks = 3
  NoOutcome = NoOutcome
  Raised = Raised
SPECIFICATION FairSpec
INVARIANTS
  TypeOK
  RecordTellsTheStream
  AbandonedMeansGaveUp
  ErrorAnswersKept
  OnlyCancellationRaises
PROPERTIES
  TurnEnds
CHECK_DEADLOCK FALSE
