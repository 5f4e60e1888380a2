CONSTANTS
  Observations <- MCObservations
  MinSamples = 2
  Slo <- MCSlo
  MaxLevels = 4
  MaxSessions = 2
SPECIFICATION Spec
INVARIANTS
  KneeIsWarranted
PROPERTIES
  LostEvidenceIsNotRegained
CHECK_DEADLOCK FALSE
