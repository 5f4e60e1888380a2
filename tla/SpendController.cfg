CONSTANTS
  Key = {k1, k2, k3}
  Tokens <- MCTokens
  Unknown = Unknown
  InputPrice = 1
  OutputPrice = 2
  Caps <- MCCaps
  NoCap = NoCap
  NotSeen = NotSeen
SPECIFICATION Spec
SYMMETRY KeySymmetry
INVARIANTS
  TypeOK
  SpendIsOfSeen
  StopIsWarranted
PROPERTIES
  FirstReasonKept
