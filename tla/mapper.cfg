SPECIFICATION Spec
CONSTANTS
  Goroutines = {"g1", "g2"}
  Calls <- MCCalls
  PoolSize = 3
  MaxRows = 2
  MaxDrift = 2
  MaxFailed = 0
INVARIANTS
  TypeOK
  WholeAnswers
  NothingKept
PROPERTY Returns
