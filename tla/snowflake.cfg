SPECIFICATION FairSpec
CONSTANTS
  Callers = {g1, g2}
  Numbers <- MCNumbers
  NodeRange = 2
  StepRange = 2
  Horizon = 2
  MaxIds = 4
INVARIANTS
  TypeOK
  Unique
  Increasing
PROPERTY
  Served
CHECK_DEADLOCK FALSE
