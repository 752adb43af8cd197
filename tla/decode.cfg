SPECIFICATION Spec
CONSTANTS
  Answers <- MCAnswers
INVARIANTS
  Decoded
CHECK_DEADLOCK FALSE
