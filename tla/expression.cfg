SPECIFICATION Spec
CONSTANTS
  Tokens <- MCTokens
  Expressions <- MCExpressions
  Envs <- MCEnvs
  Numerals <- MCNumerals
INVARIANTS
  Conventional
  TypedNeverFails
  Grouped
CHECK_DEADLOCK FALSE
