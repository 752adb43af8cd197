SPECIFICATION Spec
CONSTANTS
  t1 = t1
  t2 = t2
  t3 = t3
  s1 = s1
  s2 = s2
  Tx <- MCTx
  Stmt <- NoStmt
  Tags <- AllTags
  MaxFrames = 3
SYMMETRY SymmTx
INVARIANTS
  TypeOK
  TlsMatchesFrames
  Bracketed
