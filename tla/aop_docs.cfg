SPECIFICATION Spec
CONSTANTS
  t1 = t1
  t2 = t2
  t3 = t3
  s1 = s1
  s2 = s2
  Tx <- MCTx2
  Stmt <- MCStmt
  Tags <- DocTags
  MaxFrames = 3
SYMMETRY Symm2
INVARIANT
  SomePromiseKept
