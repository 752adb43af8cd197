SPECIFICATION Spec
CONSTANTS
  t1 = t1
  t2 = t2
  t3 = t3
  s1 = s1
  s2 = s2
  Tx <- MCTx
  Stmt <- MCStmt
  Props <- UnitProps
  MaxDepth = 4
SYMMETRY Symm
INVARIANT
  NoOrphanTx
PROPERTY
  Unit
