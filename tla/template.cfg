SPECIFICATION Spec
CONSTANTS
  c1 = c1
  c2 = c2
  Nil = Nil
  NoRow = NoRow
  Files <- MCFiles
  Nodes <- MCNodes
  Depth = 4
  CutName <- MCCutName
  Clients <- MCClients
  Ids <- MCIds
  Arguments <- MCArguments
  Changes <- MCChanges
  MaxVersion = 2
  MaxCalls = 4
INVARIANTS TypeOK Confluent Faithful
PROPERTY KeepsRows
CHECK_DEADLOCK FALSE
