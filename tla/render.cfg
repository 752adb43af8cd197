SPECIFICATION Spec
CONSTANTS
  Nodes <- MCNodes
  Values <- MCValues
  Templates <- AnyAtAll
  Params <- AnyParams
  Numberings = {TRUE, FALSE}
INVARIANTS
  TypeOK
  Numbered
  StableMeaning
