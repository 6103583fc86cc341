\* Transactions submitted once; blocks overlap and proofs fail.
SPECIFICATION Spec
CONSTANTS
  x = x
  y = y
  Callers = {c1, c2, c3}
  Tx = {x, y}
  Validators = {}
  None = None
  TotalShards = 2
  Source <- MCSource
  Target <- MCTarget
  EarlyCalls = FALSE
  ProofsFail = TRUE
  MaxSubmissions = 1
  MaxBlocks = 2
SYMMETRY Symmetry
INVARIANTS TypeOK NoOrphan
PROPERTIES ImplementsCrossShard
\* Nothing is left to do once every transaction is submitted and finished.
CHECK_DEADLOCK FALSE
