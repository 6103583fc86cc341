\* Calls while initializeShards is still running.
SPECIFICATION Spec
CONSTANTS
  x = x
  y = y
  Callers = {c1, c2}
  Tx = {x, l}
  Validators = {v1}
  None = None
  TotalShards = 2
  Source <- MCSource
  Target <- MCTarget
  EarlyCalls = TRUE
  ProofsFail = TRUE
  MaxSubmissions = 1
  MaxBlocks = 2
PROPERTIES StagesOnlyAdvance
\* Nothing is left to do once every transaction is submitted and finished.
CHECK_DEADLOCK FALSE
