\* One call at a time, no proof fails; each transaction submitted twice, and
\* validators assigned again and again.
SPECIFICATION Spec
CONSTANTS
  x = x
  y = y
  Callers = {c1}
  Tx = {x, y}
  Validators = {v1, v2}
  None = None
  TotalShards = 3
  Source <- MCSource
  Target <- MCTarget
  EarlyCalls = FALSE
  ProofsFail = FALSE
  MaxSubmissions = 2
  MaxBlocks = 3
SYMMETRY ValidatorSymmetry
INVARIANTS HeldByBoth NoOrphan Balanced
\* Nothing is left to do once every transaction is submitted and finished.
CHECK_DEADLOCK FALSE
