\* Two overlapping calls; proofs and payments fail.
SPECIFICATION Spec
CONSTANTS
  a1 = a1
  a2 = a2
  Callers = {c1, c2}
  Addresses = {a1, a2}
  None = None
  Stakes <- MCStakes
  MinStake = 2
  MinValidators = 2
  Lifetime = 1
  Epochs = {0}
  EpochBlocks <- MCEpochBlocks
  MaxTime = 1
  MaxMined = 1
  MaxEpoch = 1
  MaxDistributions = 2
SYMMETRY Symmetry
INVARIANTS TypeOK SelectionIsWeighted EpochSettled PaidByDistributions
PROPERTIES StaysInactive ImplementsPayroll
