\* Two calls at a time, nothing fails.
SPECIFICATION Spec
CONSTANTS
  Callers = {c1, c2}
  Chains <- MCHonest
  Tx = {t1}
  Signed = {t1}
  TxTime <- MCTxTime
  Batches <- MCBatches
  Randomness = {r1}
  Time <- MCTime
  Nonces = {11}
  Faults = {}
  None = None
  NoProof = NoProof
  PendingProof = PendingProof
  GenerationInterval = 1
  AdjustmentInterval = 4
  MaxBlockSize = 2
  MinDifficulty = 2
  MaxDifficulty = 4
PROPERTIES ReplacementIsLonger
