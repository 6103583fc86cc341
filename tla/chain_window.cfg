\* One value of randomBytes: every genesis block is the same.
SPECIFICATION Spec
CONSTANTS
  Callers = {c1}
  Chains <- MCNoChain
  Tx = {t1}
  Signed = {t1}
  TxTime <- MCTxTime
  Batches <- MCNoBatch
  Randomness = {r1}
  Time <- MCLateTime
  Nonces = {11}
  Faults = {}
  None = None
  NoProof = NoProof
  PendingProof = PendingProof
  GenerationInterval = 1
  AdjustmentInterval = 4
  MaxBlockSize = 2
  MinDifficulty = 2
  MaxDifficulty = 4
INVARIANTS OwnChainValid
