\* One call at a time; reads and writes fail and the process crashes.
SPECIFICATION FairSpec
CONSTANTS
  Callers = {c1}
  Chains <- MCLax
  Tx = {t1}
  Signed = {t1}
  TxTime <- MCTxTime
  Batches <- MCBatches
  Randomness = {r1}
  Time <- MCTime
  Nonces = {11}
  Faults = {"read", "write", "crash"}
  None = None
  NoProof = NoProof
  PendingProof = PendingProof
  GenerationInterval = 1
  AdjustmentInterval = 4
  MaxBlockSize = 2
  MinDifficulty = 2
  MaxDifficulty = 4
INVARIANTS IndexedByLoadedChain TipCanGrow
PROPERTIES ImplementsLedger ReplacementIsLonger CallsEnd
