\* Two saves in progress together, writes fail and the process crashes.
SPECIFICATION StoreSpec
CONSTANTS
  Callers = {c1, c2}
  Chains <- MCChains
  None = None
  Faults = {"read", "write", "crash"}
INVARIANTS StoreTypeOK StoredChainIsWhole
PROPERTIES ImplementsAtomicStore
