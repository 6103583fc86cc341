\* A node without peers: four requests for two payments, a pool of two, and
\* a clock that passes the maximal age.
SPECIFICATION Spec
CONSTANTS
  maxSize = 2
  maxTransactionAge = 1
  MaxTime = 3
  Incoming = {}
  Main = main
  Diallers = {main}
  MaxListed = 1
  InitialPeers = 0
  Requests = {r1, r2, r3, r4}
  Payments = {p1, p2}
SYMMETRY Symmetry
INVARIANTS OverflowIsYoung AcceptedStays
CHECK_DEADLOCK FALSE
