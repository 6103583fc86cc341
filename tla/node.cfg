\* An initial peer, one incoming connection, and one more list of up to
\* two peers; a request. The pool and its clock are small here.
SPECIFICATION FairSpec
CONSTANTS
  maxSize = 1
  maxTransactionAge = 1
  MaxTime = 0
  Incoming = {i1}
  Main = main
  Diallers = {main, other}
  MaxListed = 2
  InitialPeers = 1
  Requests = {r1}
  Payments = {p1}
INVARIANTS TypeOK OpenPeersAreListed InitialPeersAreOffered
PROPERTIES ImplementsGossip OnlySilenceBlocks
CHECK_DEADLOCK FALSE
