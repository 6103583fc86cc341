------------------------------- MODULE Gossip -------------------------------
(***************************************************************************)
(* What a node promises its neighbours. Each comes, becomes a peer if its  *)
(* handshake brings it that far, and goes, for good: a connection never    *)
(* starts again and nobody is a peer without a handshake. A message that   *)
(* is accepted is owed to everyone who is a peer in that moment and to     *)
(* nobody else. Each is sent it at most once, and only while still a peer; *)
(* it may also be lost, for one of them without the others.                *)
(***************************************************************************)
CONSTANT Neighbours

VARIABLES
  stage,        \* stranger, guest, peer or gone
  accepted,     \* the messages taken so far
  pending,      \* those that each neighbour is owed
  delivered     \* those that each neighbour was sent

Init ==
  /\ stage = [n \in Neighbours |-> "stranger"]
  /\ accepted = {}
  /\ pending = [n \in Neighbours |-> {}]
  /\ delivered = [n \in Neighbours |-> {}]

Come(n)  == stage[n] = "stranger" /\ stage'[n] = "guest"
Join(n)  == stage[n] = "guest" /\ stage'[n] = "peer"
Leave(n) == stage[n] \in {"guest", "peer"} /\ stage'[n] = "gone"
Stay(n)  == stage'[n] = stage[n]

\* The end of one handshake may be the beginning of another.
Move ==
  /\ \A n \in Neighbours : Come(n) \/ Join(n) \/ Leave(n) \/ Stay(n)
  /\ UNCHANGED <<accepted, pending, delivered>>

Accept(m) ==
  /\ m \notin accepted
  /\ accepted' = accepted \cup {m}
  /\ pending' = [n \in Neighbours |->
       IF stage[n] = "peer" THEN pending[n] \cup {m} ELSE pending[n]]
  /\ UNCHANGED <<stage, delivered>>

Deliver(n, m) ==
  /\ stage[n] = "peer"
  /\ delivered' = [delivered EXCEPT ![n] = @ \cup {m}]

\* What is owed is sent or lost, to one neighbour at a time.
Settle(n, m) ==
  /\ m \in pending[n]
  /\ pending' = [pending EXCEPT ![n] = @ \ {m}]
  /\ Deliver(n, m) \/ UNCHANGED delivered
  /\ UNCHANGED <<stage, accepted>>

Next ==
  \/ Move
  \/ \E m \in accepted' : Accept(m)
  \/ \E n \in Neighbours : \E m \in pending[n] : Settle(n, m)

Spec == Init /\ [][Next]_<<stage, accepted, pending, delivered>>
=============================================================================
