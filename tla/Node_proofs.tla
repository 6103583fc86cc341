----------------------------- MODULE Node_proofs -----------------------------
(***************************************************************************)
(* Theorems about Node. The invariant has three parts, one for each group  *)
(* of variables, so that a step disturbs one or two of them.               *)
(***************************************************************************)
EXTENDS Node, FiniteSetTheorems, TLAPS

\* Transactions arrive after they were made; the clock only advances.
PoolInv ==
  /\ PoolTypeOK
  /\ IsFiniteSet(DOMAIN transactions)
  /\ \A tx \in DOMAIN transactions : tx.timestamp =< transactions[tx]
  /\ OverflowIsYoung

\* A broadcast begins for those who are peers. While one is encrypted for a
\* connection it is a peer, and what was lost to its end was lost for good.
DeliveriesOK ==
  \A s \in Sockets, r \in Requests :
    /\ delivery[s][r] # "none" => shake[s] \in {"syncing", "over"}
    /\ delivery[s][r] = "encrypting" /\ s \in open => s \in peers
    /\ delivery[s][r] = "gone" => s \notin open

\* The sockets a dialler has not come to are fresh; a socket that asks for
\* the chain is a peer.
PeerInv ==
  /\ PeersTypeOK
  /\ DeliveriesOK
  /\ \A s \in Outgoing : s[2] > current[s[1]] => shake[s] = "none"
  /\ \A s \in Sockets : shake[s] = "syncing" => s \in peers
  /\ OpenPeersAreListed

RequestTypes ==
  [at : {"idle", "refused"}]
  \cup [at : {"deriving"}, payment : Payments]
  \cup [at : {"signing", "accepted"}, transaction : Transactions]

HasTransaction(r) == requests[r].at \in {"signing", "accepted"}

\* An initial peer was one when each accepted transaction was broadcast.
BroadcastBegun ==
  \A s \in Outgoing, r \in Requests :
    s[1] = Main /\ s \in peers /\ requests[r].at = "accepted" =>
      delivery[s][r] # "none"

\* Nothing is broadcast for a request before it is accepted.
NothingEarly ==
  \A r \in Requests : requests[r].at # "accepted" =>
    \A s \in Sockets : delivery[s][r] = "none"

\* Requests come when the API listens, which it does when main() has tried
\* its peers; their transactions are not from the future.
RequestInv ==
  /\ api \in {"down", "up"}
  /\ requests \in [Requests -> RequestTypes]
  /\ api = "up" => current[Main] > listed[Main]
  /\ \A r \in Requests : requests[r].at # "idle" => api = "up"
  /\ \A r \in Requests : HasTransaction(r) => requests[r].transaction.timestamp =< now
  /\ AcceptedStays
  /\ BroadcastBegun
  /\ NothingEarly

IInv == PoolInv /\ PeerInv /\ RequestInv

-----------------------------------------------------------------------------
(* The pool.                                                               *)

\* Taking transactions out leaves the others as they are.
LEMMA PoolTaken ==
  ASSUME PoolInv, NEW gone, transactions' = Without(gone), now' = now,
         withdrawn' \subseteq Transactions
  PROVE  PoolInv'
<1>1. /\ DOMAIN transactions' = DOMAIN transactions \ gone
      /\ \A tx \in DOMAIN transactions' : transactions'[tx] = transactions[tx]
      /\ transactions' = [tx \in DOMAIN transactions' |-> transactions'[tx]]
  BY DEF Without, Restrict
<1>2. /\ IsFiniteSet(DOMAIN transactions')
      /\ Cardinality(DOMAIN transactions') =< Cardinality(DOMAIN transactions)
      /\ Cardinality(DOMAIN transactions') \in Nat
      /\ Cardinality(DOMAIN transactions) \in Nat
  BY <1>1, FS_Subset, FS_CardinalityType DEF PoolInv
<1>3. PoolTypeOK'
  BY <1>1 DEF PoolInv, PoolTypeOK
<1>4. OverflowIsYoung'
  BY <1>1, <1>2, MempoolAssumption DEF PoolInv, OverflowIsYoung
<1> QED
  BY <1>1, <1>2, <1>3, <1>4 DEF PoolInv

\* What addTransaction leaves of the pool before it adds: everything that is
\* not old, and if the pool was full nothing that is.
LEMMA RoomMade ==
  ASSUME PoolInv, NEW room, room = IF Full THEN Without(Old) ELSE transactions
  PROVE  /\ DOMAIN room \subseteq DOMAIN transactions
         /\ \A h \in DOMAIN room : room[h] = transactions[h]
         /\ \A h \in DOMAIN transactions :
              now - transactions[h] =< maxTransactionAge => h \in DOMAIN room
         /\ Full => \A h \in DOMAIN room : now - room[h] =< maxTransactionAge
<1> /\ \A h \in DOMAIN transactions : transactions[h] \in Int
    /\ now \in Int /\ maxTransactionAge \in Int
  BY MempoolAssumption DEF PoolInv, PoolTypeOK
<1> QED
  BY DEF Without, Restrict, Old

LEMMA PoolAdded ==
  ASSUME PoolInv, NEW tx \in Transactions, tx.timestamp =< now, addTransaction(tx)
  PROVE  /\ PoolInv'
         /\ tx \in DOMAIN transactions'
         /\ \A h \in DOMAIN transactions :
              now - h.timestamp =< maxTransactionAge => h \in DOMAIN transactions'
         /\ withdrawn' = withdrawn \ {tx} /\ now' = now
<1> DEFINE room == IF Full THEN Without(Old) ELSE transactions
<1>1. /\ DOMAIN room \subseteq DOMAIN transactions
      /\ \A h \in DOMAIN room : room[h] = transactions[h]
      /\ \A h \in DOMAIN transactions :
           now - transactions[h] =< maxTransactionAge => h \in DOMAIN room
      /\ Full => \A h \in DOMAIN room : now - room[h] =< maxTransactionAge
  BY RoomMade
<1>2. /\ DOMAIN transactions' = DOMAIN room \cup {tx}
      /\ \A h \in DOMAIN transactions' :
           transactions'[h] = IF h \in DOMAIN room THEN transactions[h] ELSE now
      /\ transactions' = [h \in DOMAIN transactions' |-> transactions'[h]]
      /\ withdrawn' = withdrawn \ {tx} /\ now' = now
  BY <1>1 DEF addTransaction
<1> HIDE DEF room
<1> USE MempoolAssumption
<1>3. /\ \A h \in DOMAIN transactions :
           transactions[h] \in 0..now /\ h.timestamp \in Nat /\ h.timestamp =< transactions[h]
      /\ now \in Nat
  BY DEF PoolInv, PoolTypeOK, Transactions
<1>4. PoolTypeOK'
  BY <1>1, <1>2, <1>3 DEF PoolInv, PoolTypeOK
<1>5. IsFiniteSet(DOMAIN transactions')
  BY <1>1, <1>2, FS_Subset, FS_AddElement DEF PoolInv
<1>6. \A h \in DOMAIN transactions' : h.timestamp =< transactions'[h]
  BY <1>1, <1>2, <1>3
<1>7. OverflowIsYoung'
  <2> SUFFICES ASSUME Cardinality(DOMAIN transactions') > maxSize,
                      NEW h \in DOMAIN transactions', NEW other \in DOMAIN transactions'
               PROVE  transactions'[h] - transactions'[other] =< maxTransactionAge
    BY DEF OverflowIsYoung
  <2>1. /\ IsFiniteSet(DOMAIN room)
        /\ Cardinality(DOMAIN room) \in Nat
        /\ Cardinality(DOMAIN transactions) \in Nat
        /\ Cardinality(DOMAIN room) =< Cardinality(DOMAIN transactions)
    BY <1>1, FS_Subset, FS_CardinalityType DEF PoolInv
  <2>2. CASE Full
    <3>1. /\ transactions'[h] =< now /\ transactions'[h] \in Nat
          /\ now - transactions'[other] =< maxTransactionAge
          /\ transactions'[other] \in Nat
      BY <1>1, <1>2, <1>3, <2>2
    <3> QED
      BY <1>3, <3>1
  <2>3. CASE ~Full
    <3>1. Cardinality(DOMAIN transactions) < maxSize
      BY <2>1, <2>3 DEF Full
    <3>2. Cardinality(DOMAIN room \cup {tx}) \in
            {Cardinality(DOMAIN room), Cardinality(DOMAIN room) + 1}
      <4>1. Cardinality(DOMAIN room \cup {tx}) =
              IF tx \in DOMAIN room THEN Cardinality(DOMAIN room) ELSE Cardinality(DOMAIN room) + 1
        BY <2>1, FS_AddElement
      <4> QED
        BY <4>1
    <3>3. Cardinality(DOMAIN transactions') = Cardinality(DOMAIN room \cup {tx})
      BY <1>2
    <3> QED
      BY <2>1, <3>1, <3>2, <3>3
  <2> QED
    BY <2>2, <2>3
<1>8. \A h \in DOMAIN transactions :
        now - h.timestamp =< maxTransactionAge => h \in DOMAIN transactions'
  BY <1>1, <1>2, <1>3
<1> QED
  BY <1>2, <1>4, <1>5, <1>6, <1>7, <1>8 DEF PoolInv

LEMMA PoolAges ==
  ASSUME PoolInv, Tick
  PROVE  PoolInv'
<1> USE MempoolAssumption DEF PoolInv, Tick
<1>1. PoolTypeOK'
  BY DEF PoolTypeOK
<1>2. OverflowIsYoung'
  BY DEF OverflowIsYoung
<1> QED
  BY <1>1, <1>2

-----------------------------------------------------------------------------
(* The peers.                                                              *)

InProgress == {"waiting", "deriving", "syncing"}

\* Dialler d goes on at address from of length, and the handshake it was at
\* is over in phases, which are otherwise those of now.
GoesOn(d, length, from, phases) ==
  /\ from \in 1..(length + 1) /\ current[d] < from
  /\ Dial(d, from, length, phases)
  /\ listed' = [listed EXCEPT ![d] = length]
  /\ phases \in [Sockets -> {"none", "over"} \cup InProgress]
  /\ \A s \in Outgoing :
       /\ phases[s] \in InProgress <=> s[1] # d /\ shake[s] \in InProgress
       /\ s[1] = d /\ s[2] >= from => phases[s] = "none"
       /\ s[1] # d => phases[s] = shake[s]

\* After a step of the diallers the phases follow them, and differ from
\* phases where a fresh socket was dialled.
PhasesFollow(phases) ==
  /\ shake' \in [Sockets -> {"none", "over"} \cup InProgress]
  /\ current' \in [Diallers -> 0..(MaxListed + 1)]
  /\ listed' \in [Diallers -> 0..MaxListed]
  /\ \A e \in Diallers : current'[e] =< listed'[e] + 1
  /\ \A s \in Outgoing :
       /\ shake'[s] \in InProgress <=> Dialling(s[1])' /\ s[2] = current'[s[1]]
       /\ s[2] > current'[s[1]] => shake'[s] = "none"
  /\ \A s \in Sockets : shake'[s] = phases[s] \/ (phases[s] = "none" /\ shake'[s] = "waiting")
  /\ \A s \in Incoming : shake'[s] = phases[s]

LEMMA Dialled ==
  ASSUME PeerInv, NEW d \in Diallers, NEW length \in 0..MaxListed,
         NEW from, NEW phases, GoesOn(d, length, from, phases)
  PROVE  PhasesFollow(phases)
<1> USE PeersAssumption DEF InProgress, GoesOn
<1>1. PICK next \in from..(length + 1) :
        /\ current' = [current EXCEPT ![d] = next]
        /\ shake' = [s \in Sockets |-> IF next =< length /\ s = <<d, next>>
                                       THEN "waiting" ELSE phases[s]]
  BY DEF Dial
<1>2. /\ current \in [Diallers -> 0..(MaxListed + 1)]
      /\ listed \in [Diallers -> 0..MaxListed]
      /\ \A e \in Diallers : current[e] =< listed[e] + 1
      /\ \A s \in Outgoing : shake[s] \in InProgress <=> Dialling(s[1]) /\ s[2] = current[s[1]]
      /\ \A s \in Outgoing : s[2] > current[s[1]] => shake[s] = "none"
      /\ next \in 1..(MaxListed + 1)
  BY DEF PeerInv, PeersTypeOK
<1>3. /\ current'[d] = next /\ listed'[d] = length
      /\ \A e \in Diallers : e # d => current'[e] = current[e] /\ listed'[e] = listed[e]
      /\ current' \in [Diallers -> 0..(MaxListed + 1)]
      /\ listed' \in [Diallers -> 0..MaxListed]
  BY <1>1, <1>2
<1>4. \A s \in Outgoing :
        /\ s[1] \in Diallers /\ s[2] \in 1..MaxListed /\ s = <<s[1], s[2]>>
        /\ s \in Sockets
        /\ s \notin Incoming
  BY DEF Outgoing, Sockets
<1>5. shake' \in [Sockets -> {"none", "over"} \cup InProgress]
  BY <1>1
<1>6. \A e \in Diallers : current'[e] =< listed'[e] + 1
  BY <1>2, <1>3
<1>7. ASSUME NEW s \in Outgoing
      PROVE  shake'[s] = IF next =< length /\ s[1] = d /\ s[2] = next
                         THEN "waiting" ELSE phases[s]
  BY <1>1, <1>4
<1>8. ASSUME NEW s \in Outgoing
      PROVE  /\ shake'[s] \in InProgress <=> Dialling(s[1])' /\ s[2] = current'[s[1]]
             /\ s[2] > current'[s[1]] => shake'[s] = "none"
  <2>1. CASE s[1] = d
    BY <1>2, <1>3, <1>4, <1>7, <2>1 DEF Dialling
  <2>2. CASE s[1] # d
    BY <1>2, <1>3, <1>4, <1>7, <2>2 DEF Dialling
  <2> QED
    BY <2>1, <2>2
<1>9. \A s \in Incoming : shake'[s] = phases[s]
  BY <1>1, <1>4 DEF Outgoing, Sockets
<1>10. \A s \in Sockets : shake'[s] = phases[s] \/ (phases[s] = "none" /\ shake'[s] = "waiting")
  BY <1>1, <1>3, <1>4, <1>9 DEF Outgoing, Sockets
<1> QED
  BY <1>3, <1>5, <1>6, <1>8, <1>9, <1>10 DEF PhasesFollow

LEMMA PeersDial ==
  ASSUME PeerInv, NEW d \in Diallers, NEW length \in 0..MaxListed,
         StartDialling(d, length)
  PROVE  PeerInv'
<1>1. /\ shake \in [Sockets -> {"none", "over"} \cup InProgress]
      /\ \A s \in Outgoing : shake[s] \in InProgress => s[1] # d
      /\ \A s \in Outgoing : s[1] = d => s[2] \in Nat \ {0} /\ shake[s] = "none"
  BY PeersAssumption DEF PeerInv, PeersTypeOK, StartDialling, Dialling, InProgress, Outgoing
<1>2. PhasesFollow(shake)
  <2>1. GoesOn(d, length, 1, shake)
    BY <1>1 DEF StartDialling, GoesOn
  <2> QED
    BY <2>1, Dialled
<1>3. /\ open' = open \cup {s \in Outgoing : shake'[s] # shake[s]}
      /\ UNCHANGED <<listening, sockets, peers, peerSessions, delivery>>
  BY DEF StartDialling, tableVars
<1>4. PeersTypeOK'
  BY <1>2, <1>3 DEF PhasesFollow, PeerInv, PeersTypeOK, InProgress, Sockets
<1>5. OpenPeersAreListed'
  BY <1>2, <1>3 DEF PhasesFollow, PeerInv, PeersTypeOK, OpenPeersAreListed, Sockets
<1>6. DeliveriesOK'
  BY <1>2, <1>3 DEF PhasesFollow, PeerInv, DeliveriesOK, Outgoing, Sockets
<1> QED
  BY <1>2, <1>3, <1>4, <1>5, <1>6 DEF PhasesFollow, PeerInv

\* The handshake of s ends: kept are the sockets of X and the one dialled next.
HandshakeEnds(s, X) ==
  /\ shake[s] \in InProgress
  /\ Return(s)
  /\ X \subseteq open
  /\ s \in X => s \in peers
  /\ open' = X \cup Opened
  /\ UNCHANGED <<tableVars, listed, delivery>>

LEMMA PeersReturn ==
  ASSUME PeerInv, NEW s \in Sockets, NEW X, HandshakeEnds(s, X)
  PROVE  PeerInv'
<1> USE DEF HandshakeEnds
<1> DEFINE phases == [shake EXCEPT ![s] = "over"]
<1>1. /\ UNCHANGED <<sockets, peers, peerSessions, delivery, listed>>
      /\ phases \in [Sockets -> {"none", "over"} \cup InProgress]
      /\ \A t \in Sockets : phases[t] = IF t = s THEN "over" ELSE shake[t]
  BY DEF tableVars, PeerInv, PeersTypeOK, InProgress
<1> HIDE DEF phases
<1>2. PhasesFollow(phases) /\ listening' = {t \in Incoming : shake'[t] = "over"}
  <2>1. CASE s \in Incoming
    <3>1. /\ shake' = phases /\ UNCHANGED current
          /\ listening' = listening \cup {s}
      BY <2>1 DEF Return, phases
    <3>2. \A t \in Outgoing : t \in Sockets /\ t # s
      BY <2>1, PeersAssumption DEF Outgoing, Sockets
    <3> QED
      BY <1>1, <2>1, <3>1, <3>2 DEF PhasesFollow, PeerInv, PeersTypeOK, InProgress, Dialling, Sockets
  <2>2. CASE s \notin Incoming
    <3>1. /\ s \in Outgoing /\ s[1] \in Diallers /\ s[2] \in 1..MaxListed
          /\ s = <<s[1], s[2]>>
          /\ s[2] = current[s[1]] /\ Dialling(s[1])
      BY <2>2 DEF Sockets, Outgoing, PeerInv, PeersTypeOK, InProgress
    <3>2. /\ Dial(s[1], s[2] + 1, listed[s[1]], phases)
          /\ UNCHANGED listening
      BY <2>2 DEF Return, phases
    <3>3. /\ listed[s[1]] \in 0..MaxListed
          /\ s[2] + 1 \in 1..(listed[s[1]] + 1)
          /\ current[s[1]] < s[2] + 1
          /\ listed' = [listed EXCEPT ![s[1]] = listed[s[1]]]
      BY <1>1, <3>1, PeersAssumption DEF PeerInv, PeersTypeOK, Dialling
    <3>4. ASSUME NEW t \in Outgoing
          PROVE  /\ phases[t] \in InProgress <=> t[1] # s[1] /\ shake[t] \in InProgress
                 /\ t[1] = s[1] /\ t[2] >= s[2] + 1 => phases[t] = "none"
                 /\ t[1] # s[1] => phases[t] = shake[t]
      <4>1. /\ t \in Sockets /\ t = <<t[1], t[2]>> /\ t[2] \in 1..MaxListed
            /\ shake[t] \in InProgress <=> Dialling(t[1]) /\ t[2] = current[t[1]]
            /\ t[2] > current[t[1]] => shake[t] = "none"
        BY DEF Outgoing, Sockets, PeerInv, PeersTypeOK, InProgress
      <4>2. t[1] = s[1] /\ t[2] = s[2] => t = s
        BY <3>1, <4>1
      <4> QED
        BY <1>1, <3>1, <4>1, <4>2, PeersAssumption DEF InProgress
    <3>5. GoesOn(s[1], listed[s[1]], s[2] + 1, phases)
      BY <1>1, <3>1, <3>2, <3>3, <3>4 DEF GoesOn
    <3>6. PhasesFollow(phases)
      BY <3>1, <3>3, <3>5, Dialled
    <3>7. listening' = {t \in Incoming : shake'[t] = "over"}
      BY <1>1, <2>2, <3>2, <3>6 DEF PhasesFollow, PeerInv, PeersTypeOK, Sockets
    <3> QED
      BY <3>6, <3>7
  <2> QED
    BY <2>1, <2>2
<1>3. PeersTypeOK'
  BY <1>1, <1>2 DEF PhasesFollow, PeerInv, PeersTypeOK, InProgress, Sockets, Opened
<1>4. \A t \in Sockets : shake'[t] = "syncing" => t \in peers'
  BY <1>1, <1>2 DEF PhasesFollow, PeerInv
<1>5. OpenPeersAreListed'
  BY <1>1, <1>2 DEF PhasesFollow, PeerInv, PeersTypeOK, OpenPeersAreListed, Sockets, Opened
<1>6. DeliveriesOK'
  BY <1>1, <1>2 DEF PhasesFollow, PeerInv, DeliveriesOK, Opened, Sockets
<1> QED
  BY <1>1, <1>2, <1>3, <1>4, <1>5, <1>6 DEF PhasesFollow, PeerInv

LEMMA PeersGiveUp ==
  ASSUME PeerInv, NEW s \in Sockets, shake[s] \in InProgress, GiveUp(s)
  PROVE  PeerInv'
<1>1. HandshakeEnds(s, open \ {s})
  BY DEF GiveUp, HandshakeEnds
<1> QED
  BY <1>1, PeersReturn

LEMMA PeersSync ==
  ASSUME PeerInv, NEW s \in Sockets, SyncChain(s)
  PROVE  PeerInv'
<1>1. HandshakeEnds(s, open)
  BY DEF SyncChain, HandshakeEnds, PeerInv, InProgress
<1> QED
  BY <1>1, PeersReturn

LEMMA PeersConnection ==
  ASSUME PeerInv, NEW s \in Sockets, NEW ready \in BOOLEAN, Connection(s, ready)
  PROVE  PeerInv'
<1>1. \A t \in Outgoing : t # s /\ t \in Sockets
  BY PeersAssumption DEF Connection, Outgoing, Sockets
<1> QED
  BY <1>1 DEF PeerInv, PeersTypeOK, DeliveriesOK, OpenPeersAreListed, Connection, Dialling, tableVars, Sockets

LEMMA PeersResponse ==
  ASSUME PeerInv, NEW s \in Sockets, Response(s)
  PROVE  PeerInv'
<1>1. \A t \in Outgoing : t \in Sockets
  BY DEF Sockets
<1> QED
  BY <1>1 DEF PeerInv, PeersTypeOK, DeliveriesOK, OpenPeersAreListed, Response, Dialling, tableVars, Sockets

LEMMA PeersRegister ==
  ASSUME PeerInv, NEW s \in Sockets, Register(s)
  PROVE  PeerInv'
<1>1. \A t \in Outgoing : t \in Sockets
  BY DEF Sockets
<1> QED
  BY <1>1 DEF PeerInv, PeersTypeOK, DeliveriesOK, OpenPeersAreListed, Register, Dialling, Sockets

LEMMA PeersDisconnect ==
  ASSUME PeerInv, NEW s \in Sockets, Disconnect(s)
  PROVE  PeerInv'
<1>1. /\ open' = open \ {s} /\ UNCHANGED <<shake, listening, listed, current, delivery>>
      /\ \/ /\ s \in listening
            /\ sockets' = sockets \ {s} /\ peers' = peers \ {s}
            /\ peerSessions' = peerSessions \ {s}
         \/ s \notin listening /\ UNCHANGED <<sockets, peers, peerSessions>>
  BY DEF Disconnect, tableVars
<1>2. PeersTypeOK'
  BY <1>1 DEF PeerInv, PeersTypeOK, Dialling
<1>3. DeliveriesOK'
  BY <1>1 DEF PeerInv, DeliveriesOK
<1>4. \A t \in Outgoing : t[2] > current'[t[1]] => shake'[t] = "none"
  BY <1>1 DEF PeerInv
<1>5. \A t \in Sockets : shake'[t] = "syncing" => t \in peers'
  BY <1>1 DEF PeerInv, PeersTypeOK
<1>6. OpenPeersAreListed'
  BY <1>1 DEF PeerInv, OpenPeersAreListed
<1> QED
  BY <1>2, <1>3, <1>4, <1>5, <1>6 DEF PeerInv

LEMMA PeersBroadcast ==
  ASSUME PeerInv, NEW r \in Requests, broadcastTransaction(r),
         \A s \in Sockets : delivery[s][r] = "none"
  PROVE  /\ PeerInv'
         /\ \A s \in Sockets : delivery'[s][r] = IF s \in peers THEN "encrypting" ELSE "none"
         /\ \A s \in Sockets, q \in Requests \ {r} : delivery'[s][q] = delivery[s][q]
<1>1. /\ UNCHANGED <<open, shake, listening, sockets, peers, peerSessions, listed, current>>
      /\ sockets = peers /\ peerSessions = peers /\ peers \subseteq Sockets
      /\ delivery' = [s \in Sockets |->
           IF s \in peers THEN [delivery[s] EXCEPT ![r] = "encrypting"] ELSE delivery[s]]
  BY DEF broadcastTransaction, tableVars, PeerInv, PeersTypeOK
<1>2. /\ delivery' \in [Sockets ->
           [Requests -> {"none", "encrypting", "sent", "rejected", "gone"}]]
      /\ \A s \in Sockets : delivery'[s][r] = IF s \in peers THEN "encrypting" ELSE "none"
      /\ \A s \in Sockets, q \in Requests \ {r} : delivery'[s][q] = delivery[s][q]
  BY <1>1 DEF PeerInv, PeersTypeOK
<1>3. DeliveriesOK'
  BY <1>1, <1>2 DEF PeerInv, PeersTypeOK, DeliveriesOK
<1>4. PeersTypeOK'
  BY <1>1, <1>2 DEF PeerInv, PeersTypeOK, Dialling
<1> QED
  BY <1>1, <1>2, <1>3, <1>4 DEF PeerInv, OpenPeersAreListed

\* A broadcast goes on for one socket.
LEMMA PeersSettle ==
  ASSUME PeerInv, NEW s \in Sockets, NEW r \in Requests, BroadcastStep(s, r)
  PROVE  /\ PeerInv'
         /\ delivery[s][r] = "encrypting"
         /\ \E state \in {"sent", "rejected", "gone"} :
              /\ delivery' = [delivery EXCEPT ![s][r] = state]
              /\ state = "sent" => s \in open
         /\ UNCHANGED <<shake, peers, current, listed>>
<1>1. /\ UNCHANGED <<open, shake, listening, sockets, peers, peerSessions, listed, current>>
      /\ delivery[s][r] = "encrypting"
  BY DEF BroadcastStep, Emit, EncryptionRejects, tableVars
<1>2. PICK state \in {"sent", "rejected", "gone"} :
        /\ delivery' = [delivery EXCEPT ![s][r] = state]
        /\ state = "sent" => s \in open
        /\ state = "gone" => s \notin open
  BY DEF BroadcastStep, Emit, EncryptionRejects
<1>3. /\ delivery' \in [Sockets ->
           [Requests -> {"none", "encrypting", "sent", "rejected", "gone"}]]
      /\ \A t \in Sockets, q \in Requests :
           delivery'[t][q] = IF t = s /\ q = r THEN state ELSE delivery[t][q]
  BY <1>2 DEF PeerInv, PeersTypeOK
<1>4. DeliveriesOK'
  BY <1>1, <1>2, <1>3 DEF PeerInv, DeliveriesOK
<1>5. PeersTypeOK'
  BY <1>1, <1>3 DEF PeerInv, PeersTypeOK, Dialling
<1>6. PeerInv'
  BY <1>1, <1>4, <1>5 DEF PeerInv, OpenPeersAreListed
<1> QED
  BY <1>1, <1>2, <1>6

-----------------------------------------------------------------------------
(* The requests.                                                           *)

\* What concerns requests of a step of the peers: what was broadcast stays
\* so, main() is not begun again, and its sockets become peers no more.
MainRests ==
  /\ delivery' = delivery
  /\ current[Main] > listed[Main] =>
       /\ current'[Main] > listed'[Main]
       /\ \A s \in Outgoing : s[1] = Main /\ s \in peers' => s \in peers

LEMMA DialRests ==
  ASSUME PeerInv, NEW d \in Diallers, NEW length \in 0..MaxListed,
         StartDialling(d, length)
  PROVE  MainRests
<1>1. /\ delivery' = delivery /\ peers' = peers
      /\ current[d] = 0
      /\ \E next : current' = [current EXCEPT ![d] = next]
      /\ listed' = [listed EXCEPT ![d] = length]
  BY DEF StartDialling, tableVars, Dial
<1>2. /\ Main \in Diallers
      /\ listed \in [Diallers -> Nat] /\ current \in [Diallers -> Nat]
  BY NodeAssumption, PeersAssumption DEF PeerInv, PeersTypeOK
<1>3. current[Main] > listed[Main] => d # Main
  BY <1>1, <1>2
<1> QED
  BY <1>1, <1>2, <1>3 DEF MainRests

LEMMA ReturnRests ==
  ASSUME PeerInv, NEW s \in Sockets, shake[s] \in InProgress, Return(s),
         UNCHANGED <<tableVars, listed, delivery>>
  PROVE  MainRests
<1>1. s \notin Incoming =>
        /\ s[1] \in Diallers /\ Dialling(s[1])
        /\ \E next : current' = [current EXCEPT ![s[1]] = next]
  BY DEF Return, Dial, Sockets, Outgoing, PeerInv, PeersTypeOK, InProgress
<1>2. s \in Incoming => UNCHANGED current
  BY DEF Return
<1>3. /\ Main \in Diallers
      /\ listed \in [Diallers -> Nat] /\ current \in [Diallers -> Nat]
      /\ UNCHANGED <<peers, listed, delivery>>
  BY NodeAssumption, PeersAssumption DEF PeerInv, PeersTypeOK, tableVars
<1>4. current[Main] > listed[Main] => ~Dialling(Main)
  BY <1>3 DEF Dialling
<1>5. current[Main] > listed[Main] => current'[Main] = current[Main]
  BY <1>1, <1>2, <1>3, <1>4
<1> QED
  BY <1>3, <1>5 DEF MainRests

\* A socket of main() that is registered is one main() is dialling.
LEMMA RegisterRests ==
  ASSUME PeerInv, NEW s \in Sockets, Register(s)
  PROVE  MainRests
<1>1. /\ UNCHANGED <<listed, current, delivery>>
      /\ peers' = peers \cup {s}
      /\ shake[s] = "deriving"
  BY DEF Register
<1>2. s \in Outgoing => Dialling(s[1])
  BY <1>1 DEF PeerInv, PeersTypeOK
<1>3. s \in Outgoing /\ current[Main] > listed[Main] => s[1] # Main
  BY <1>2, NodeAssumption, PeersAssumption DEF PeerInv, PeersTypeOK, Dialling
<1> QED
  BY <1>1, <1>3 DEF MainRests

\* A step of a socket keeps the invariant of the peers, and lets main() rest.
LEMMA PeersStep ==
  ASSUME PeerInv, NEW s \in Sockets, PeerStep(s)
  PROVE  PeerInv' /\ MainRests
<1>1. CASE Connection(s, Started)
  <2>1. Started \in BOOLEAN
    BY DEF Started
  <2>2. PeerInv'
    BY <1>1, <2>1, PeersConnection
  <2> QED
    BY <1>1, <2>2 DEF Connection, MainRests, tableVars
<1>2. CASE Response(s)
  BY <1>2, PeersResponse DEF Response, MainRests, tableVars
<1>3. CASE OtherMessage(s)
  <2>1. shake[s] \in InProgress /\ GiveUp(s)
    BY <1>3 DEF OtherMessage, InProgress
  <2> QED
    BY <2>1, PeersGiveUp, ReturnRests DEF GiveUp
<1>4. CASE Register(s)
  BY <1>4, PeersRegister, RegisterRests
<1>5. CASE KyberFails(s)
  <2>1. shake[s] \in InProgress /\ GiveUp(s)
    BY <1>5 DEF KyberFails, InProgress
  <2> QED
    BY <2>1, PeersGiveUp, ReturnRests DEF GiveUp
<1>6. CASE SyncChain(s)
  <2>1. shake[s] \in InProgress
    BY <1>6 DEF SyncChain, InProgress
  <2> QED
    BY <1>6, <2>1, PeersSync, ReturnRests DEF SyncChain
<1>7. CASE Disconnect(s)
  <2>1. MainRests
    BY <1>7 DEF Disconnect, MainRests, tableVars
  <2> QED
    BY <1>7, <2>1, PeersDisconnect
<1>8. CASE \E d \in Diallers \ {Main}, length \in 0..MaxListed : handlePeerList(s, d, length)
  BY <1>8, PeersDial, DialRests DEF handlePeerList
<1> QED
  BY <1>1, <1>2, <1>3, <1>4, <1>5, <1>6, <1>7, <1>8 DEF PeerStep

\* What is encrypted for a socket concerns no other, and no request.
LEMMA RequestsSettle ==
  ASSUME PeerInv, RequestInv, NEW s \in Sockets, NEW r \in Requests, BroadcastStep(s, r)
  PROVE  RequestInv'
<1>1. PICK state \in {"sent", "rejected", "gone"} :
        delivery' = [delivery EXCEPT ![s][r] = state]
  BY PeersSettle
<1>2. /\ delivery[s][r] = "encrypting"
      /\ UNCHANGED <<peers, current, listed, transactions, withdrawn, now, api, requests>>
  BY PeersSettle DEF BroadcastStep, poolVars
<1>3. \A t \in Sockets, q \in Requests :
        delivery'[t][q] = IF t = s /\ q = r THEN state ELSE delivery[t][q]
  BY <1>1 DEF PeerInv, PeersTypeOK
<1>4. NothingEarly'
  BY <1>2, <1>3 DEF RequestInv, NothingEarly
<1>5. BroadcastBegun'
  BY <1>2, <1>3 DEF RequestInv, BroadcastBegun, Sockets
<1>6. AcceptedStays'
  BY <1>2 DEF RequestInv, AcceptedStays
<1> QED
  BY <1>2, <1>4, <1>5, <1>6 DEF RequestInv, HasTransaction

LEMMA RequestsRest ==
  ASSUME RequestInv, MainRests, UNCHANGED <<poolVars, api, requests>>
  PROVE  RequestInv'
<1>1. BroadcastBegun' /\ NothingEarly'
  BY DEF RequestInv, MainRests, BroadcastBegun, NothingEarly
<1>2. AcceptedStays'
  BY DEF RequestInv, AcceptedStays, poolVars
<1> QED
  BY <1>1, <1>2 DEF RequestInv, MainRests, HasTransaction, poolVars

\* A step of the pool alone loses no accepted transaction that it does not
\* withdraw or that is not old.
LEMMA RequestsKept ==
  ASSUME PoolInv, RequestInv, UNCHANGED <<peerVars, api, requests>>,
         now =< now', now' \in Nat,
         \A tx \in DOMAIN transactions :
           tx \in DOMAIN transactions' \cup withdrawn'
             \/ now - transactions[tx] > maxTransactionAge,
         withdrawn \subseteq withdrawn'
  PROVE  RequestInv'
<1>1. BroadcastBegun' /\ NothingEarly'
  BY DEF RequestInv, BroadcastBegun, NothingEarly, peerVars, tableVars
<1>2. ASSUME NEW r \in Requests, HasTransaction(r)
      PROVE  /\ requests[r].transaction \in Transactions
             /\ requests[r].transaction.timestamp \in Nat
             /\ requests[r].transaction.timestamp =< now
  <2>1. requests[r].transaction \in Transactions
    BY <1>2 DEF RequestInv, RequestTypes, HasTransaction
  <2> QED
    BY <1>2, <2>1 DEF RequestInv, Transactions
<1>3. /\ now \in Nat /\ maxTransactionAge \in Nat
      /\ \A tx \in DOMAIN transactions :
           transactions[tx] \in Nat /\ tx.timestamp =< transactions[tx]
  BY MempoolAssumption DEF PoolInv, PoolTypeOK
<1>4. AcceptedStays'
  <2> SUFFICES ASSUME NEW r \in Requests, requests[r].at = "accepted"
               PROVE  \/ requests[r].transaction \in DOMAIN transactions' \cup withdrawn'
                      \/ now' - requests[r].transaction.timestamp > maxTransactionAge
    BY DEF AcceptedStays
  <2> DEFINE tx == requests[r].transaction
  <2>1. tx.timestamp \in Nat
    BY <1>2 DEF HasTransaction
  <2>2. tx \in DOMAIN transactions \cup withdrawn \/ now - tx.timestamp > maxTransactionAge
    BY DEF RequestInv, AcceptedStays
  <2> QED
    BY <1>3, <2>1, <2>2
<1>5. \A r \in Requests : HasTransaction(r)' => requests'[r].transaction.timestamp =< now'
  BY <1>2, <1>3 DEF HasTransaction
<1> QED
  BY <1>1, <1>4, <1>5 DEF RequestInv, peerVars

LEMMA PoolSteps ==
  ASSUME PoolInv, RequestInv, PoolStep
  PROVE  PoolInv' /\ RequestInv'
<1>0. /\ UNCHANGED <<peerVars, api, requests>>
      /\ now \in Nat /\ withdrawn \subseteq Transactions
      /\ DOMAIN transactions \subseteq Transactions
  BY MempoolAssumption DEF PoolStep, PoolInv, PoolTypeOK
<1>1. CASE removeOldTransactions
  <2>1. PoolInv'
    BY <1>0, <1>1, PoolTaken DEF removeOldTransactions
  <2>2. \A tx \in DOMAIN transactions :
          tx \in DOMAIN transactions' \/ now - transactions[tx] > maxTransactionAge
    BY <1>1 DEF removeOldTransactions, Without, Restrict, Old
  <2> QED
    BY <1>0, <1>1, <2>1, <2>2, RequestsKept DEF removeOldTransactions
<1>2. ASSUME NEW set \in SUBSET DOMAIN transactions, removeConfirmedTransactions(set)
      PROVE  PoolInv' /\ RequestInv'
  <2>1. withdrawn' = withdrawn \cup set /\ now' = now
    BY <1>2 DEF removeConfirmedTransactions
  <2>2. PoolInv'
    BY <1>0, <1>2, <2>1, PoolTaken DEF removeConfirmedTransactions
  <2>3. \A tx \in DOMAIN transactions : tx \in DOMAIN transactions' \cup withdrawn'
    BY <1>2, <2>1 DEF removeConfirmedTransactions, Without, Restrict
  <2> QED
    BY <1>0, <2>1, <2>2, <2>3, RequestsKept
<1>3. ASSUME NEW set \in SUBSET DOMAIN transactions, cleanMempool(set)
      PROVE  PoolInv' /\ RequestInv'
  <2>1. \E invalid \in SUBSET DOMAIN transactions : removeConfirmedTransactions(invalid)
    BY <1>3 DEF cleanMempool
  <2> QED
    BY <1>2, <2>1
<1>4. CASE Tick
  <2>1. PoolInv'
    BY <1>4, PoolAges
  <2>2. now' = now + 1 /\ UNCHANGED <<transactions, withdrawn>>
    BY <1>4 DEF Tick
  <2> QED
    BY <1>0, <2>1, <2>2, RequestsKept
<1> QED
  BY <1>1, <1>2, <1>3, <1>4 DEF PoolStep

LEMMA RequestSteps ==
  ASSUME IInv, NEW r \in Requests,
         \/ \E payment \in Payments : createTransaction(r, payment)
         \/ SignTransaction(r)
         \/ RefuseTransaction(r)
  PROVE  IInv'
<1>0. /\ UNCHANGED <<poolVars, peerVars, api>>
      /\ UNCHANGED <<transactions, withdrawn, now, peers, delivery, current, listed>>
  BY DEF createTransaction, SignTransaction, RefuseTransaction, poolVars, peerVars, tableVars
<1>1. \E value \in RequestTypes :
        /\ requests' = [requests EXCEPT ![r] = value]
        /\ value.at # "accepted" /\ requests[r].at # "accepted"
        /\ value.at \in {"signing", "accepted"} => value.transaction.timestamp = now
        /\ api = "up"
  <2>1. CASE \E payment \in Payments : createTransaction(r, payment)
    <3>1. PICK payment \in Payments : createTransaction(r, payment)
      BY <2>1
    <3> DEFINE value == [at |-> "deriving", payment |-> payment]
    <3>2. value \in RequestTypes /\ value.at = "deriving"
      BY DEF RequestTypes
    <3>3. /\ requests' = [requests EXCEPT ![r] = value] /\ api = "up"
          /\ requests[r].at # "accepted"
      BY <3>1 DEF createTransaction
    <3> HIDE DEF value
    <3> QED
      BY <3>2, <3>3
  <2>2. CASE SignTransaction(r)
    <3> DEFINE value == [at |-> "signing",
                         transaction |-> [payment |-> requests[r].payment, timestamp |-> now]]
    <3>1. requests[r].payment \in Payments /\ now \in Nat
      BY <2>2 DEF SignTransaction, IInv, RequestInv, RequestTypes, PoolInv, PoolTypeOK
    <3>2. value \in RequestTypes
      BY <3>1 DEF RequestTypes, Transactions
    <3>3. /\ requests' = [requests EXCEPT ![r] = value] /\ api = "up"
          /\ requests[r].at # "accepted"
      BY <2>2 DEF SignTransaction, IInv, RequestInv
    <3> QED
      BY <3>2, <3>3
  <2>3. CASE RefuseTransaction(r)
    <3> DEFINE value == [at |-> "refused"]
    <3>1. value \in RequestTypes
      BY DEF RequestTypes
    <3>2. requests' = [requests EXCEPT ![r] = value] /\ requests[r].at # "accepted"
      BY <2>3 DEF RefuseTransaction
    <3>3. api = "up"
      BY <2>3 DEF RefuseTransaction, IInv, RequestInv
    <3>4. value.at = "refused"
      OBVIOUS
    <3> HIDE DEF value
    <3> QED
      BY <3>1, <3>2, <3>3, <3>4
  <2> QED
    BY <2>1, <2>2, <2>3
<1>2. PICK value \in RequestTypes :
        /\ requests' = [requests EXCEPT ![r] = value]
        /\ value.at # "accepted" /\ requests[r].at # "accepted"
        /\ value.at \in {"signing", "accepted"} => value.transaction.timestamp = now
        /\ api = "up"
  BY <1>1
<1>3. PoolInv'
  BY <1>0 DEF IInv, PoolInv, PoolTypeOK, OverflowIsYoung
<1>4. PeerInv'
  BY <1>0 DEF IInv, PeerInv, PeersTypeOK, DeliveriesOK, OpenPeersAreListed, peerVars,
              tableVars, Dialling
<1>5. \A q \in Requests : requests'[q] = IF q = r THEN value ELSE requests[q]
  BY <1>2 DEF IInv, RequestInv
<1>6. AcceptedStays' /\ BroadcastBegun' /\ NothingEarly'
  BY <1>0, <1>2, <1>5 DEF IInv, RequestInv, AcceptedStays, BroadcastBegun, NothingEarly
<1>7. requests' \in [Requests -> RequestTypes]
  BY <1>2 DEF IInv, RequestInv
<1>8. now \in Int
  BY DEF IInv, PoolInv, PoolTypeOK
<1>9. \A q \in Requests : HasTransaction(q)' => requests'[q].transaction.timestamp =< now'
  BY <1>0, <1>2, <1>5, <1>8 DEF IInv, RequestInv, HasTransaction
<1> QED
  BY <1>0, <1>2, <1>3, <1>4, <1>5, <1>6, <1>7, <1>9 DEF IInv, RequestInv

\* The accepted transaction is in the pool; those accepted before are where
\* they were or were old.
LEMMA AcceptSteps ==
  ASSUME IInv, NEW r \in Requests, AcceptTransaction(r)
  PROVE  IInv'
<1> DEFINE tx == requests[r].transaction
<1>1. tx \in Transactions /\ tx.timestamp =< now
  BY DEF AcceptTransaction, IInv, RequestInv, RequestTypes, HasTransaction
<1>2. /\ addTransaction(tx) /\ broadcastTransaction(r)
      /\ requests' = [requests EXCEPT ![r].at = "accepted"]
      /\ requests[r].at = "signing"
      /\ UNCHANGED api
  BY DEF AcceptTransaction
<1> HIDE DEF tx
<1>3. /\ PoolInv'
      /\ tx \in DOMAIN transactions'
      /\ \A h \in DOMAIN transactions :
           now - h.timestamp =< maxTransactionAge => h \in DOMAIN transactions'
      /\ withdrawn' = withdrawn \ {tx} /\ now' = now
  BY <1>1, <1>2, PoolAdded DEF IInv
<1>4. /\ PeerInv'
      /\ \A s \in Sockets : delivery'[s][r] = IF s \in peers THEN "encrypting" ELSE "none"
      /\ \A s \in Sockets, q \in Requests \ {r} : delivery'[s][q] = delivery[s][q]
      /\ peers' = peers /\ current' = current /\ listed' = listed
  <2>1. \A s \in Sockets : delivery[s][r] = "none"
    BY <1>2 DEF IInv, RequestInv, NothingEarly
  <2> QED
    BY <1>2, <2>1, PeersBroadcast DEF IInv, broadcastTransaction, tableVars
<1>5. /\ requests' \in [Requests -> RequestTypes]
      /\ \A q \in Requests : q # r => requests'[q] = requests[q]
      /\ requests'[r].at = "accepted" /\ requests'[r].transaction = tx
  <2>1. requests[r] \in [at : {"signing", "accepted"}, transaction : Transactions]
    BY <1>2 DEF IInv, RequestInv, RequestTypes
  <2>2. [requests[r] EXCEPT !.at = "accepted"] \in [at : {"signing", "accepted"}, transaction : Transactions]
    BY <2>1
  <2> QED
    BY <1>2, <2>1, <2>2 DEF IInv, RequestInv, RequestTypes, tx
<1>6. AcceptedStays'
  <2> SUFFICES ASSUME NEW q \in Requests, requests'[q].at = "accepted"
               PROVE  \/ requests'[q].transaction \in DOMAIN transactions' \cup withdrawn'
                      \/ now' - requests'[q].transaction.timestamp > maxTransactionAge
    BY DEF AcceptedStays
  <2>1. CASE q = r
    BY <1>3, <1>5, <2>1
  <2>2. CASE q # r
    <3>1. /\ requests'[q] = requests[q]
          /\ requests[q].transaction \in Transactions
          /\ \/ requests[q].transaction \in DOMAIN transactions \cup withdrawn
             \/ now - requests[q].transaction.timestamp > maxTransactionAge
      BY <1>5, <2>2 DEF IInv, RequestInv, RequestTypes, AcceptedStays
    <3>2. /\ now \in Int /\ maxTransactionAge \in Int
          /\ requests[q].transaction.timestamp \in Nat
      BY <3>1, MempoolAssumption DEF IInv, PoolInv, PoolTypeOK, Transactions
    <3> QED
      BY <1>3, <3>1, <3>2
  <2> QED
    BY <2>1, <2>2
<1>7. BroadcastBegun' /\ NothingEarly'
  BY <1>4, <1>5 DEF IInv, RequestInv, BroadcastBegun, NothingEarly, Sockets
<1>8. api' = "up"
  BY <1>2 DEF IInv, RequestInv
<1>9. \A q \in Requests : HasTransaction(q)' => requests'[q].transaction.timestamp =< now'
  BY <1>1, <1>3, <1>5 DEF IInv, RequestInv, HasTransaction
<1> QED
  BY <1>2, <1>3, <1>4, <1>5, <1>6, <1>7, <1>8, <1>9 DEF IInv, RequestInv

-----------------------------------------------------------------------------

LEMMA InvInit == Init => IInv
<1> SUFFICES ASSUME Init PROVE IInv
  OBVIOUS
<1> USE MempoolAssumption, PeersAssumption, NodeAssumption DEF Init, PoolInit, PeersInit
<1>1. DOMAIN transactions = {}
  OBVIOUS
<1>2. PoolInv
  BY <1>1, FS_EmptySet DEF PoolInv, PoolTypeOK, OverflowIsYoung
<1>3. PeerInv
  BY DEF PeerInv, PeersTypeOK, DeliveriesOK, OpenPeersAreListed, Outgoing, Sockets, Dialling
<1>4. RequestInv
  BY DEF RequestInv, RequestTypes, HasTransaction, AcceptedStays, BroadcastBegun, NothingEarly,
         Outgoing, Sockets
<1> QED
  BY <1>2, <1>3, <1>4 DEF IInv

LEMMA InvNext == IInv /\ [Next]_vars => IInv'
<1> SUFFICES ASSUME IInv, [Next]_vars PROVE IInv'
  OBVIOUS
<1>1. CASE UNCHANGED vars
  <2>1. UNCHANGED <<transactions, withdrawn, now, open, shake, listening, sockets, peers,
                    peerSessions, listed, current, delivery, api, requests>>
    BY <1>1 DEF vars, poolVars, peerVars, tableVars
  <2>2. PoolInv'
    BY <2>1 DEF IInv, PoolInv, PoolTypeOK, OverflowIsYoung
  <2>3. PeerInv'
    BY <2>1 DEF IInv, PeerInv, PeersTypeOK, DeliveriesOK, OpenPeersAreListed, Dialling
  <2>4. RequestInv'
    BY <2>1 DEF IInv, RequestInv, HasTransaction, AcceptedStays, BroadcastBegun,
                   NothingEarly
  <2> QED
    BY <2>2, <2>3, <2>4 DEF IInv
<1>2. ASSUME PeerInv', MainRests, UNCHANGED <<poolVars, api, requests>>
      PROVE  IInv'
  <2>1. PoolInv'
    BY <1>2 DEF IInv, PoolInv, PoolTypeOK, OverflowIsYoung, poolVars
  <2> QED
    BY <1>2, <2>1, RequestsRest DEF IInv
<1>3. CASE ConnectToInitialPeers
  <2>1. PeerInv' /\ MainRests
    BY <1>3, PeersDial, DialRests, NodeAssumption DEF ConnectToInitialPeers, IInv
  <2> QED
    BY <1>2, <1>3, <2>1 DEF ConnectToInitialPeers
<1>4. CASE StartAPI
  <2>1. UNCHANGED <<transactions, withdrawn, now, open, shake, listening, sockets, peers,
                    peerSessions, listed, current, delivery, requests>>
    BY <1>4 DEF StartAPI, poolVars, peerVars, tableVars
  <2>2. PoolInv'
    BY <2>1 DEF IInv, PoolInv, PoolTypeOK, OverflowIsYoung
  <2>3. PeerInv'
    BY <2>1 DEF IInv, PeerInv, PeersTypeOK, DeliveriesOK, OpenPeersAreListed, Dialling
  <2>4. api' = "up" /\ current[Main] > listed[Main]
    BY <1>4, NodeAssumption, PeersAssumption
       DEF StartAPI, Started, Dialling, IInv, PeerInv, PeersTypeOK
  <2>5. RequestInv'
    BY <2>1, <2>4 DEF IInv, RequestInv, HasTransaction, AcceptedStays, BroadcastBegun,
                   NothingEarly
  <2> QED
    BY <2>2, <2>3, <2>5 DEF IInv
<1>5. ASSUME NEW d \in Diallers, addPeer(d)
      PROVE  IInv'
  <2>1. 1 \in 0..MaxListed
    BY PeersAssumption
  <2>2. PeerInv' /\ MainRests
    BY <1>5, <2>1, PeersDial, DialRests DEF addPeer, IInv
  <2> QED
    BY <1>2, <1>5, <2>2 DEF addPeer
<1>6. ASSUME NEW s \in Sockets, PeerStep(s)
      PROVE  IInv'
  <2>1. PeerInv' /\ MainRests
    BY <1>6, PeersStep DEF IInv
  <2> QED
    BY <1>2, <1>6, <2>1 DEF PeerStep
<1>7. CASE PoolStep
  <2>1. PoolInv' /\ RequestInv'
    BY <1>7, PoolSteps DEF IInv
  <2>2. PeerInv'
    BY <1>7 DEF PoolStep, IInv, PeerInv, PeersTypeOK, DeliveriesOK, OpenPeersAreListed,
                Dialling, peerVars, tableVars
  <2> QED
    BY <2>1, <2>2 DEF IInv
<1>8. ASSUME NEW s \in Sockets, NEW r \in Requests, BroadcastStep(s, r)
      PROVE  IInv'
  <2>1. PoolInv'
    BY <1>8 DEF BroadcastStep, IInv, PoolInv, PoolTypeOK, OverflowIsYoung, poolVars
  <2> QED
    BY <1>8, <2>1, PeersSettle, RequestsSettle DEF IInv
<1> QED
  BY <1>1, <1>3, <1>4, <1>5, <1>6, <1>7, <1>8, RequestSteps, AcceptSteps DEF Next

LEMMA InvAlways == Spec => []IInv
BY InvInit, InvNext, PTL DEF Spec

\* The state of the node is well-formed, whatever peers do (index.js with its
\* pool, its connections and its requests).
THEOREM ServersTypeCorrect == Spec => []TypeOK
<1>1. IInv => TypeOK
  BY DEF IInv, PoolInv, PeerInv, RequestInv, RequestTypes, TypeOK
<1> QED
  BY <1>1, InvAlways, PTL

\* A pool above its limit holds only transactions that arrived within one
\* maximal age (addTransaction, which evicts once and then adds).
THEOREM OverflowStaysYoung == Spec => []OverflowIsYoung
<1>1. IInv => OverflowIsYoung
  BY DEF IInv, PoolInv
<1> QED
  BY <1>1, InvAlways, PTL

\* A transaction the API accepted is pooled for a maximal age or removed by
\* name (createTransaction, which ignores what addTransaction returns).
THEOREM AcceptedTransactionsStay == Spec => []AcceptedStays
<1>1. IInv => AcceptedStays
  BY DEF IInv, RequestInv
<1> QED
  BY <1>1, InvAlways, PTL

\* Every connection past its handshake is listed as a peer, however it went
\* (initializeSecureSession, handleDisconnect).
THEOREM OpenPeersStayListed == Spec => []OpenPeersAreListed
<1>1. IInv => OpenPeersAreListed
  BY DEF IInv, PeerInv
<1> QED
  BY <1>1, InvAlways, PTL

\* To an initial peer every accepted transaction was broadcast: it is encrypted
\* for it or was sent, unless its own encryption rejected or it has gone (main(),
\* which connects to them before the API listens; broadcastMessage, which
\* catches a rejection for each peer on its own).
THEOREM InitialPeersMissNothing == Spec => []InitialPeersAreOffered
<1>1. IInv => InitialPeersAreOffered
  <2> SUFFICES ASSUME IInv, NEW s \in Outgoing, NEW r \in Requests,
                      s[1] = Main, s \in peers, requests[r].at = "accepted"
               PROVE  delivery[s][r] \in {"encrypting", "sent", "rejected"}
                                           \cup (IF s \in open THEN {} ELSE {"gone"})
    BY DEF InitialPeersAreOffered
  <2>1. delivery[s][r] # "none"
    BY DEF IInv, RequestInv, BroadcastBegun
  <2>2. s \in Sockets
    BY DEF Sockets
  <2>3. delivery[s][r] = "gone" => s \notin open
    BY <2>2 DEF IInv, PeerInv, DeliveriesOK
  <2>4. delivery[s][r] \in {"none", "encrypting", "sent", "rejected", "gone"}
    BY <2>2 DEF IInv, PeerInv, PeersTypeOK
  <2> QED
    BY <2>1, <2>3, <2>4
<1> QED
  BY <1>1, InvAlways, PTL

-----------------------------------------------------------------------------
(* Every handshake ends or waits for its peer for ever.                    *)

\* The handshake of s is over, and whoever dialled s is at a later address.
Done(s) ==
  /\ shake[s] = "over"
  /\ s \in Outgoing => current[s[1]] > s[2]

\* A handshake under way is where it was, or in its next phase, or over.
Advances(s) ==
  \/ shake'[s] = shake[s]
  \/ shake[s] = "waiting" /\ shake'[s] = "deriving"
  \/ shake[s] = "deriving" /\ shake'[s] = "syncing"
  \/ Done(s)'

\* What the invariant says of the sockets dialled.
LEMMA OneAtATime ==
  ASSUME PeerInv, NEW s \in Outgoing
  PROVE  /\ s \in Sockets /\ s \notin Incoming
         /\ s[1] \in Diallers /\ s[2] \in 1..MaxListed /\ s = <<s[1], s[2]>>
         /\ current[s[1]] \in Nat
         /\ shake[s] \in InProgress => s[2] = current[s[1]]
BY PeersAssumption DEF PeerInv, PeersTypeOK, Outgoing, Sockets, InProgress

LEMMA DialAdvances ==
  ASSUME PeerInv, NEW s \in Sockets, shake[s] \in InProgress,
         NEW d \in Diallers, NEW length \in 0..MaxListed,
         StartDialling(d, length)
  PROVE  shake'[s] = shake[s]
<1>1. PICK next \in 1..(length + 1) :
        shake' = [r \in Sockets |-> IF next =< length /\ r = <<d, next>>
                                    THEN "waiting" ELSE shake[r]]
  BY DEF StartDialling, Dial
<1>2. s # <<d, next>>
  <2>1. CASE s \in Incoming
    BY <2>1, PeersAssumption
  <2>2. CASE s \in Outgoing
    <3>1. current[s[1]] # 0
      BY <2>2, OneAtATime
    <3>2. current[d] = 0
      BY DEF StartDialling
    <3>3. QED
      BY <3>1, <3>2
  <2>3. QED
    BY <2>1, <2>2 DEF Sockets
<1>3. QED
  BY <1>1, <1>2

\* When a handshake returns it is over, and the others are where they were.
LEMMA ReturnAdvances ==
  ASSUME PeerInv, NEW s \in Sockets, shake[s] \in InProgress,
         NEW t \in Sockets, shake[t] \in InProgress, Return(t)
  PROVE  IF s = t THEN Done(s)' ELSE shake'[s] = shake[s]
<1> DEFINE phases == [shake EXCEPT ![t] = "over"]
<1>1. /\ shake \in [Sockets -> {"none", "over"} \cup InProgress]
      /\ phases[s] = IF s = t THEN "over" ELSE shake[s]
  BY DEF PeerInv, PeersTypeOK, InProgress
<1> HIDE DEF phases
<1>2. CASE t \in Incoming
  <2>1. shake' = phases
    BY <1>2 DEF Return, phases
  <2>2. t \notin Outgoing
    BY <1>2, OneAtATime
  <2>3. QED
    BY <1>1, <2>1, <2>2 DEF Done
<1>3. CASE t \notin Incoming
  <2>1. t \in Outgoing
    BY <1>3 DEF Sockets
  <2>2. /\ t[1] \in Diallers /\ t[2] \in Nat
        /\ t = <<t[1], t[2]>> /\ t[2] = current[t[1]]
    BY <2>1, OneAtATime
  <2>3. PICK next \in (t[2] + 1)..(listed[t[1]] + 1) :
          /\ current' = [current EXCEPT ![t[1]] = next]
          /\ shake' = [r \in Sockets |->
                         IF next =< listed[t[1]] /\ r = <<t[1], next>>
                         THEN "waiting" ELSE phases[r]]
    BY <1>3 DEF Return, Dial, phases
  <2>4. listed[t[1]] \in Nat /\ next > t[2] /\ current \in [Diallers -> Nat]
    BY <2>2, PeersAssumption DEF PeerInv, PeersTypeOK
  <2>5. s # <<t[1], next>>
    <3>1. ASSUME s = <<t[1], next>> PROVE FALSE
      <4>1. s \in Outgoing
        BY <3>1, <2>2, PeersAssumption DEF Sockets
      <4>2. s[1] = t[1] /\ s[2] = next
        BY <3>1
      <4>3. QED
        BY <2>2, <2>4, <4>1, <4>2, OneAtATime
    <3>2. QED
      BY <3>1
  <2>6. shake'[s] = phases[s]
    BY <2>3, <2>5
  <2>7. current'[t[1]] = next
    BY <2>2, <2>3, <2>4
  <2>8. QED
    BY <1>1, <2>4, <2>6, <2>7 DEF Done
<1>4. QED
  BY <1>2, <1>3

\* No step of the node sends a handshake back.
LEMMA HandshakesOnlyAdvance ==
  ASSUME PeerInv, [Next]_vars, NEW s \in Sockets, shake[s] \in InProgress
  PROVE  Advances(s)
<1>1. ASSUME NEW d \in Diallers, NEW length \in 0..MaxListed,
             StartDialling(d, length)
      PROVE  Advances(s)
  BY <1>1, DialAdvances DEF Advances
<1>2. ASSUME NEW t \in Sockets, shake[t] \in InProgress, Return(t)
      PROVE  Advances(s)
  BY <1>2, ReturnAdvances DEF Advances
<1>3. ASSUME NEW t \in Sockets, PeerStep(t)
      PROVE  Advances(s)
  <2>1. CASE Connection(t, Started)
    BY <2>1 DEF Connection, Advances, InProgress, PeerInv, PeersTypeOK
  <2>2. CASE Response(t)
    BY <2>2 DEF Response, Advances, PeerInv, PeersTypeOK
  <2>3. CASE Register(t)
    BY <2>3 DEF Register, Advances, PeerInv, PeersTypeOK
  <2>4. CASE OtherMessage(t) \/ KyberFails(t) \/ SyncChain(t)
    BY <2>4, <1>2 DEF OtherMessage, KyberFails, SyncChain, GiveUp, InProgress
  <2>5. CASE Disconnect(t)
    BY <2>5 DEF Disconnect, Advances
  <2>6. CASE \E d \in Diallers \ {Main}, length \in 0..MaxListed : handlePeerList(t, d, length)
    BY <2>6, <1>1 DEF handlePeerList
  <2>7. QED
    BY <1>3, <2>1, <2>2, <2>3, <2>4, <2>5, <2>6 DEF PeerStep
<1>4. CASE ConnectToInitialPeers \/ \E d \in Diallers : addPeer(d)
  BY <1>4, <1>1, NodeAssumption, PeersAssumption
     DEF ConnectToInitialPeers, addPeer
<1>5. CASE UNCHANGED shake
  BY <1>5 DEF Advances
<1>6. QED
  BY <1>3, <1>4, <1>5
     DEF Next, StartAPI, createTransaction, SignTransaction, RefuseTransaction,
         AcceptTransaction, broadcastTransaction, BroadcastStep, Emit, EncryptionRejects,
         PoolStep, peerVars, vars

\* And what Kyber settles brings it on.
LEMMA SettlingAdvances ==
  ASSUME PeerInv, NEW s \in Sockets, KyberSettles(s)
  PROVE  /\ shake[s] = "deriving" => shake'[s] = "syncing" \/ Done(s)'
         /\ shake[s] = "syncing" => Done(s)'
<1>1. CASE Register(s)
  BY <1>1 DEF Register, PeerInv, PeersTypeOK
<1>2. CASE KyberFails(s) \/ SyncChain(s)
  <2>1. shake[s] \in InProgress /\ Return(s)
    BY <1>2 DEF KyberFails, SyncChain, GiveUp, InProgress
  <2>2. QED
    BY <2>1, ReturnAdvances
<1>3. QED
  BY <1>1, <1>2 DEF KyberSettles

EndsOrIsSilent(s) ==
  shake[s] \in InProgress ~> (Done(s) \/ [](shake[s] = "waiting"))

\* The premise of what follows, for ENABLED cannot be reasoned about: a
\* handshake past its first message has a step to take. It does by the form of
\* Register, KyberFails and SyncChain.
HandshakesCanProceed ==
  \A s \in Sockets :
    shake[s] \in {"deriving", "syncing"} => ENABLED <<KyberSettles(s)>>_vars

\* Every handshake, of a peer that came or of one that was dialled, comes to
\* its end, or its peer is silent for ever; given that a handshake past its
\* first message always has a step to take. What peers, the network, other
\* handshakes, requests and the pool do meanwhile holds none up.
THEOREM HandshakesEnd ==
  ASSUME NEW s \in Sockets
  PROVE  FairSpec /\ []HandshakesCanProceed => EndsOrIsSilent(s)
<1>1. shake[s] \in InProgress
        => shake[s] = "waiting" \/ shake[s] = "deriving" \/ shake[s] = "syncing"
  BY DEF InProgress
<1>2. PeerInv /\ [Next]_vars
        => /\ shake[s] = "waiting"
                => (shake[s] = "waiting")' \/ (shake[s] = "deriving")' \/ Done(s)'
           /\ shake[s] = "deriving"
                => (shake[s] = "deriving")' \/ (shake[s] = "syncing")' \/ Done(s)'
           /\ shake[s] = "syncing" => (shake[s] = "syncing")' \/ Done(s)'
  BY HandshakesOnlyAdvance DEF InProgress, Advances
<1>3. PeerInv /\ <<KyberSettles(s)>>_vars
        => /\ shake[s] = "deriving" => (shake[s] = "syncing")' \/ Done(s)'
           /\ shake[s] = "syncing" => Done(s)'
  BY SettlingAdvances
<1>4. HandshakesCanProceed /\ (shake[s] = "deriving" \/ shake[s] = "syncing")
        => ENABLED <<KyberSettles(s)>>_vars
  BY DEF HandshakesCanProceed
<1>5. FairSpec => []PeerInv
  <2>1. IInv => PeerInv
    BY DEF IInv
  <2>2. QED
    BY <2>1, InvInit, InvNext, PTL DEF FairSpec, Spec
<1>6. FairSpec => [][Next]_vars
  BY PTL DEF FairSpec, Spec
<1>7. (\A t \in Sockets : SocketIsServed(t)) => SocketIsServed(s)
  OBVIOUS
<1>8. FairSpec => SocketIsServed(s)
  BY <1>7, PTL DEF FairSpec
<1>9. SocketIsServed(s) => WF_vars(KyberSettles(s))
  BY PTL DEF SocketIsServed
<1>10. QED
  BY <1>1, <1>2, <1>3, <1>4, <1>5, <1>6, <1>8, <1>9, PTL DEF EndsOrIsSilent

\* Whoever is at an address, of however long a list, leaves it behind or
\* waits at it for ever for a peer that does not say a word.
THEOREM NoAddressBlocks ==
  ASSUME NEW d \in Diallers, NEW n \in 1..MaxListed
  PROVE  FairSpec /\ []HandshakesCanProceed
           => (Dialling(d) /\ current[d] = n ~> (current[d] > n \/ []Silent(d)))
<1>1. <<d, n>> \in Sockets
  BY DEF Outgoing, Sockets
<1>2. PeerInv => /\ Dialling(d) /\ current[d] = n => shake[<<d, n>>] \in InProgress
                 /\ shake[<<d, n>>] = "waiting" => Silent(d)
                 /\ Done(<<d, n>>) => current[d] > n
  BY DEF PeerInv, PeersTypeOK, Outgoing, Sockets, InProgress, Silent, Done
<1>3. FairSpec => []PeerInv
  <2>1. IInv => PeerInv
    BY DEF IInv
  <2>2. QED
    BY <2>1, InvAlways, PTL DEF FairSpec
<1>4. FairSpec /\ []HandshakesCanProceed => EndsOrIsSilent(<<d, n>>)
  BY <1>1, HandshakesEnd
<1>5. QED
  BY <1>2, <1>3, <1>4, PTL DEF EndsOrIsSilent

\* So of whoever dials a list of one address (the API's addPeer) or of two.
\* A longer list takes an induction over its addresses, each of which is
\* left behind for a later one.
THEOREM OnlySilenceBlocksShortLists ==
  ASSUME MaxListed =< 2
  PROVE  FairSpec /\ []HandshakesCanProceed => OnlySilenceBlocks
<1> SUFFICES ASSUME NEW d \in Diallers
             PROVE  FairSpec /\ []HandshakesCanProceed
                      => (Dialling(d) ~> (~Dialling(d) \/ []Silent(d)))
  BY DEF OnlySilenceBlocks
<1> DEFINE At(n) == Dialling(d) /\ current[d] = n
           Quiet(n) == shake[<<d, n>>] = "waiting"
<1>1. 1 \in 1..MaxListed /\ (\A n \in 1..MaxListed : n = 1 \/ n = 2)
  BY PeersAssumption
<1>2. ASSUME NEW n \in 1..MaxListed
      PROVE  /\ <<d, n>> \in Sockets
             /\ PeerInv /\ At(n) => shake[<<d, n>>] \in InProgress
             /\ PeerInv /\ Quiet(n) => Silent(d)
             /\ PeerInv /\ Done(<<d, n>>) => current[d] > n
  BY DEF PeerInv, PeersTypeOK, Outgoing, Sockets, InProgress, Silent, Done
<1>3. PeerInv /\ Dialling(d) => current[d] \in 1..MaxListed
  BY PeersAssumption DEF PeerInv, PeersTypeOK, Dialling
<1>4. FairSpec => []PeerInv
  <2>1. IInv => PeerInv
    BY DEF IInv
  <2>2. QED
    BY <2>1, InvAlways, PTL DEF FairSpec
<1>5. FairSpec /\ []HandshakesCanProceed => EndsOrIsSilent(<<d, 1>>)
  BY <1>1, <1>2, HandshakesEnd
<1>6. CASE MaxListed = 1
  <2>1. PeerInv /\ Dialling(d) => At(1)
    BY <1>3, <1>6
  <2>2. PeerInv /\ Done(<<d, 1>>) => ~Dialling(d)
    BY <1>1, <1>2, <1>3, <1>6
  <2>3. /\ PeerInv /\ At(1) => shake[<<d, 1>>] \in InProgress
        /\ PeerInv /\ Quiet(1) => Silent(d)
    BY <1>1, <1>2
  <2>4. QED
    BY <1>4, <1>5, <2>1, <2>2, <2>3, PTL DEF EndsOrIsSilent
<1>7. CASE 2 \in 1..MaxListed
  <2>1. PeerInv /\ Dialling(d) => At(1) \/ At(2)
    BY <1>1, <1>3
  <2>2. FairSpec /\ []HandshakesCanProceed => EndsOrIsSilent(<<d, 2>>)
    BY <1>2, <1>7, HandshakesEnd
  <2>3. /\ PeerInv /\ Done(<<d, 1>>) => ~Dialling(d) \/ At(2)
        /\ PeerInv /\ Done(<<d, 2>>) => ~Dialling(d)
    BY <1>1, <1>2, <1>3, <1>7
  <2>4. /\ PeerInv /\ At(1) => shake[<<d, 1>>] \in InProgress
        /\ PeerInv /\ At(2) => shake[<<d, 2>>] \in InProgress
        /\ PeerInv /\ Quiet(1) => Silent(d)
        /\ PeerInv /\ Quiet(2) => Silent(d)
    BY <1>1, <1>2, <1>7
  <2>5. QED
    BY <1>4, <1>5, <2>1, <2>2, <2>3, <2>4, PTL DEF EndsOrIsSilent
<1>8. MaxListed = 1 \/ 2 \in 1..MaxListed
  BY PeersAssumption
<1>9. QED
  BY <1>6, <1>7, <1>8
-----------------------------------------------------------------------------
(* The node as its neighbours see it.                                      *)

\* Gossip's step of one neighbour, in the words of this module.
Moves(s) ==
  \/ Stage(s) = "stranger" /\ Stage(s)' = "guest"
  \/ Stage(s) = "guest" /\ Stage(s)' = "peer"
  \/ Stage(s) \in {"guest", "peer"} /\ Stage(s)' = "gone"
  \/ Stage(s)' = Stage(s)

\* As long as the table of peers is left alone, a neighbour moves with its
\* handshake, which begins, goes on or ends.
Passes(s) ==
  \/ shake'[s] = shake[s]
  \/ shake[s] = "none" /\ shake'[s] = "waiting"
  \/ shake[s] = "waiting" /\ shake'[s] = "deriving"
  \/ shake[s] \in InProgress /\ shake'[s] = "over"

LEMMA PassingMoves ==
  ASSUME PeerInv, UNCHANGED peers, NEW s \in Sockets, Passes(s)
  PROVE  Moves(s)
<1>1. s \in peers => shake[s] \in {"syncing", "over"}
  BY DEF PeerInv, PeersTypeOK
<1>2. QED
  BY <1>1 DEF Passes, Moves, Stage, InProgress

\* Whoever dials reaches a fresh socket or the end of the list.
LEMMA DialReaches ==
  ASSUME PeerInv, NEW d \in Diallers, NEW from \in Nat, NEW length \in Nat,
         NEW phases, from > current[d], Dial(d, from, length, phases),
         NEW s \in Sockets
  PROVE  \/ shake'[s] = phases[s]
         \/ shake[s] = "none" /\ shake'[s] = "waiting"
<1>1. PICK next \in from..(length + 1) :
        shake' = [r \in Sockets |-> IF next =< length /\ r = <<d, next>>
                                    THEN "waiting" ELSE phases[r]]
  BY DEF Dial
<1>2. CASE s = <<d, next>>
  <2>1. s \in Outgoing
    BY <1>2, PeersAssumption DEF Sockets
  <2>2. s[1] = d /\ s[2] = next /\ current[d] \in Nat
    BY <1>2, <2>1, OneAtATime
  <2>3. shake[s] = "none"
    BY <2>1, <2>2 DEF PeerInv
  <2>4. QED
    BY <1>1, <2>3
<1>3. QED
  BY <1>1, <1>2

LEMMA DiallingMoves ==
  ASSUME PeerInv, NEW d \in Diallers, NEW length \in 0..MaxListed,
         StartDialling(d, length), NEW s \in Sockets
  PROVE  Moves(s)
<1>1. UNCHANGED peers /\ current[d] = 0 /\ Dial(d, 1, length, shake)
  BY DEF StartDialling, tableVars
<1>2. length \in Nat
  BY PeersAssumption
<1>3. QED
  BY <1>1, <1>2, DialReaches, PassingMoves DEF Passes

LEMMA ReturningMoves ==
  ASSUME PeerInv, NEW t \in Sockets, shake[t] \in InProgress, Return(t),
         UNCHANGED peers, NEW s \in Sockets
  PROVE  Moves(s)
<1> DEFINE phases == [shake EXCEPT ![t] = "over"]
<1>1. phases[s] = IF s = t THEN "over" ELSE shake[s]
  BY DEF PeerInv, PeersTypeOK
<1> HIDE DEF phases
<1>2. shake'[s] = phases[s] \/ (shake[s] = "none" /\ shake'[s] = "waiting")
  <2>1. CASE t \in Incoming
    BY <2>1 DEF Return, phases
  <2>2. CASE t \notin Incoming
    <3>1. /\ t[1] \in Diallers /\ t[2] \in Nat /\ t[2] = current[t[1]]
          /\ Dial(t[1], t[2] + 1, listed[t[1]], phases)
      BY <2>2, OneAtATime DEF Return, Sockets, phases
    <3>2. listed[t[1]] \in Nat
      BY <3>1, PeersAssumption DEF PeerInv, PeersTypeOK
    <3>3. t[2] + 1 \in Nat /\ t[2] + 1 > current[t[1]]
      BY <3>1
    <3>4. QED
      BY <3>1, <3>2, <3>3, DialReaches
  <2>3. QED
    BY <2>1, <2>2
<1>3. Passes(s)
  BY <1>1, <1>2 DEF Passes, InProgress
<1>4. QED
  BY <1>3, PassingMoves

\* A step of a socket moves it, and with it at most the one dialled next.
LEMMA SocketsMove ==
  ASSUME PeerInv, NEW t \in Sockets, PeerStep(t), NEW s \in Sockets
  PROVE  Moves(s)
<1>0. /\ shake \in [Sockets -> {"none", "over"} \cup InProgress]
      /\ listening = {r \in Incoming : shake[r] = "over"}
      /\ \A r \in peers : shake[r] \in {"syncing", "over"}
  BY DEF PeerInv, PeersTypeOK, InProgress
<1>1. CASE Connection(t, Started)
  <2>1. UNCHANGED peers /\ Passes(s)
    BY <1>0, <1>1 DEF Connection, tableVars, Passes
  <2>2. QED
    BY <2>1, PassingMoves
<1>2. CASE Response(t)
  <2>1. UNCHANGED peers /\ Passes(s)
    BY <1>0, <1>2 DEF Response, tableVars, Passes
  <2>2. QED
    BY <2>1, PassingMoves
<1>3. CASE Register(t)
  <2>1. CASE s = t
    BY <1>0, <1>3, <2>1 DEF Register, Moves, Stage
  <2>2. CASE s # t
    BY <1>0, <1>3, <2>2 DEF Register, Moves, Stage
  <2>3. QED
    BY <2>1, <2>2
<1>4. CASE OtherMessage(t) \/ KyberFails(t) \/ SyncChain(t)
  <2>1. shake[t] \in InProgress /\ Return(t) /\ UNCHANGED peers
    BY <1>4 DEF OtherMessage, KyberFails, SyncChain, GiveUp, tableVars, InProgress
  <2>2. QED
    BY <2>1, ReturningMoves
<1>5. CASE Disconnect(t)
  <2>1. shake' = shake
    BY <1>5 DEF Disconnect
  <2>2. \/ UNCHANGED peers
        \/ shake[t] = "over" /\ peers' = peers \ {t}
    BY <1>0, <1>5 DEF Disconnect, tableVars
  <2>3. QED
    BY <2>1, <2>2 DEF Moves, Stage
<1>6. CASE \E d \in Diallers \ {Main}, length \in 0..MaxListed : handlePeerList(t, d, length)
  BY <1>6, DiallingMoves DEF handlePeerList
<1>7. QED
  BY <1>1, <1>2, <1>3, <1>4, <1>5, <1>6 DEF PeerStep

\* A step of the node in Gossip's words.
Calm ==
  /\ UNCHANGED delivery
  /\ Accepted' = Accepted
  /\ \A s \in Sockets : Moves(s)

Accepts(r) ==
  /\ r \in Requests \ Accepted
  /\ Accepted' = Accepted \cup {r}
  /\ \A s \in Sockets : delivery[s][r] = "none"
  /\ \A s \in Sockets :
       delivery'[s][r] = IF Stage(s) = "peer" THEN "encrypting" ELSE "none"
  /\ \A s \in Sockets, q \in Requests \ {r} : delivery'[s][q] = delivery[s][q]
  /\ \A s \in Sockets : Stage(s)' = Stage(s)

Settles(s, r) ==
  /\ delivery[s][r] = "encrypting"
  /\ \E state \in {"sent", "rejected", "gone"} :
       /\ \A t \in Sockets, q \in Requests :
            delivery'[t][q] = IF t = s /\ q = r THEN state ELSE delivery[t][q]
       /\ state = "sent" => Stage(s) = "peer"
  /\ Accepted' = Accepted
  /\ \A t \in Sockets : Stage(t)' = Stage(t)

\* A request is broadcast to the peers when it is accepted.
LEMMA AcceptingBroadcasts ==
  ASSUME PeerInv, RequestInv, NEW r \in Requests, AcceptTransaction(r)
  PROVE  Accepts(r)
<1>1. /\ requests[r] \in [at : {"signing", "accepted"}, transaction : Transactions]
      /\ requests \in [Requests -> RequestTypes]
      /\ requests' = [requests EXCEPT ![r].at = "accepted"]
      /\ requests[r].at # "accepted"
  BY DEF RequestInv, RequestTypes, AcceptTransaction
<1>2. /\ requests'[r].at = "accepted"
      /\ \A q \in Requests : q # r => requests'[q] = requests[q]
  BY <1>1
<1>3. Accepted' = Accepted \cup {r} /\ r \notin Accepted
  BY <1>1, <1>2 DEF Accepted
<1>4. \A s \in Sockets : delivery[s][r] = "none"
  BY <1>1 DEF RequestInv, NothingEarly
<1>5. /\ \A s \in Sockets : delivery'[s][r] = IF s \in peers THEN "encrypting" ELSE "none"
      /\ \A s \in Sockets, q \in Requests \ {r} : delivery'[s][q] = delivery[s][q]
  BY <1>4, PeersBroadcast DEF AcceptTransaction
<1>6. UNCHANGED <<shake, peers>>
  BY DEF AcceptTransaction, broadcastTransaction, tableVars
<1>7. \A s \in Sockets : (Stage(s) = "peer" <=> s \in peers) /\ Stage(s)' = Stage(s)
  BY <1>6 DEF Stage
<1>8. QED
  BY <1>3, <1>4, <1>5, <1>7 DEF Accepts

\* Who is sent a message is still connected, and so a peer.
LEMMA BroadcastSettles ==
  ASSUME PeerInv, NEW s \in Sockets, NEW r \in Requests, BroadcastStep(s, r)
  PROVE  Settles(s, r)
<1>1. /\ delivery[s][r] = "encrypting"
      /\ UNCHANGED <<shake, peers>>
  BY PeersSettle
<1>2. PICK state \in {"sent", "rejected", "gone"} :
        /\ delivery' = [delivery EXCEPT ![s][r] = state]
        /\ state = "sent" => s \in open
  BY PeersSettle
<1>3. state = "sent" => Stage(s) = "peer"
  BY <1>1, <1>2 DEF PeerInv, DeliveriesOK, Stage
<1>4. \A t \in Sockets, q \in Requests :
        delivery'[t][q] = IF t = s /\ q = r THEN state ELSE delivery[t][q]
  BY <1>2 DEF PeerInv, PeersTypeOK
<1>5. Accepted' = Accepted /\ \A t \in Sockets : Stage(t)' = Stage(t)
  BY <1>1 DEF BroadcastStep, Accepted, Stage
<1>6. QED
  BY <1>1, <1>3, <1>4, <1>5 DEF Settles

LEMMA StepsAreGossip ==
  ASSUME IInv, [Next]_vars
  PROVE  \/ Calm \/ \E r \in Requests : Accepts(r)
         \/ \E s \in Sockets, r \in Requests : Settles(s, r)
<1>0. PeerInv /\ RequestInv /\ requests \in [Requests -> RequestTypes]
  BY DEF IInv, RequestInv
<1>1. ASSUME UNCHANGED <<peerVars, requests>> PROVE Calm
  BY <1>1 DEF Calm, Moves, Stage, Accepted, peerVars, tableVars
<1>2. ASSUME UNCHANGED <<delivery, requests>>, \A s \in Sockets : Moves(s)
      PROVE  Calm
  BY <1>2 DEF Calm, Accepted
<1>3. ASSUME NEW d \in Diallers, NEW length \in 0..MaxListed,
             StartDialling(d, length), UNCHANGED requests
      PROVE  Calm
  BY <1>0, <1>2, <1>3, DiallingMoves DEF StartDialling
<1>4. CASE ConnectToInitialPeers
  BY <1>3, <1>4, NodeAssumption DEF ConnectToInitialPeers
<1>5. ASSUME NEW d \in Diallers, addPeer(d) PROVE Calm
  BY <1>3, <1>5, PeersAssumption DEF addPeer
<1>6. ASSUME NEW t \in Sockets, PeerStep(t) PROVE Calm
  <2>1. UNCHANGED <<delivery, requests>>
    BY <1>0, <1>6, PeersStep DEF MainRests, PeerStep
  <2>2. QED
    BY <1>0, <1>2, <1>6, <2>1, SocketsMove
<1>7. ASSUME NEW r \in Requests, AcceptTransaction(r) PROVE Accepts(r)
  BY <1>0, <1>7, AcceptingBroadcasts
<1>8. ASSUME NEW r \in Requests,
             \/ \E payment \in Payments : createTransaction(r, payment)
             \/ SignTransaction(r) \/ RefuseTransaction(r)
      PROVE  Calm
  <2>1. /\ UNCHANGED peerVars
        /\ requests[r].at # "accepted" /\ requests'[r].at # "accepted"
        /\ \A q \in Requests \ {r} : requests'[q] = requests[q]
    BY <1>0, <1>8 DEF createTransaction, SignTransaction, RefuseTransaction
  <2>2. Accepted' = Accepted
    BY <2>1 DEF Accepted
  <2>3. QED
    BY <2>1, <2>2 DEF Calm, Moves, Stage, peerVars, tableVars
<1>9. ASSUME NEW s \in Sockets, NEW r \in Requests, BroadcastStep(s, r)
      PROVE  Settles(s, r)
  BY <1>0, <1>9, BroadcastSettles
<1>10. CASE StartAPI \/ PoolStep \/ UNCHANGED vars
  BY <1>1, <1>10 DEF StartAPI, PoolStep, vars
<1>11. QED
  BY <1>4, <1>5, <1>6, <1>7, <1>8, <1>9, <1>10 DEF Next

LEMMA GossipInit == Init => Neighbourhood!Init
BY DEF Init, PeersInit, Neighbourhood!Init, Stage, Standing, Accepted

LEMMA CalmIsMove == Calm => Neighbourhood!Move
<1> SUFFICES ASSUME Calm PROVE Neighbourhood!Move
  OBVIOUS
<1>1. ASSUME NEW s \in Sockets
      PROVE  \/ Neighbourhood!Come(s) \/ Neighbourhood!Join(s)
             \/ Neighbourhood!Leave(s) \/ Neighbourhood!Stay(s)
  BY DEF Calm, Moves, Neighbourhood!Come, Neighbourhood!Join,
         Neighbourhood!Leave, Neighbourhood!Stay
<1>2. UNCHANGED <<Accepted, Standing("encrypting"), Standing("sent")>>
  BY DEF Calm, Standing
<1>3. QED
  BY <1>1, <1>2 DEF Neighbourhood!Move

LEMMA AcceptsIsAccept ==
  ASSUME NEW r \in Requests, Accepts(r)
  PROVE  Neighbourhood!Next
<1>1. [s \in Sockets |-> Stage(s)]' = [s \in Sockets |-> Stage(s)]
  BY DEF Accepts
<1>2. ASSUME NEW s \in Sockets, NEW state \in {"encrypting", "sent"}
      PROVE  {q \in Requests : delivery'[s][q] = state}
               = IF state = "encrypting" /\ Stage(s) = "peer"
                 THEN {q \in Requests : delivery[s][q] = state} \cup {r}
                 ELSE {q \in Requests : delivery[s][q] = state}
  BY DEF Accepts
<1>3. Standing("encrypting")' = [s \in Sockets |->
        IF [t \in Sockets |-> Stage(t)][s] = "peer"
        THEN Standing("encrypting")[s] \cup {r} ELSE Standing("encrypting")[s]]
  BY <1>2 DEF Standing
<1>4. Standing("sent")' = Standing("sent")
  BY <1>2 DEF Standing
<1>5. Neighbourhood!Accept(r)
  BY <1>1, <1>3, <1>4 DEF Accepts, Neighbourhood!Accept
<1>6. r \in Accepted'
  BY DEF Accepts
<1>7. QED
  BY <1>5, <1>6 DEF Neighbourhood!Next

LEMMA SettlesIsSettle ==
  ASSUME NEW s \in Sockets, NEW r \in Requests, Settles(s, r)
  PROVE  Neighbourhood!Next
<1>1. PICK state \in {"sent", "rejected", "gone"} :
        /\ \A t \in Sockets, q \in Requests :
             delivery'[t][q] = IF t = s /\ q = r THEN state ELSE delivery[t][q]
        /\ state = "sent" => Stage(s) = "peer"
  BY DEF Settles
<1>2. ASSUME NEW t \in Sockets, NEW other \in {"encrypting", "sent"}
      PROVE  {q \in Requests : delivery'[t][q] = other}
               = IF t # s THEN {q \in Requests : delivery[t][q] = other}
                 ELSE IF other = "encrypting"
                      THEN {q \in Requests : delivery[t][q] = other} \ {r}
                 ELSE IF state = "sent"
                      THEN {q \in Requests : delivery[t][q] = other} \cup {r}
                 ELSE {q \in Requests : delivery[t][q] = other}
  BY <1>1 DEF Settles
<1>3. Standing("encrypting")' = [Standing("encrypting") EXCEPT ![s] = @ \ {r}]
  <2> DEFINE S(t) == {q \in Requests : delivery[t][q] = "encrypting"}
  <2>1. \A t \in Sockets : {q \in Requests : delivery'[t][q] = "encrypting"}
                            = IF t = s THEN S(t) \ {r} ELSE S(t)
    BY <1>2
  <2>2. Standing("encrypting") = [t \in Sockets |-> S(t)]
    BY DEF Standing
  <2>3. Standing("encrypting")' = [t \in Sockets |-> IF t = s THEN S(t) \ {r} ELSE S(t)]
    BY <2>1 DEF Standing
  <2> HIDE DEF S
  <2>4. QED
    BY <2>2, <2>3
<1>4. Standing("sent")' = IF state = "sent"
                          THEN [Standing("sent") EXCEPT ![s] = @ \cup {r}]
                          ELSE Standing("sent")
  BY <1>2 DEF Standing
<1>5. /\ [t \in Sockets |-> Stage(t)]' = [t \in Sockets |-> Stage(t)]
      /\ Accepted' = Accepted
      /\ r \in Standing("encrypting")[s]
  BY DEF Settles, Standing
<1>6. Neighbourhood!Deliver(s, r) \/ UNCHANGED Standing("sent")
  BY <1>1, <1>4 DEF Neighbourhood!Deliver
<1>7. Neighbourhood!Settle(s, r)
  BY <1>3, <1>5, <1>6 DEF Neighbourhood!Settle
<1>8. QED
  BY <1>5, <1>7 DEF Neighbourhood!Next

\* Whatever handshakes, requests and encryptions do, every step of the node is a
\* step of Gossip or a stutter: neighbours come, become peers and go, once each;
\* a transaction that is accepted is begun to be encrypted for just those who
\* are peers in that moment, and it is sent to none that has gone or twice
\* (createTransaction, broadcastMessage, initializeSecureSession).
THEOREM NodeImplementsGossip == Spec => ImplementsGossip
<1>1. IInv /\ [Next]_vars => Neighbourhood!Next
  BY StepsAreGossip, CalmIsMove, AcceptsIsAccept, SettlesIsSettle DEF Neighbourhood!Next
<1>2. QED
  BY <1>1, InvAlways, GossipInit, PTL
     DEF Spec, ImplementsGossip, Neighbourhood!Spec
=============================================================================
