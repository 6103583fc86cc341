-------------------------------- MODULE Node --------------------------------
(***************************************************************************)
(* src/index.js and src/api/APIServer.js over the pool and the peers: the  *)
(* start of a node, and the requests that change it. The pool is the one   *)
(* main() makes; the blockchain's own is another and is in Blockchain.     *)
(*                                                                         *)
(* The start begins here where P2PServer.initialize opens the port. The    *)
(* Requests are POST /transactions, each made at most once.                *)
(***************************************************************************)
EXTENDS Mempool, P2PServer

CONSTANTS
  Main,            \* the dialler that is main()'s loop
  InitialPeers     \* how many peers INITIAL_PEERS names

ASSUME NodeAssumption ==
  /\ Main \in Diallers
  /\ InitialPeers \in 0..MaxListed

VARIABLES
  api,        \* whether the API server listens
  requests    \* where each request is, or how it was answered

vars == <<poolVars, peerVars, api, requests>>

Init ==
  /\ PoolInit
  /\ PeersInit
  /\ api = "down"
  /\ requests = [r \in Requests |-> [at |-> "idle"]]

-----------------------------------------------------------------------------
(* main().                                                                 *)

Started == current[Main] > 0

\* P2PServer.initialize is over, and the initial peers are dialled.
ConnectToInitialPeers ==
  /\ StartDialling(Main, InitialPeers)
  /\ UNCHANGED <<poolVars, api, requests>>

\* Mutant: the API server does not wait for the peers.
StartAPI_AtOnce ==
  /\ Started
  /\ api = "down"
  /\ api' = "up"
  /\ UNCHANGED <<poolVars, peerVars, requests>>

\* The loop over the peers is over, and the server has begun to listen.
StartAPI ==
  /\ Started /\ ~Dialling(Main)
  /\ api = "down"
  /\ api' = "up"
  /\ UNCHANGED <<poolVars, peerVars, requests>>

-----------------------------------------------------------------------------
(* The requests.                                                           *)

\* createTransaction, up to the key of the sender.
createTransaction(r, payment) ==
  /\ api = "up"
  /\ requests[r].at = "idle"
  /\ requests' = [requests EXCEPT ![r] = [at |-> "deriving", payment |-> payment]]
  /\ UNCHANGED <<poolVars, peerVars, api>>

\* The key is there: the transaction is made, and sign and verify, which
\* touch nothing else, are awaited.
SignTransaction(r) ==
  /\ requests[r].at = "deriving"
  /\ requests' = [requests EXCEPT ![r] =
       [at |-> "signing",
        transaction |-> [payment |-> requests[r].payment, timestamp |-> now]]]
  /\ UNCHANGED <<poolVars, peerVars, api>>

\* The key or the signature rejects, or does not verify.
RefuseTransaction(r) ==
  /\ requests[r].at \in {"deriving", "signing"}
  /\ requests' = [requests EXCEPT ![r] = [at |-> "refused"]]
  /\ UNCHANGED <<poolVars, peerVars, api>>

\* The signature verifies: whatever addTransaction returns, the transaction
\* is broadcast and success is answered.
AcceptTransaction(r) ==
  /\ requests[r].at = "signing"
  /\ addTransaction(requests[r].transaction)
  /\ broadcastTransaction(r)
  /\ requests' = [requests EXCEPT ![r].at = "accepted"]
  /\ UNCHANGED api

addPeer(d) ==
  /\ api = "up"
  /\ StartDialling(d, 1)
  /\ UNCHANGED <<poolVars, api, requests>>

-----------------------------------------------------------------------------

\* The steps of a socket that its peer, the network and Kyber decide on.
PeerStep(s) ==
  /\ \/ Connection(s, Started)
     \/ Response(s) \/ OtherMessage(s)
     \/ Register(s) \/ KyberFails(s) \/ SyncChain(s)
     \/ Disconnect(s)
     \/ \E d \in Diallers \ {Main}, length \in 0..MaxListed : handlePeerList(s, d, length)
  /\ UNCHANGED <<poolVars, api, requests>>

\* The steps of a broadcast, one socket at a time.
BroadcastStep(s, r) ==
  /\ Emit(s, r) \/ EncryptionRejects(s, r)
  /\ UNCHANGED <<poolVars, api, requests>>

\* The rest of the pool's methods: nothing under src/ calls them, whoever
\* holds the pool may.
PoolStep ==
  /\ \/ removeOldTransactions
     \/ \E set \in SUBSET DOMAIN transactions :
          removeConfirmedTransactions(set) \/ cleanMempool(set)
     \/ Tick
  /\ UNCHANGED <<peerVars, api, requests>>

Next ==
  \/ ConnectToInitialPeers
  \/ StartAPI
  \/ \E r \in Requests :
       \/ \E payment \in Payments : createTransaction(r, payment)
       \/ SignTransaction(r) \/ RefuseTransaction(r) \/ AcceptTransaction(r)
  \/ \E d \in Diallers \ {Main} : addPeer(d)
  \/ \E s \in Sockets : PeerStep(s) \/ \E r \in Requests : BroadcastStep(s, r)
  \/ PoolStep

Spec == Init /\ [][Next]_vars

\* Kyber settles what a handshake awaits, one way or the other.
KyberSettles(s) ==
  /\ Register(s) \/ KyberFails(s) \/ SyncChain(s)
  /\ UNCHANGED <<poolVars, api, requests>>

SocketIsServed(s) == WF_vars(KyberSettles(s))

\* The event loop goes on with a call whose await is over, and Kyber settles
\* every promise. No peer has to send anything.
FairSpec ==
  /\ Spec
  /\ WF_vars(ConnectToInitialPeers) /\ WF_vars(StartAPI)
  /\ \A t \in Sockets : SocketIsServed(t)

-----------------------------------------------------------------------------
(* Properties.                                                             *)

\* The state of the pool, of the peers and of the requests is well-formed.
TypeOK ==
  /\ PoolTypeOK
  /\ PeersTypeOK
  /\ api \in {"down", "up"}
  /\ requests \in [Requests ->
       [at : {"idle", "refused"}]
       \cup [at : {"deriving"}, payment : Payments]
       \cup [at : {"signing", "accepted"}, transaction : Transactions]]

\* "Creates and broadcasts a new transaction": a transaction whose request
\* was answered with success is pooled, and for a maximal age nothing but an
\* explicit removal takes it away, however full the pool becomes and
\* however many requests make the same one.
AcceptedStays ==
  \A r \in Requests :
    requests[r].at = "accepted" =>
      LET tx == requests[r].transaction
      IN tx \in DOMAIN transactions \cup withdrawn
           \/ now - tx.timestamp > maxTransactionAge

\* No transaction is accepted without an initial peer that is one now: it was a
\* peer before the API listens, or never. So each was broadcast to it, and while
\* it is connected only its own rejected encryption keeps one from it, whatever
\* becomes of the other peers' ones.
InitialPeersAreOffered ==
  \A s \in Outgoing, r \in Requests :
    s[1] = Main /\ s \in peers /\ requests[r].at = "accepted" =>
      delivery[s][r] \in {"encrypting", "sent", "rejected"}
                          \cup (IF s \in open THEN {} ELSE {"gone"})

\* A socket's stage in the life of a neighbour.
Stage(s) ==
  IF s \in peers THEN "peer"
  ELSE IF shake[s] = "none" THEN "stranger"
  ELSE IF shake[s] = "over" THEN "gone"
  ELSE "guest"

Accepted == {r \in Requests : requests[r].at = "accepted"}

\* What each neighbour's broadcasts have come to.
Standing(state) == [s \in Sockets |-> {r \in Requests : delivery[s][r] = state}]

\* The node is Gossip: handshakes that overlap, fail half-way or lose their
\* peer leave nobody a peer who did not become one, and bring nobody back. A
\* broadcast is for the peers of the moment it starts; what joins or leaves
\* while the encryption is awaited gets nothing of it.
Neighbourhood == INSTANCE Gossip WITH
  Neighbours <- Sockets,
  stage <- [s \in Sockets |-> Stage(s)],
  accepted <- Accepted,
  pending <- Standing("encrypting"),
  delivered <- Standing("sent")

ImplementsGossip == Neighbourhood!Spec

Silent(d) == Dialling(d) /\ shake[<<d, current[d]>>] = "waiting"

\* Whoever dials peers comes to the end of the list or waits for ever for a
\* peer that does not say a word: one that refuses the connection over the
\* network is such a peer too. An address that is refused at once, a peer that
\* says something else or leaves after its response stops nothing, the start
\* of the node least.
OnlySilenceBlocks ==
  \A d \in Diallers : Dialling(d) ~> (~Dialling(d) \/ []Silent(d))
=============================================================================
