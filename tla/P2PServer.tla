------------------------------ MODULE P2PServer ------------------------------
(***************************************************************************)
(* src/network/P2PServer.js: the connections of one node, from the         *)
(* handshake to the disconnection, and the lists of peers it dials.        *)
(*                                                                         *)
(* A socket is either incoming or the k-th one that a dialler opened. A    *)
(* dialler is a loop of calls of connectToPeer: the one over the initial   *)
(* peers, one in handlePeerList, the single call of the API's addPeer. The *)
(* test at the start of connectToPeer looks for an address among socket    *)
(* ids and never finds one.                                                *)
(*                                                                         *)
(* What a peer sends is decoded from JSON and has no methods, so that of   *)
(* the other messages NEW_TRANSACTION ends in the catch when it calls      *)
(* verify, NEW_BLOCK and CHAIN_RESPONSE are refused or end there when      *)
(* they call getBlockSize, and a message marked as encrypted, which is     *)
(* decrypted to a shared secret in hexadecimal, is no JSON. None changes   *)
(* the node, nor do the two requests it answers. What peers are sent is    *)
(* left out but for the transactions that are broadcast. The sockets are   *)
(* socket.io's, which is external: what it does is any of these steps.     *)
(***************************************************************************)
EXTENDS Integers

CONSTANTS
  Incoming,     \* sockets that peers open
  Diallers,
  MaxListed,    \* bound: the length of a list of peers
  Requests      \* those whose transaction may be broadcast, once each

ASSUME PeersAssumption ==
  /\ MaxListed \in Nat \ {0}
  /\ Incoming \cap (Diallers \X Nat) = {}

Outgoing == Diallers \X (1..MaxListed)
Sockets == Incoming \cup Outgoing

VARIABLES
  open,           \* sockets that are connected, or dialled and not given up
  shake,          \* where initializeSecureSession is for each socket
  listening,      \* sockets with the handlers of "message" and "disconnect"
  sockets, peers, peerSessions,  \* the fields of the class, by socket id
  listed,         \* how many addresses each dialler goes through
  current,        \* at which of them it is: 0 before, above listed after
  delivery        \* how the broadcast to each socket for each request stands

tableVars == <<sockets, peers, peerSessions>>
peerVars == <<open, shake, listening, tableVars, listed, current, delivery>>

PeersInit ==
  /\ open = {}
  /\ shake = [s \in Sockets |-> "none"]
  /\ listening = {}
  /\ sockets = {} /\ peers = {} /\ peerSessions = {}
  /\ listed = [d \in Diallers |-> 0]
  /\ current = [d \in Diallers |-> 0]
  /\ delivery = [s \in Sockets |-> [r \in Requests |-> "none"]]

Dialling(d) == current[d] \in 1..listed[d]

-----------------------------------------------------------------------------
(* Opening connections.                                                    *)

\* connectToPeer at the next of d's addresses, as far as its await. A socket
\* may refuse an address at once; then the one after it is dialled.
Dial(d, from, length, phases) ==
  \E next \in from..(length + 1) :
    /\ current' = [current EXCEPT ![d] = next]
    /\ shake' = [s \in Sockets |-> IF next =< length /\ s = <<d, next>>
                                   THEN "waiting" ELSE phases[s]]

StartDialling(d, length) ==
  /\ current[d] = 0
  /\ listed' = [listed EXCEPT ![d] = length]
  /\ Dial(d, 1, length, shake)
  /\ open' = open \cup {s \in Outgoing : shake'[s] # shake[s]}
  /\ UNCHANGED <<listening, tableVars, delivery>>

\* handlePeerList, for a list in a message of a connected peer.
handlePeerList(s, d, length) ==
  /\ s \in listening \cap open
  /\ StartDialling(d, length)

\* "connection": a greeting is sent and its answer awaited, if the handler
\* is there. initialize opens the port before it awaits its keys and only
\* then sets the handler up.
Connection(s, ready) ==
  /\ s \in Incoming \ open
  /\ shake[s] = "none"
  /\ open' = open \cup {s}
  /\ shake' = IF ready THEN [shake EXCEPT ![s] = "waiting"] ELSE shake
  /\ UNCHANGED <<listening, tableVars, listed, current, delivery>>

-----------------------------------------------------------------------------
(* initializeSecureSession.                                                *)

\* It returns, and what awaits it goes on in the same turn: the connection's
\* handlers are set up, or the dialler takes its next address.
Return(s) ==
  LET phases == [shake EXCEPT ![s] = "over"]
  IN IF s \in Incoming
     THEN /\ listening' = listening \cup {s}
          /\ shake' = phases
          /\ UNCHANGED current
     ELSE /\ Dial(s[1], s[2] + 1, listed[s[1]], phases)
          /\ UNCHANGED listening

Opened == {s \in Outgoing : shake[s] = "none" /\ shake'[s] = "waiting"}

\* Mutant: the socket of a failed handshake is left connected.
GiveUp_StaysOpen(s) ==
  /\ Return(s)
  /\ open' = open \cup Opened
  /\ UNCHANGED <<tableVars, listed, delivery>>

\* Mutant: the error is passed on, and nothing that awaits catches it.
GiveUp_Uncaught(s) ==
  /\ shake' = [shake EXCEPT ![s] = "over"]
  /\ open' = open \ {s}
  /\ UNCHANGED <<listening, tableVars, listed, current, delivery>>

\* The catch. An entry made before the error stays: on either side
\* disconnect() tells handlers that are not there yet.
GiveUp(s) ==
  /\ Return(s)
  /\ open' = (open \ {s}) \cup Opened
  /\ UNCHANGED <<tableVars, listed, delivery>>

\* The first message is a response: the session keys are awaited.
Response(s) ==
  /\ s \in open /\ shake[s] = "waiting"
  /\ shake' = [shake EXCEPT ![s] = "deriving"]
  /\ UNCHANGED <<open, listening, tableVars, listed, current, delivery>>

\* It is another message: "Invalid handshake response".
OtherMessage(s) ==
  /\ s \in open /\ shake[s] = "waiting"
  /\ GiveUp(s)

\* The keys are there: the peer is entered, connected or not, and the request
\* for its chain is being encrypted.
Register(s) ==
  /\ shake[s] = "deriving"
  /\ shake' = [shake EXCEPT ![s] = "syncing"]
  /\ peerSessions' = peerSessions \cup {s}
  /\ sockets' = sockets \cup {s}
  /\ peers' = peers \cup {s}
  /\ UNCHANGED <<open, listening, listed, current, delivery>>

\* The keys, or the encryption of the request, reject.
KyberFails(s) ==
  /\ shake[s] \in {"deriving", "syncing"}
  /\ GiveUp(s)

\* syncChain sends its request, and all is done.
SyncChain(s) ==
  /\ shake[s] = "syncing"
  /\ Return(s)
  /\ open' = open \cup Opened
  /\ UNCHANGED <<tableVars, listed, delivery>>

-----------------------------------------------------------------------------

\* Mutant: the session is kept.
Disconnect_KeepsSession(s) ==
  /\ s \in open
  /\ open' = open \ {s}
  /\ IF s \in listening
     THEN sockets' = sockets \ {s} /\ peers' = peers \ {s} /\ UNCHANGED peerSessions
     ELSE UNCHANGED tableVars
  /\ UNCHANGED <<shake, listening, listed, current, delivery>>

\* The peer or the network ends a connection; handleDisconnect runs where
\* there is a handler to call it.
Disconnect(s) ==
  /\ s \in open
  /\ open' = open \ {s}
  /\ IF s \in listening
     THEN sockets' = sockets \ {s} /\ peers' = peers \ {s} /\ peerSessions' = peerSessions \ {s}
     ELSE UNCHANGED tableVars
  /\ UNCHANGED <<shake, listening, listed, current, delivery>>

\* broadcastTransaction: broadcastMessage starts one call for each socket and
\* comes back with each at the await of its encryption. One without a session
\* throws, as a rejection would later, and its own catch ends it.
broadcastTransaction(r) ==
  /\ delivery' = [s \in Sockets |->
       IF s \in sockets
       THEN [delivery[s] EXCEPT ![r] = IF s \in peerSessions THEN "encrypting"
                                                              ELSE "rejected"]
       ELSE delivery[s]]
  /\ UNCHANGED <<open, shake, listening, tableVars, listed, current>>

\* Mutant: whoever left while it was encrypted is sent it as well.
Emit_Anyway(s, r) ==
  /\ delivery[s][r] = "encrypting"
  /\ delivery' = [delivery EXCEPT ![s][r] = "sent"]
  /\ UNCHANGED <<open, shake, listening, tableVars, listed, current>>

\* The message is encrypted: it goes to the socket the call took from the
\* table, to no effect if that has been closed by now.
Emit(s, r) ==
  /\ delivery[s][r] = "encrypting"
  /\ delivery' = [delivery EXCEPT ![s][r] = IF s \in open THEN "sent" ELSE "gone"]
  /\ UNCHANGED <<open, shake, listening, tableVars, listed, current>>

\* The encryption rejects, and the catch goes on without this socket.
EncryptionRejects(s, r) ==
  /\ delivery[s][r] = "encrypting"
  /\ delivery' = [delivery EXCEPT ![s][r] = "rejected"]
  /\ UNCHANGED <<open, shake, listening, tableVars, listed, current>>

-----------------------------------------------------------------------------
(* Properties.                                                             *)

\* A peer has a socket, an entry and a session or none of the three; handlers
\* are there when the handshake is over; a dialler is at its last socket.
PeersTypeOK ==
  /\ open \subseteq Sockets
  /\ shake \in [Sockets -> {"none", "waiting", "deriving", "syncing", "over"}]
  /\ listening = {s \in Incoming : shake[s] = "over"}
  /\ peers \subseteq {s \in Sockets : shake[s] \in {"syncing", "over"}}
  /\ sockets = peers /\ peerSessions = peers
  /\ listed \in [Diallers -> 0..MaxListed]
  /\ current \in [Diallers -> 0..(MaxListed + 1)]
  /\ \A d \in Diallers : current[d] =< listed[d] + 1
  /\ \A s \in Outgoing :
       shake[s] \in {"waiting", "deriving", "syncing"} <=>
         Dialling(s[1]) /\ s[2] = current[s[1]]
  /\ delivery \in [Sockets ->
       [Requests -> {"none", "encrypting", "sent", "rejected", "gone"}]]

\* A connection that went through its handshake and is still there is a peer:
\* no socket stays connected that getPeers does not list and a broadcast
\* does not reach.
OpenPeersAreListed == \A s \in open : shake[s] = "over" => s \in peers
=============================================================================
