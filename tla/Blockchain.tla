----------------------------- MODULE Blockchain -----------------------------
(***************************************************************************)
(* src/blockchain/Blockchain.js over the store: the chain a node serves,   *)
(* the pool it keeps, and the asynchronous calls that change them. A call  *)
(* runs to its next await without interruption; between two awaits any     *)
(* other call may run.                                                     *)
(*                                                                         *)
(* Chains are the chains of Block objects the callers of replaceChain      *)
(* hold; their nonces and difficulties are taken to be natural numbers, as *)
(* those of mined blocks are, and are otherwise anything. A chain decoded  *)
(* from a message has plain objects for blocks; it has no getBlockSize,    *)
(* the validation throws, and the call changes as little as it does for an *)
(* invalid chain. That the caller still holds the array that was adopted   *)
(* is left out: no caller under src/ changes it.                           *)
(***************************************************************************)
EXTENDS BlockValidation, LevelDB

CONSTANTS
  Batches,   \* the transaction lists addBlock is called with
  Signed     \* the transactions that carry a hash and a signature

ASSUME BlockchainAssumption ==
  /\ \A b \in Batches : b \in Seq(Tx)
  /\ Signed \subseteq Tx
  /\ Randomness # {}
  /\ \A c \in Chains : \A i \in DOMAIN c :
       c[i].nonce \in Nat /\ c[i].difficulty \in Nat

VARIABLES
  chain,     \* this.chain
  mempool,   \* this.mempool, by transaction
  pc,        \* per call, where it is or how it ended
  mined      \* the block an addBlock in progress has mined

vars == <<chain, mempool, pc, mined, storeVars>>

Last(blocks) == blocks[Len(blocks)]
Busy(o) == pc[o] \in {"mining", "replacing"}

\* The constructor, and initialize over an empty database.
Init ==
  /\ \E r \in Randomness : chain = <<Genesis(r)>>
  /\ mempool = {}
  /\ pc = [o \in Callers |-> "idle"]
  /\ mined = [o \in Callers |-> None]
  /\ StoreInit

-----------------------------------------------------------------------------
(* addBlock.                                                               *)

\* Up to the await: the block is mined on the tip of this moment.
AddBlock(o, transactions) ==
  /\ ~Busy(o)
  /\ pc' = [pc EXCEPT ![o] = "mining"]
  /\ \E started, found \in Time, nonce \in Nonces :
       mined' = [mined EXCEPT
         ![o] = mineBlock(Last(chain), transactions, started, found, nonce)]
  /\ UNCHANGED <<chain, mempool, storeVars>>

\* clearMempool.
Cleared(transactions) == mempool \ Range(transactions)

\* Mutant: the block is not checked again after the await.
PushBlock_NoRecheck(o) ==
  /\ pc[o] = "mining"
  /\ chain' = Append(chain, mined[o])
  /\ pc' = [pc EXCEPT ![o] = "rejected"]
  /\ mined' = [mined EXCEPT ![o] = None]
  /\ UNCHANGED <<mempool, storeVars>>

\* After the await: the block is checked against the tip of that moment and
\* pushed. saveBlock rejects, and then clearMempool and the return are
\* skipped; nothing else would run in between were it to succeed.
PushBlock(o) ==
  LET rejects == SaveBlockRejects(mined[o])
  IN /\ pc[o] = "mining"
     /\ isValidNewBlock(mined[o], Last(chain))
     /\ chain' = Append(chain, mined[o])
     /\ pc' = [pc EXCEPT ![o] = IF rejects THEN "rejected" ELSE "resolved"]
     /\ mempool' = IF rejects THEN mempool ELSE Cleared(mined[o].transactions)
     /\ mined' = [mined EXCEPT ![o] = None]
     /\ UNCHANGED storeVars

\* "Invalid block".
DropBlock(o) ==
  /\ pc[o] = "mining"
  /\ ~isValidNewBlock(mined[o], Last(chain))
  /\ pc' = [pc EXCEPT ![o] = "rejected"]
  /\ mined' = [mined EXCEPT ![o] = None]
  /\ UNCHANGED <<chain, mempool, storeVars>>

-----------------------------------------------------------------------------
(* replaceChain.                                                           *)

\* Mutant: a chain of the same length will do.
Acceptable_SameLength(newChain, randomness) ==
  /\ Len(newChain) >= Len(chain)
  /\ isValidChain(newChain, randomness)

Acceptable(newChain, randomness) ==
  /\ Len(newChain) > Len(chain)
  /\ isValidChain(newChain, randomness)

\* Both checks and the first half of saveChain, up to the await.
ReplaceChain(o, newChain) ==
  /\ ~Busy(o)
  /\ \E r \in Randomness : Acceptable(newChain, r)
  /\ BeginSave(o, newChain)
  /\ pc' = [pc EXCEPT ![o] = "replacing"]
  /\ UNCHANGED <<chain, mempool, mined>>

RefuseChain(o, newChain) ==
  /\ ~Busy(o)
  /\ \E r \in Randomness : ~Acceptable(newChain, r)
  /\ pc' = [pc EXCEPT ![o] = "rejected"]
  /\ UNCHANGED <<chain, mempool, mined, storeVars>>

\* The store has finished clearing for this call.
ClearStored(o) ==
  /\ ClearKeys(o)
  /\ UNCHANGED <<chain, mempool, pc, mined>>

\* Mutant: the length is checked again, when the chain is already stored.
AdoptChain_IfStillLonger(o) ==
  /\ pc[o] = "replacing"
  /\ WriteChain(o)
  /\ chain' = IF Len(arg[o]) > Len(chain) THEN arg[o] ELSE chain
  /\ pc' = [pc EXCEPT ![o] = "resolved"]
  /\ UNCHANGED <<mempool, mined>>

\* saveChain returns: the chain is replaced, whatever it has become since
\* the checks.
AdoptChain(o) ==
  /\ pc[o] = "replacing"
  /\ WriteChain(o)
  /\ chain' = arg[o]
  /\ pc' = [pc EXCEPT ![o] = "resolved"]
  /\ UNCHANGED <<mempool, mined>>

\* Mutant: the chain is replaced although it could not be saved.
KeepChain_AdoptsAnyway(o) ==
  /\ pc[o] = "replacing"
  /\ SaveFails(o)
  /\ chain' = arg[o]
  /\ pc' = [pc EXCEPT ![o] = "refused"]
  /\ UNCHANGED <<mempool, mined>>

\* Mutant: the call never returns.
KeepChain_Hangs(o) ==
  /\ pc[o] = "replacing"
  /\ SaveFails(o)
  /\ UNCHANGED <<chain, mempool, pc, mined>>

\* saveChain throws: the error is logged and the call returns false.
KeepChain(o) ==
  /\ pc[o] = "replacing"
  /\ SaveFails(o)
  /\ pc' = [pc EXCEPT ![o] = "refused"]
  /\ UNCHANGED <<chain, mempool, mined>>

-----------------------------------------------------------------------------
(* The pool, and the life of the process.                                  *)

\* isValidTransaction: verifySignature returns a promise, which is true.
isValidTransaction(transaction) ==
  /\ transaction \in Signed
  /\ \A i \in DOMAIN chain : transaction \notin Range(chain[i].transactions)

addToMempool(transaction) ==
  /\ transaction \notin mempool
  /\ isValidTransaction(transaction)
  /\ mempool' = mempool \cup {transaction}
  /\ UNCHANGED <<chain, pc, mined, storeVars>>

\* getChain at startup; a read error is logged and reads as no chain.
Loaded == {Load(db)} \cup (IF "read" \in Faults THEN {None} ELSE {})

\* Mutant: initialize does not use the stored chain.
Restart_Afresh ==
  /\ CrashStore
  /\ \E r \in Randomness : chain' = <<Genesis(r)>>
  /\ mempool' = {}
  /\ pc' = [o \in Callers |-> "idle"]
  /\ mined' = [o \in Callers |-> None]

\* The process dies between two steps and main() starts it again.
Restart ==
  /\ CrashStore
  /\ \E stored \in Loaded :
       IF stored = None
       THEN \E r \in Randomness : chain' = <<Genesis(r)>>
       ELSE chain' = stored
  /\ mempool' = {}
  /\ pc' = [o \in Callers |-> "idle"]
  /\ mined' = [o \in Callers |-> None]

Next ==
  \/ \E o \in Callers :
       \/ \E transactions \in Batches : AddBlock(o, transactions)
       \/ PushBlock(o)
       \/ DropBlock(o)
       \/ \E newChain \in Chains :
            ReplaceChain(o, newChain) \/ RefuseChain(o, newChain)
       \/ ClearStored(o)
       \/ AdoptChain(o)
       \/ KeepChain(o)
  \/ \E transaction \in Tx : addToMempool(transaction)
  \/ Restart

Spec == Init /\ [][Next]_vars

\* The event loop resumes a call whose await is over, and the database
\* answers every batch it is given.
CallsProceed(o) ==
  PushBlock(o) \/ DropBlock(o) \/ ClearStored(o) \/ AdoptChain(o)
    \/ KeepChain(o)

CallIsServed(o) == WF_vars(CallsProceed(o))

FairSpec == Spec /\ \A p \in Callers : CallIsServed(p)

-----------------------------------------------------------------------------
(* Properties.                                                             *)

\* Types, and how a call's record here goes with its record in the store.
TypeOK ==
  /\ chain \in Seq(Range(chain)) /\ chain # <<>>
  /\ mempool \subseteq Signed
  /\ pc \in [Callers ->
       {"idle", "mining", "replacing", "resolved", "rejected", "refused"}]
  /\ mined = [o \in Callers |-> mined[o]]
  /\ StoreTypeOK
  /\ \A o \in Callers : pc[o] = "replacing" <=> InProgress(o)

\* The chain a node serves is always one chain from the genesis block on,
\* with true hashes, rising timestamps and a difficulty that moves by at most
\* one: whatever two addBlock calls mined on one tip, whatever was adopted
\* between mining and pushing, and whatever the store held when the process
\* came back.
ChainLinked == Linked(chain)

\* The tip stands for the whole chain: whoever has a linked chain with the
\* tip of this node has its history, block by block, although blocks are only
\* compared by the hash of their parent and a hash may be that of two headers
\* with different difficulties. Those lie ten or more apart, and between two
\* chains that begin alike and move by one at a time there is no such gap.
TipTellsHistory ==
  \A c \in Chains :
    Linked(c) /\ Last(c).hash = Last(chain).hash => SameHistory(c, chain)

Extends(long, short) ==
  /\ Len(short) =< Len(long)
  /\ \A i \in DOMAIN short : long[i] = short[i]

\* The store is never on another branch than the node: what a restart would
\* load is the chain served, or its beginning, or nothing. (Only a read
\* error at startup, taken for an empty database, separates the two.)
StoredIsServed ==
  "read" \notin Faults /\ Load(db) # None => Extends(chain, Load(db))

\* The same through time: the node implements Ledger, with the store's view
\* of its contents for what is kept.
Contract ==
  INSTANCE Ledger WITH
    Beginnings <- {<<Genesis(r)>> : r \in Randomness},
    Misreads <- "read" \in Faults,
    served <- chain,
    kept <- Load(db)

ImplementsLedger == Contract!Spec

\* A tip is out of reach when it is two or more outside the limits: there
\* the next difficulty jumps back to the limit and not by one.
WithinReach(block) ==
  block.difficulty \in (MinDifficulty - 1)..(MaxDifficulty + 1)

\* A node can go on from every tip it may come to serve that is within reach,
\* and from no other: of the blocks it mines on its tip and finds after the
\* tip's own time it accepts each one or none, whatever the clock said at the
\* start. (A peer's chain can bring it a tip that is out of reach.)
TipCanGrow ==
  \A started, found \in Time, nonce \in Nonces :
    found > Last(chain).timestamp =>
      (WithinReach(Last(chain)) <=>
         isValidNewBlock(mineBlock(Last(chain), <<>>, started, found, nonce),
                         Last(chain)))

\* "Received chain is not longer than current chain": a replacement never
\* leaves the node with a chain that is not longer than the one it had.
ReplacementIsLonger ==
  [][\A o \in Callers :
       pc[o] = "replacing" /\ pc'[o] = "resolved" => Len(chain') > Len(chain)
    ]_vars

\* A node's own chain passes the validation it applies to other chains.
OwnChainValid == \A r \in Randomness : isValidChain(chain, r)

\* Every call ends: no replacement waits for ever, even on a store that
\* fails, and no restart leaves one behind.
CallsEnd == \A o \in Callers : Busy(o) ~> ~Busy(o)
=============================================================================
