---------------------------- MODULE ShardManager ----------------------------
(***************************************************************************)
(* src/sharding/ShardManager.js: shards with their pending transactions,   *)
(* chains and validators, and the transactions that cross from one shard   *)
(* to another. A crossing transaction is pending in both shards; the first *)
(* block that holds it makes it processing, the second completes it.       *)
(*                                                                         *)
(* A shard's identifier is its index: identifiers are hashes, and shards   *)
(* are looked up by their order in the map. Nothing under src/ calls       *)
(* finalizeBlock; a block is taken to hold transactions that are pending   *)
(* in its shard when it is proposed. The order of the transactions in a    *)
(* block is any.                                                           *)
(***************************************************************************)
EXTENDS Integers, Sequences, FiniteSets

CONSTANTS
  Callers,          \* the asynchronous calls that may be in progress
  Tx,
  Validators,
  None,
  TotalShards,      \* totalShards
  Source,           \* the shard index of each transaction's sender
  Target,           \* and of its recipient
  EarlyCalls,       \* whether calls come before initializeShards is over
  ProofsFail,       \* whether generating a proof may reject
  MaxSubmissions,   \* bound: how often each transaction is submitted
  MaxBlocks         \* bound: how long a shard's chain grows

Shards == 0..(TotalShards - 1)
Statuses == {"pending", "processing", "completed"}
Entries == [status : Statuses, targetShard : Shards \cup {None}]

ASSUME ShardAssumption ==
  /\ TotalShards \in Nat \ {0}
  /\ Source \in [Tx -> Shards]
  /\ Target \in [Tx -> Shards]
  /\ None \notin Shards /\ None \notin Entries
  /\ EarlyCalls \in BOOLEAN /\ ProofsFail \in BOOLEAN
  /\ MaxSubmissions \in Nat
  /\ MaxBlocks \in Nat

Idle == [at |-> "idle"]

VARIABLES
  shards,                  \* how many shards this.shards holds so far
  pendingTransactions,     \* of each shard
  chain,                   \* of each shard, blocks as sets of transactions
  validatorSet,            \* of each shard
  shardValidators,         \* the shard recorded for each validator
  crossShardTransactions,  \* the entry of each crossing transaction
  submissions,             \* how often each was submitted
  call                     \* the local state of each call

pools == <<pendingTransactions, crossShardTransactions>>
committees == <<validatorSet, shardValidators>>
vars == <<shards, pools, chain, committees, submissions, call>>

Init ==
  /\ shards = 0
  /\ pendingTransactions = [s \in Shards |-> {}]
  /\ chain = [s \in Shards |-> <<>>]
  /\ validatorSet = [s \in Shards |-> {}]
  /\ shardValidators = [v \in Validators |-> None]
  /\ crossShardTransactions = [t \in Tx |-> None]
  /\ submissions = [t \in Tx |-> 0]
  /\ call = [o \in Callers |-> Idle]

Open == 0..(shards - 1)
Serving == EarlyCalls \/ shards = TotalShards

-----------------------------------------------------------------------------
(* Shards and validators.                                                  *)

\* One turn of the loop of initializeShards: it awaits each identifier.
InitializeShard ==
  /\ shards < TotalShards
  /\ shards' = shards + 1
  /\ UNCHANGED <<pools, chain, committees, submissions, call>>

Size(s) == Cardinality(validatorSet[s])

\* Mutant: the minimum is never remembered, and the last shard is taken.
Fewest_Last(s) == s \in Open /\ \A r \in Open : r =< s

\* The first of the shards with the fewest validators.
Fewest(s) ==
  /\ s \in Open
  /\ \A r \in Open : Size(s) =< Size(r) /\ (Size(r) = Size(s) => s =< r)

\* assignValidatorToShard after its signature check: all in one turn.
assignValidatorToShard(v) ==
  /\ Serving
  /\ \E s \in Open :
       /\ Fewest(s)
       /\ validatorSet' = [validatorSet EXCEPT ![s] = @ \cup {v}]
       /\ shardValidators' = [shardValidators EXCEPT ![v] = s]
  /\ UNCHANGED <<shards, pools, chain, submissions, call>>

-----------------------------------------------------------------------------
(* processTransaction.                                                     *)

\* getTransactionShard and getAddressShard: undefined for a shard that is
\* not in the map yet.
ShardAt(index) == IF index \in Open THEN index ELSE None

Crosses(t) == ShardAt(Target[t]) # ShardAt(Source[t])

\* A transaction added to the pools of some shards, or deleted from them.
\* Mutants: in the source shard only.
Added_SourceOnly(t, some) == [pendingTransactions EXCEPT ![Source[t]] = @ \cup {t}]

Added(t, some) == [s \in Shards |->
  IF s \in some THEN pendingTransactions[s] \cup {t} ELSE pendingTransactions[s]]

Deleted_SourceOnly(t, some) == [pendingTransactions EXCEPT ![Source[t]] = @ \ {t}]

Deleted(t, some) == [s \in Shards |->
  IF s \in some THEN pendingTransactions[s] \ {t} ELSE pendingTransactions[s]]

Become(o, state) == call' = [call EXCEPT ![o] = state]

Submit(t) ==
  /\ Serving
  /\ ShardAt(Source[t]) # None
  /\ submissions[t] < MaxSubmissions
  /\ submissions' = [submissions EXCEPT ![t] = @ + 1]

ProcessLocal(t) ==
  /\ Submit(t)
  /\ ~Crosses(t)
  /\ pendingTransactions' = Added(t, {Source[t]})
  /\ UNCHANGED <<shards, crossShardTransactions, chain, committees, call>>

\* processCrossShardTransaction up to the await of its proof.
ProcessCrossing(o, t) ==
  /\ call[o] = Idle
  /\ Submit(t)
  /\ Crosses(t)
  /\ Become(o, [at |-> "submitting", tx |-> t, targetShard |-> ShardAt(Target[t])])
  /\ UNCHANGED <<shards, pools, chain, committees>>

\* With the proof: the entry is set before the shards are looked up, and an
\* undefined target throws when the source has been served.
RecordCrossing(o) ==
  /\ call[o].at = "submitting"
  /\ LET t == call[o].tx
         targetShard == call[o].targetShard
     IN /\ crossShardTransactions' = [crossShardTransactions EXCEPT
             ![t] = [status |-> "pending", targetShard |-> targetShard]]
        /\ pendingTransactions' = Added(t, {Source[t], targetShard})
  /\ Become(o, Idle)
  /\ UNCHANGED <<shards, chain, committees, submissions>>

-----------------------------------------------------------------------------
(* finalizeBlock.                                                          *)

\* Up to the first await.
FinalizeBlock(o, s, block) ==
  /\ call[o] = Idle
  /\ Serving
  /\ s \in Open
  /\ Len(chain[s]) < MaxBlocks
  /\ block # {}
  /\ block \subseteq pendingTransactions[s]
  /\ Become(o, [at |-> "verifying", shard |-> s, block |-> block])
  /\ UNCHANGED <<shards, pools, chain, committees, submissions>>

\* The loop of processCrossShardTransactions, with these still to come.
Processing(c, rest) ==
  [at |-> "processing", shard |-> c.shard, block |-> c.block, rest |-> rest]

\* verifyValidatorSignatures: with too few the call throws.
VerifySignatures(o) ==
  /\ call[o].at = "verifying"
  /\ \/ Become(o, Processing(call[o], call[o].block))
     \/ Become(o, Idle)
  /\ UNCHANGED <<shards, pools, chain, committees, submissions>>

Stage(t) ==
  IF crossShardTransactions[t] = None THEN "none"
  ELSE crossShardTransactions[t].status

\* A turn of the loop, for a transaction in one of these stages.
Turn(o, t, stages) ==
  /\ call[o].at = "processing"
  /\ t \in call[o].rest
  /\ Stage(t) \in stages

\* Nothing to do for one that crosses no shards or is completed;
SkipTransaction(o, t) ==
  /\ Turn(o, t, {"none", "completed"})
  /\ Become(o, Processing(call[o], call[o].rest \ {t}))
  /\ UNCHANGED <<shards, pools, chain, committees, submissions>>

\* Mutant: the entry is replaced by one with the status alone.
WithStatus_Replaced(t, status) ==
  [crossShardTransactions EXCEPT ![t] = [status |-> status]]

WithStatus(t, status) == [crossShardTransactions EXCEPT ![t].status = status]

\* Mutant: without the test for pending.
updateCrossShardTransaction_Any(o, t) ==
  /\ Turn(o, t, Statuses)
  /\ crossShardTransactions' = WithStatus(t, "processing")
  /\ Become(o, Processing(call[o], call[o].rest \ {t}))
  /\ UNCHANGED <<shards, pendingTransactions, chain, committees, submissions>>

\* pending becomes processing at once;
updateCrossShardTransaction(o, t) ==
  /\ Turn(o, t, {"pending"})
  /\ crossShardTransactions' = WithStatus(t, "processing")
  /\ Become(o, Processing(call[o], call[o].rest \ {t}))
  /\ UNCHANGED <<shards, pendingTransactions, chain, committees, submissions>>

\* and processing waits for a proof, the entry in hand.
ProveTransaction(o, t) ==
  /\ Turn(o, t, {"processing"})
  /\ Become(o, [at |-> "proving", shard |-> call[o].shard, block |-> call[o].block,
                rest |-> call[o].rest, tx |-> t, entry |-> crossShardTransactions[t]])
  /\ UNCHANGED <<shards, pools, chain, committees, submissions>>

\* finalizeCrossShardTransaction with its proof.
CompleteTransaction(o) ==
  /\ call[o].at = "proving"
  /\ call[o].entry.targetShard # None
  /\ LET t == call[o].tx
     IN /\ pendingTransactions' = Deleted(t, {Source[t], call[o].entry.targetShard})
        /\ crossShardTransactions' = [crossShardTransactions EXCEPT
             ![t] = [call[o].entry EXCEPT !.status = "completed"]]
        /\ Become(o, Processing(call[o], call[o].rest \ {t}))
  /\ UNCHANGED <<shards, chain, committees, submissions>>

\* Without a target shard it throws, the source's transaction deleted.
CompletionThrows(o) ==
  /\ call[o].at = "proving"
  /\ call[o].entry.targetShard = None
  /\ pendingTransactions' = Deleted(call[o].tx, {Source[call[o].tx]})
  /\ Become(o, Idle)
  /\ UNCHANGED <<shards, crossShardTransactions, chain, committees, submissions>>

\* A proof rejects: the submission or the block is given up as it stands.
ProofFails(o) ==
  /\ ProofsFail
  /\ call[o].at \in {"submitting", "proving"}
  /\ Become(o, Idle)
  /\ UNCHANGED <<shards, pools, chain, committees, submissions>>

\* Mutant: the block's transactions stay pending.
Cleared_Never(o) == pendingTransactions

Cleared(o) == [pendingTransactions EXCEPT ![call[o].shard] = @ \ call[o].block]

\* The rest of finalizeBlock.
PushBlock(o) ==
  /\ call[o].at = "processing"
  /\ call[o].rest = {}
  /\ chain' = [chain EXCEPT ![call[o].shard] = Append(@, call[o].block)]
  /\ pendingTransactions' = Cleared(o)
  /\ Become(o, Idle)
  /\ UNCHANGED <<shards, crossShardTransactions, committees, submissions>>

-----------------------------------------------------------------------------

Next ==
  \/ InitializeShard
  \/ \E v \in Validators : assignValidatorToShard(v)
  \/ \E t \in Tx : ProcessLocal(t)
  \/ \E o \in Callers :
       \/ \E t \in Tx :
            \/ ProcessCrossing(o, t)
            \/ SkipTransaction(o, t)
            \/ updateCrossShardTransaction(o, t)
            \/ ProveTransaction(o, t)
       \/ RecordCrossing(o)
       \/ \E s \in Shards, block \in SUBSET Tx : FinalizeBlock(o, s, block)
       \/ VerifySignatures(o)
       \/ CompleteTransaction(o)
       \/ CompletionThrows(o)
       \/ ProofFails(o)
       \/ PushBlock(o)

Spec == Init /\ [][Next]_vars

-----------------------------------------------------------------------------
(* Properties.                                                             *)

Calls ==
  {Idle}
  \cup [at : {"submitting"}, tx : Tx, targetShard : Shards \cup {None}]
  \cup [at : {"verifying"}, shard : Shards, block : SUBSET Tx]
  \cup [at : {"processing"}, shard : Shards, block : SUBSET Tx, rest : SUBSET Tx]
  \cup [at : {"proving"}, shard : Shards, block : SUBSET Tx, rest : SUBSET Tx,
        tx : Tx, entry : Entries]

\* The state is well-formed; a shard's validators are finitely many.
TypeOK ==
  /\ shards \in 0..TotalShards
  /\ pendingTransactions \in [Shards -> SUBSET Tx]
  /\ chain \in [Shards -> Seq(SUBSET Tx)]
  /\ validatorSet \in [Shards -> SUBSET Validators]
  /\ \A s \in Shards : IsFiniteSet(validatorSet[s])
  /\ shardValidators \in [Validators -> Shards \cup {None}]
  /\ crossShardTransactions \in [Tx -> Entries \cup {None}]
  /\ submissions \in [Tx -> Nat]
  /\ call \in [Callers -> Calls]

\* A crossing transaction that is not completed is still pending in one of
\* the shards, so that some block can take it on (finalizeBlock clears the
\* transactions of its block, whatever became of them meanwhile).
NoOrphan ==
  \A t \in Tx : Stage(t) \in {"pending", "processing"} =>
    \E s \in Shards : t \in pendingTransactions[s]

\* The two stages are the two shards: when a transaction is completed, a
\* block of its source and a block of its target hold it, pushed or about
\* to be (processCrossShardTransactions looks at the status alone, not at
\* the shard whose block it processes).
HeldByBoth ==
  \A t \in Tx : Stage(t) = "completed" =>
    \A s \in {Source[t], Target[t]} :
      \/ \E i \in DOMAIN chain[s] : t \in chain[s][i]
      \/ \E o \in Callers :
           call[o].at \in {"processing", "proving"} /\ call[o].shard = s
             /\ t \in call[o].block

\* The status of a transaction submitted once goes from pending over
\* processing to completed and never back, even if its completion fails.
StagesOnlyAdvance ==
  [][\A t \in Tx : <<Stage(t), Stage(t)'>> \in
       {<<x, x>> : x \in Statuses \cup {"none"}} \cup
       {<<"none", "pending">>, <<"pending", "processing">>,
        <<"processing", "completed">>}]_vars

\* Validators are spread evenly over the shards, also when one is assigned
\* again (assignValidatorToShard takes the shard with the fewest).
Balanced == \A s, r \in Shards : Size(s) =< Size(r) + 1

\* Seen one by one, the crossing transactions live as CrossShard says.
CrossingTx == {t \in Tx : Source[t] # Target[t]}

Life == INSTANCE CrossShard WITH
  Tx <- CrossingTx,
  Ends <- [t \in CrossingTx |-> {Source[t], Target[t]}],
  stage <- [t \in CrossingTx |-> Stage(t)],
  waiting <- [t \in CrossingTx |-> {s \in Shards : t \in pendingTransactions[s]}]

\* Whatever blocks overlap and whatever proofs fail, a transaction submitted
\* once waits in both its shards, is taken on by one block, may then leave
\* one shard, and leaves the rest in the step that completes it.
ImplementsCrossShard == Life!Spec
=============================================================================
