------------------------ MODULE ShardManager_proofs ------------------------
(***************************************************************************)
(* Proofs about ShardManager, for every number of shards, set of callers,  *)
(* validators and transactions, and for every order of calls and faults.   *)
(***************************************************************************)
EXTENDS ShardManager, FiniteSetTheorems, TLAPS

-----------------------------------------------------------------------------
(* Types.                                                                  *)

\* What a call carries at each of its stops.
LEMMA CallFields ==
  ASSUME NEW c \in Calls
  PROVE  /\ c.at \in {"idle", "submitting", "verifying", "processing", "proving"}
         /\ c.at = "idle" => c = Idle
         /\ c.at = "submitting" =>
              c.tx \in Tx /\ c.targetShard \in Shards \cup {None}
         /\ c.at \in {"verifying", "processing", "proving"} =>
              c.shard \in Shards /\ c.block \subseteq Tx
         /\ c.at \in {"processing", "proving"} => c.rest \subseteq Tx
         /\ c.at = "proving" => c.tx \in Tx /\ c.entry \in Entries
BY DEF Calls, Idle

LEMMA ShardAtType == ASSUME NEW i \in Shards PROVE ShardAt(i) \in Shards \cup {None}
BY DEF ShardAt

\* The pools a step makes are pools.
LEMMA PoolTypes ==
  ASSUME TypeOK, NEW t \in Tx, NEW some
  PROVE  /\ Added(t, some) \in [Shards -> SUBSET Tx]
         /\ Deleted(t, some) \in [Shards -> SUBSET Tx]
BY DEF TypeOK, Added, Deleted

\* The loop's state is one of a call.
LEMMA ProcessingType ==
  ASSUME NEW c \in Calls, c.at \in {"verifying", "processing", "proving"},
         NEW rest \in SUBSET Tx
  PROVE  Processing(c, rest) \in Calls
<1>1. c.shard \in Shards /\ c.block \subseteq Tx
  BY CallFields
<1>2. QED
  BY <1>1 DEF Processing, Calls

LEMMA TypeInit == Init => TypeOK
<1> SUFFICES ASSUME Init PROVE TypeOK
  OBVIOUS
<1>1. IsFiniteSet({})
  BY FS_EmptySet
<1>2. \A s \in Shards : chain[s] \in Seq(SUBSET Tx)
  BY DEF Init
<1>3. QED
  BY <1>1, <1>2, ShardAssumption DEF Init, TypeOK, Calls

LEMMA TypeStep == TypeOK /\ [Next]_vars => TypeOK'
<1> SUFFICES ASSUME TypeOK, [Next]_vars PROVE TypeOK'
  OBVIOUS
<1> USE ShardAssumption
<1>k. \A o \in Callers : call[o] \in Calls
  BY DEF TypeOK
<1>i. Idle \in Calls
  BY DEF Calls
<1>1. CASE InitializeShard
  BY <1>1 DEF TypeOK, InitializeShard, pools, committees
<1>2. ASSUME NEW v \in Validators, assignValidatorToShard(v) PROVE TypeOK'
  <2>1. PICK s \in Open :
          /\ validatorSet' = [validatorSet EXCEPT ![s] = @ \cup {v}]
          /\ shardValidators' = [shardValidators EXCEPT ![v] = s]
    BY <1>2 DEF assignValidatorToShard
  <2>2. s \in Shards
    BY <2>1 DEF Open, Shards, TypeOK
  <2>3. \A r \in Shards : IsFiniteSet(validatorSet'[r])
    BY <2>1, <2>2, FS_AddElement DEF TypeOK
  <2>4. QED
    BY <1>2, <2>1, <2>2, <2>3 DEF TypeOK, assignValidatorToShard, pools
<1>3. ASSUME NEW t \in Tx, ProcessLocal(t) PROVE TypeOK'
  <2>1. submissions' \in [Tx -> Nat]
    BY <1>3 DEF TypeOK, ProcessLocal, Submit
  <2>2. pendingTransactions' \in [Shards -> SUBSET Tx]
    BY <1>3, PoolTypes DEF ProcessLocal
  <2>3. QED
    BY <1>3, <2>1, <2>2 DEF TypeOK, ProcessLocal, committees
<1>4. ASSUME NEW o \in Callers, NEW t \in Tx, ProcessCrossing(o, t) PROVE TypeOK'
  <2>1. submissions' \in [Tx -> Nat]
    BY <1>4 DEF TypeOK, ProcessCrossing, Submit
  <2>2. [at |-> "submitting", tx |-> t, targetShard |-> ShardAt(Target[t])] \in Calls
    BY ShardAtType DEF Calls
  <2>3. call' \in [Callers -> Calls]
    BY <1>4, <2>2 DEF TypeOK, ProcessCrossing, Become
  <2>4. QED
    BY <1>4, <2>1, <2>3 DEF TypeOK, ProcessCrossing, pools, committees
<1>5. ASSUME NEW o \in Callers, NEW t \in Tx, SkipTransaction(o, t) PROVE TypeOK'
  <2>1. Processing(call[o], call[o].rest \ {t}) \in Calls
    BY <1>5, <1>k, CallFields, ProcessingType DEF SkipTransaction, Turn
  <2>2. QED
    BY <1>5, <2>1 DEF TypeOK, SkipTransaction, Become, pools, committees
<1>6. ASSUME NEW o \in Callers, NEW t \in Tx, updateCrossShardTransaction(o, t)
      PROVE  TypeOK'
  <2>1. Processing(call[o], call[o].rest \ {t}) \in Calls
    BY <1>6, <1>k, CallFields, ProcessingType DEF updateCrossShardTransaction, Turn
  <2>2. crossShardTransactions[t] \in Entries
    BY <1>6 DEF TypeOK, updateCrossShardTransaction, Turn, Stage
  <2>3. crossShardTransactions' \in [Tx -> Entries \cup {None}]
    BY <1>6, <2>2
       DEF TypeOK, updateCrossShardTransaction, WithStatus, Entries, Statuses
  <2>4. QED
    BY <1>6, <2>1, <2>3 DEF TypeOK, updateCrossShardTransaction, Become, committees
<1>7. ASSUME NEW o \in Callers, NEW t \in Tx, ProveTransaction(o, t) PROVE TypeOK'
  <2>1. crossShardTransactions[t] \in Entries
    BY <1>7 DEF TypeOK, ProveTransaction, Turn, Stage
  <2>2. /\ call[o].shard \in Shards /\ call[o].block \subseteq Tx
        /\ call[o].rest \subseteq Tx
    BY <1>7, <1>k, CallFields DEF ProveTransaction, Turn
  <2>3. [at |-> "proving", shard |-> call[o].shard, block |-> call[o].block,
         rest |-> call[o].rest, tx |-> t, entry |-> crossShardTransactions[t]] \in Calls
    BY <2>1, <2>2 DEF Calls
  <2>4. QED
    BY <1>7, <2>3 DEF TypeOK, ProveTransaction, Become, pools, committees
<1>8. ASSUME NEW o \in Callers, RecordCrossing(o) PROVE TypeOK'
  <2>1. call[o].tx \in Tx /\ call[o].targetShard \in Shards \cup {None}
    BY <1>8, <1>k, CallFields DEF RecordCrossing
  <2>2. crossShardTransactions' \in [Tx -> Entries \cup {None}]
    BY <1>8, <2>1 DEF TypeOK, RecordCrossing, Entries, Statuses
  <2>3. pendingTransactions' \in [Shards -> SUBSET Tx]
    BY <1>8, <2>1, PoolTypes DEF RecordCrossing
  <2>4. QED
    BY <1>8, <1>i, <2>2, <2>3 DEF TypeOK, RecordCrossing, Become, committees
<1>9. ASSUME NEW o \in Callers, NEW s \in Shards, NEW block \in SUBSET Tx,
             FinalizeBlock(o, s, block)
      PROVE  TypeOK'
  <2>1. [at |-> "verifying", shard |-> s, block |-> block] \in Calls
    BY DEF Calls
  <2>2. QED
    BY <1>9, <2>1 DEF TypeOK, FinalizeBlock, Become, pools, committees
<1>10. ASSUME NEW o \in Callers, VerifySignatures(o) PROVE TypeOK'
  <2>1. Processing(call[o], call[o].block) \in Calls
    BY <1>10, <1>k, CallFields, ProcessingType DEF VerifySignatures
  <2>2. call' \in [Callers -> Calls]
    BY <1>10, <1>i, <2>1 DEF TypeOK, VerifySignatures, Become
  <2>3. QED
    BY <1>10, <2>2 DEF TypeOK, VerifySignatures, pools, committees
<1>11. ASSUME NEW o \in Callers, CompleteTransaction(o) PROVE TypeOK'
  <2>1. /\ call[o].tx \in Tx /\ call[o].entry \in Entries /\ call[o].rest \subseteq Tx
        /\ Processing(call[o], call[o].rest \ {call[o].tx}) \in Calls
    BY <1>11, <1>k, CallFields, ProcessingType DEF CompleteTransaction
  <2>2. crossShardTransactions' \in [Tx -> Entries \cup {None}]
    BY <1>11, <2>1 DEF TypeOK, CompleteTransaction, Entries, Statuses
  <2>3. pendingTransactions' \in [Shards -> SUBSET Tx]
    BY <1>11, <2>1, PoolTypes DEF CompleteTransaction
  <2>4. QED
    BY <1>11, <2>1, <2>2, <2>3 DEF TypeOK, CompleteTransaction, Become, committees
<1>12. ASSUME NEW o \in Callers, CompletionThrows(o) PROVE TypeOK'
  <2>1. pendingTransactions' \in [Shards -> SUBSET Tx]
    BY <1>12, <1>k, CallFields, PoolTypes DEF CompletionThrows
  <2>2. QED
    BY <1>12, <1>i, <2>1 DEF TypeOK, CompletionThrows, Become, committees
<1>13. ASSUME NEW o \in Callers, ProofFails(o) PROVE TypeOK'
  BY <1>13, <1>i DEF TypeOK, ProofFails, Become, pools, committees
<1>14. ASSUME NEW o \in Callers, PushBlock(o) PROVE TypeOK'
  <2>1. call[o].shard \in Shards /\ call[o].block \in SUBSET Tx
    BY <1>14, <1>k, CallFields DEF PushBlock
  <2>2. Append(chain[call[o].shard], call[o].block) \in Seq(SUBSET Tx)
    BY <2>1 DEF TypeOK
  <2>3. chain' \in [Shards -> Seq(SUBSET Tx)]
    BY <1>14, <2>1, <2>2 DEF TypeOK, PushBlock
  <2>4. pendingTransactions' \in [Shards -> SUBSET Tx]
    BY <1>14, <2>1 DEF TypeOK, PushBlock, Cleared
  <2>5. QED
    BY <1>14, <1>i, <2>3, <2>4 DEF TypeOK, PushBlock, Become, committees
<1>15. CASE UNCHANGED vars
  BY <1>15 DEF TypeOK, vars, pools, committees
<1>16. QED
  BY <1>1, <1>2, <1>3, <1>4, <1>5, <1>6, <1>7, <1>8, <1>9, <1>10, <1>11,
     <1>12, <1>13, <1>14, <1>15 DEF Next

\* The shards, their pools, the entries and the calls are well-formed in
\* every reachable state (all of ShardManager.js).
THEOREM ShardTypeCorrect == Spec => []TypeOK
<1>1. QED
  BY TypeInit, TypeStep, PTL DEF Spec

-----------------------------------------------------------------------------
(* Validators.                                                             *)

LEMMA SizesAreNat == TypeOK => \A s \in Shards : Size(s) \in Nat
BY FS_CardinalityType DEF TypeOK, Size

\* Without early calls, whoever is served sees all the shards.
LEMMA AllOpen == ~EarlyCalls /\ Serving => Open = Shards
BY DEF Serving, Open, Shards

LEMMA BalanceInit == Init => Balanced
<1> SUFFICES ASSUME Init PROVE Balanced
  OBVIOUS
<1>1. \A s \in Shards : Size(s) = 0
  BY FS_EmptySet DEF Init, Size
<1>2. QED
  BY <1>1 DEF Balanced

LEMMA BalanceStep == ~EarlyCalls /\ TypeOK /\ Balanced /\ [Next]_vars => Balanced'
<1> SUFFICES ASSUME ~EarlyCalls, TypeOK, Balanced, [Next]_vars PROVE Balanced'
  OBVIOUS
<1>1. ASSUME NEW v \in Validators, assignValidatorToShard(v) PROVE Balanced'
  <2>1. PICK s \in Open :
          Fewest(s) /\ validatorSet' = [validatorSet EXCEPT ![s] = @ \cup {v}]
    BY <1>1 DEF assignValidatorToShard
  <2>2. s \in Shards /\ \A r \in Shards : Size(s) =< Size(r)
    BY <1>1, <2>1, AllOpen DEF assignValidatorToShard, Fewest
  <2>3. Size(s)' \in {Size(s), Size(s) + 1}
    BY <2>1, <2>2, FS_AddElement DEF Size, TypeOK
  <2>4. \A r \in Shards \ {s} : Size(r)' = Size(r)
    BY <2>1, <2>2 DEF Size, TypeOK
  <2>5. ASSUME NEW p \in Shards, NEW r \in Shards PROVE Size(p)' =< Size(r)' + 1
    <3>1. /\ Size(p) \in Nat /\ Size(r) \in Nat /\ Size(s) \in Nat
          /\ Size(p) =< Size(r) + 1
          /\ Size(s) =< Size(r)
      BY SizesAreNat, <2>2 DEF Balanced
    <3>2. QED
      BY <2>3, <2>4, <3>1
  <2>6. QED
    BY <2>5 DEF Balanced
<1>2. CASE UNCHANGED validatorSet
  BY <1>2 DEF Balanced, Size
<1>3. QED
  BY <1>1, <1>2
     DEF Next, vars, committees, InitializeShard, ProcessLocal, ProcessCrossing,
         SkipTransaction, updateCrossShardTransaction, ProveTransaction,
         RecordCrossing, FinalizeBlock, VerifySignatures, CompleteTransaction,
         CompletionThrows, ProofFails, PushBlock

\* However often validators are assigned and assigned again, no shard has two
\* more than another (assignValidatorToShard), once the shards are there.
THEOREM ValidatorsStayBalanced ==
  ASSUME ~EarlyCalls
  PROVE  Spec => []Balanced
<1>1. TypeOK /\ Balanced /\ [Next]_vars => Balanced'
  BY BalanceStep
<1>2. QED
  BY <1>1, BalanceInit, ShardTypeCorrect, PTL DEF Spec

-----------------------------------------------------------------------------
(* Transactions submitted once. What makes the stages advance is that the  *)
(* one submission is the only step that makes an entry, and that a call    *)
(* waiting for a proof of completion holds a transaction already taken on. *)

Submitting(o, t) == call[o].at = "submitting" /\ call[o].tx = t

Proving(o, t) == call[o].at = "proving" /\ call[o].tx = t

OneSubmission ==
  \A t \in Tx :
    /\ submissions[t] =< 1
    /\ submissions[t] = 0 => Stage(t) = "none"
    /\ \A o \in Callers :
         /\ Submitting(o, t) => submissions[t] = 1 /\ Stage(t) = "none"
         /\ \A p \in Callers : Submitting(o, t) /\ Submitting(p, t) => o = p
         /\ Proving(o, t) => Stage(t) \in {"processing", "completed"}

Advances(t) == <<Stage(t), Stage(t)'>> \in
  {<<x, x>> : x \in Statuses \cup {"none"}} \cup
  {<<"none", "pending">>, <<"pending", "processing">>, <<"processing", "completed">>}

LEMMA StageType == TypeOK => \A t \in Tx : Stage(t) \in Statuses \cup {"none"}
BY DEF TypeOK, Stage, Entries

LEMMA OneSubmissionInit == Init => OneSubmission
BY DEF Init, OneSubmission, Stage, Submitting, Proving, Idle

\* Steps that change no stage, take no submission, and start no proof of a
\* transaction that is not taken on.
LEMMA OneSubmissionCalm ==
  ASSUME OneSubmission, UNCHANGED submissions,
         \A t \in Tx : Stage(t)' = Stage(t),
         \A t \in Tx, o \in Callers :
           /\ Submitting(o, t)' => Submitting(o, t)
           /\ Proving(o, t)' => Proving(o, t) \/ Stage(t) = "processing"
  PROVE  OneSubmission' /\ \A t \in Tx : Stage(t)' = Stage(t)
<1>1. OneSubmission'
  BY DEF OneSubmission
<1>2. QED
  BY <1>1

LEMMA OneSubmissionStep ==
  ASSUME MaxSubmissions =< 1, TypeOK, OneSubmission, [Next]_vars
  PROVE  OneSubmission' /\ \A t \in Tx : Advances(t)
<1> USE ShardAssumption
<1>c. ASSUME \A t \in Tx : Stage(t)' = Stage(t) PROVE \A t \in Tx : Advances(t)
  BY <1>c, StageType DEF Advances
<1>a. CASE /\ UNCHANGED <<submissions, crossShardTransactions>>
           /\ \A t \in Tx, o \in Callers :
                /\ Submitting(o, t)' => Submitting(o, t)
                /\ Proving(o, t)' => Proving(o, t) \/ Stage(t) = "processing"
  <2>1. \A t \in Tx : Stage(t)' = Stage(t)
    BY <1>a DEF Stage
  <2>2. QED
    BY <1>a, <1>c, <2>1, OneSubmissionCalm
<1>1. CASE UNCHANGED <<submissions, crossShardTransactions, call>>
  BY <1>1, <1>a DEF Submitting, Proving
<1>2. ASSUME NEW t \in Tx, ProcessLocal(t)
      PROVE  OneSubmission' /\ \A u \in Tx : Advances(u)
  <2>1. submissions[t] = 0 /\ submissions' = [submissions EXCEPT ![t] = 1]
    <3>1. /\ submissions[t] < MaxSubmissions
          /\ submissions' = [submissions EXCEPT ![t] = submissions[t] + 1]
      BY <1>2 DEF ProcessLocal, Submit
    <3>2. submissions[t] \in Nat
      BY DEF TypeOK
    <3>3. submissions[t] = 0
      BY <3>1, <3>2
    <3>4. QED
      BY <3>1, <3>3
  <2>2. UNCHANGED <<crossShardTransactions, call>>
    BY <1>2 DEF ProcessLocal
  <2>3. \A u \in Tx : Stage(u)' = Stage(u)
    BY <2>2 DEF Stage
  <2>4. OneSubmission'
    BY <2>1, <2>2, <2>3 DEF OneSubmission, Submitting, Proving, TypeOK
  <2>5. QED
    BY <1>c, <2>3, <2>4
<1>3. ASSUME NEW o \in Callers, NEW t \in Tx, ProcessCrossing(o, t)
      PROVE  OneSubmission' /\ \A u \in Tx : Advances(u)
  <2>1. submissions[t] = 0 /\ submissions' = [submissions EXCEPT ![t] = 1]
    <3>1. /\ submissions[t] < MaxSubmissions
          /\ submissions' = [submissions EXCEPT ![t] = submissions[t] + 1]
      BY <1>3 DEF ProcessCrossing, Submit
    <3>2. submissions[t] \in Nat
      BY DEF TypeOK
    <3>3. submissions[t] = 0
      BY <3>1, <3>2
    <3>4. QED
      BY <3>1, <3>3
  <2>2. /\ UNCHANGED crossShardTransactions
        /\ call' = [call EXCEPT ![o] =
             [at |-> "submitting", tx |-> t, targetShard |-> ShardAt(Target[t])]]
    BY <1>3 DEF ProcessCrossing, pools, Become
  <2>3. \A u \in Tx : Stage(u)' = Stage(u)
    BY <2>2 DEF Stage
  <2>4. /\ \A p \in Callers, u \in Tx :
             Submitting(p, u)' <=> IF p = o THEN u = t ELSE Submitting(p, u)
        /\ \A p \in Callers, u \in Tx : Proving(p, u)' => Proving(p, u)
    BY <2>2 DEF Submitting, Proving, TypeOK
  <2>5. ASSUME NEW u \in Tx
        PROVE  /\ submissions'[u] =< 1
               /\ submissions'[u] = 0 => Stage(u)' = "none"
               /\ \A p \in Callers :
                    /\ Submitting(p, u)' => submissions'[u] = 1 /\ Stage(u)' = "none"
                    /\ \A q \in Callers :
                         Submitting(p, u)' /\ Submitting(q, u)' => p = q
                    /\ Proving(p, u)' => Stage(u)' \in {"processing", "completed"}
    BY <2>1, <2>3, <2>4 DEF OneSubmission, TypeOK
  <2>6. OneSubmission'
    BY <2>5 DEF OneSubmission
  <2>7. QED
    BY <1>c, <2>3, <2>6
<1>4. ASSUME NEW o \in Callers, RecordCrossing(o)
      PROVE  OneSubmission' /\ \A u \in Tx : Advances(u)
  <2>1. PICK t \in Tx : t = call[o].tx /\ Submitting(o, t)
    BY <1>4, CallFields DEF RecordCrossing, TypeOK, Submitting
  <2>2. /\ crossShardTransactions' = [crossShardTransactions EXCEPT
             ![t] = [status |-> "pending", targetShard |-> call[o].targetShard]]
        /\ call' = [call EXCEPT ![o] = Idle]
        /\ UNCHANGED submissions
    BY <1>4, <2>1 DEF RecordCrossing, Become
  <2>3. [status |-> "pending", targetShard |-> call[o].targetShard] \in Entries
    BY <1>4, CallFields DEF RecordCrossing, TypeOK, Entries, Statuses
  <2>4. Stage(t)' = "pending" /\ \A u \in Tx \ {t} : Stage(u)' = Stage(u)
    BY <2>1, <2>2, <2>3 DEF Stage, TypeOK
  <2>5. /\ \A p \in Callers, u \in Tx : Submitting(p, u)' => p # o /\ Submitting(p, u)
        /\ \A p \in Callers, u \in Tx : Proving(p, u)' => Proving(p, u)
    BY <2>2 DEF Submitting, Proving, TypeOK, Idle
  <2>6. /\ submissions[t] = 1 /\ Stage(t) = "none"
        /\ \A p \in Callers : Submitting(p, t) => p = o
        /\ \A p \in Callers : ~Proving(p, t)
    BY <2>1 DEF OneSubmission
  <2>7. OneSubmission'
    <3>1. ASSUME NEW u \in Tx
          PROVE  /\ submissions'[u] =< 1
                 /\ submissions'[u] = 0 => Stage(u)' = "none"
                 /\ \A p \in Callers :
                      /\ Submitting(p, u)' => submissions'[u] = 1 /\ Stage(u)' = "none"
                      /\ \A q \in Callers :
                           Submitting(p, u)' /\ Submitting(q, u)' => p = q
                      /\ Proving(p, u)' => Stage(u)' \in {"processing", "completed"}
      BY <2>1, <2>2, <2>4, <2>5, <2>6 DEF OneSubmission
    <3>2. QED
      BY <3>1 DEF OneSubmission
  <2>8. \A u \in Tx : Advances(u)
    BY <2>4, <2>6, StageType DEF Advances
  <2>9. QED
    BY <2>7, <2>8
<1>5. ASSUME NEW o \in Callers, NEW t \in Tx, updateCrossShardTransaction(o, t)
      PROVE  OneSubmission' /\ \A u \in Tx : Advances(u)
  <2>1. /\ Stage(t) = "pending"
        /\ crossShardTransactions[t] \in Entries
    BY <1>5 DEF updateCrossShardTransaction, Turn, Stage, TypeOK
  <2>2. [crossShardTransactions[t] EXCEPT !.status = "processing"] \in Entries
    BY <2>1 DEF Entries, Statuses
  <2>3. /\ crossShardTransactions' = [crossShardTransactions EXCEPT
             ![t] = [crossShardTransactions[t] EXCEPT !.status = "processing"]]
        /\ call' = [call EXCEPT ![o] = Processing(call[o], call[o].rest \ {t})]
        /\ UNCHANGED submissions
    BY <1>5 DEF updateCrossShardTransaction, WithStatus, Become
  <2>4. Stage(t)' = "processing" /\ \A u \in Tx \ {t} : Stage(u)' = Stage(u)
    BY <2>1, <2>2, <2>3 DEF Stage, TypeOK, Entries
  <2>5. \A p \in Callers, u \in Tx :
          /\ Submitting(p, u)' => Submitting(p, u)
          /\ Proving(p, u)' => Proving(p, u)
    BY <2>3 DEF Submitting, Proving, TypeOK, Processing
  <2>6. OneSubmission'
    BY <2>1, <2>3, <2>4, <2>5 DEF OneSubmission
  <2>7. QED
    BY <2>1, <2>4, <2>6, StageType DEF Advances
<1>6. ASSUME NEW o \in Callers, CompleteTransaction(o)
      PROVE  OneSubmission' /\ \A u \in Tx : Advances(u)
  <2>1. PICK t \in Tx :
          t = call[o].tx /\ Proving(o, t) /\ call[o].entry \in Entries
    BY <1>6, CallFields DEF CompleteTransaction, TypeOK, Proving
  <2>2. /\ crossShardTransactions' = [crossShardTransactions EXCEPT
             ![t] = [call[o].entry EXCEPT !.status = "completed"]]
        /\ call' = [call EXCEPT ![o] = Processing(call[o], call[o].rest \ {t})]
        /\ UNCHANGED submissions
    BY <1>6, <2>1 DEF CompleteTransaction, Become
  <2>3. [call[o].entry EXCEPT !.status = "completed"] \in Entries
    BY <2>1 DEF Entries, Statuses
  <2>4. Stage(t)' = "completed" /\ \A u \in Tx \ {t} : Stage(u)' = Stage(u)
    BY <2>1, <2>2, <2>3 DEF Stage, TypeOK, Entries
  <2>5. \A p \in Callers, u \in Tx :
          /\ Submitting(p, u)' => Submitting(p, u)
          /\ Proving(p, u)' => Proving(p, u)
    BY <2>2 DEF Submitting, Proving, TypeOK, Processing
  <2>6. Stage(t) \in {"processing", "completed"}
    BY <2>1 DEF OneSubmission
  <2>7. OneSubmission'
    BY <2>1, <2>2, <2>4, <2>5, <2>6 DEF OneSubmission
  <2>8. QED
    BY <2>1, <2>4, <2>6, <2>7, StageType DEF Advances
<1>7. ASSUME NEW o \in Callers, NEW t \in Tx, ProveTransaction(o, t)
      PROVE  OneSubmission' /\ \A u \in Tx : Advances(u)
  BY <1>7, <1>a
     DEF ProveTransaction, Turn, Become, Submitting, Proving, TypeOK, pools
<1>8. ASSUME NEW o \in Callers, NEW t \in Tx, SkipTransaction(o, t)
      PROVE  OneSubmission' /\ \A u \in Tx : Advances(u)
  BY <1>8, <1>a
     DEF SkipTransaction, Become, Processing, Submitting, Proving, TypeOK, pools
<1>9. ASSUME NEW o \in Callers, VerifySignatures(o)
      PROVE  OneSubmission' /\ \A u \in Tx : Advances(u)
  <2>1. \A p \in Callers : call'[p] = call[p] \/ call'[p].at \in {"idle", "processing"}
    BY <1>9 DEF VerifySignatures, Become, Processing, Idle, TypeOK
  <2>2. QED
    BY <1>9, <1>a, <2>1 DEF VerifySignatures, Submitting, Proving, pools
<1>10. ASSUME NEW o \in Callers, NEW s \in Shards, NEW block \in SUBSET Tx,
              FinalizeBlock(o, s, block)
       PROVE  OneSubmission' /\ \A u \in Tx : Advances(u)
  BY <1>10, <1>a DEF FinalizeBlock, Become, Submitting, Proving, TypeOK, pools
<1>11. ASSUME NEW o \in Callers, CompletionThrows(o) \/ ProofFails(o) \/ PushBlock(o)
       PROVE  OneSubmission' /\ \A u \in Tx : Advances(u)
  <2>1. /\ call' = [call EXCEPT ![o] = Idle]
        /\ UNCHANGED <<submissions, crossShardTransactions>>
    BY <1>11 DEF CompletionThrows, ProofFails, PushBlock, Become, pools
  <2>2. \A p \in Callers : call'[p] = call[p] \/ call'[p].at = "idle"
    BY <2>1 DEF Idle, TypeOK
  <2>3. QED
    BY <1>a, <2>1, <2>2 DEF Submitting, Proving
<1>12. CASE InitializeShard \/ UNCHANGED vars
  BY <1>12, <1>1 DEF InitializeShard, vars, pools
<1>13. ASSUME NEW v \in Validators, assignValidatorToShard(v)
       PROVE  OneSubmission' /\ \A u \in Tx : Advances(u)
  BY <1>13, <1>1 DEF assignValidatorToShard, pools
<1>14. QED
  BY <1>2, <1>3, <1>4, <1>5, <1>6, <1>7, <1>8, <1>9, <1>10, <1>11, <1>12, <1>13
     DEF Next

\* A transaction submitted once never goes back to an earlier status, even
\* when shards are missing and proofs fail (processCrossShardTransactions).
THEOREM StagesNeverRetreat ==
  ASSUME MaxSubmissions =< 1
  PROVE  Spec => StagesOnlyAdvance
<1> DEFINE P == \A t \in Tx : Advances(t)
<1>1. TypeOK /\ OneSubmission /\ [Next]_vars => OneSubmission' /\ P
  BY OneSubmissionStep
<1>2. P => [\A t \in Tx : <<Stage(t), Stage(t)'>> \in
       {<<x, x>> : x \in Statuses \cup {"none"}} \cup
       {<<"none", "pending">>, <<"pending", "processing">>,
        <<"processing", "completed">>}]_vars
  BY DEF Advances
<1>3. QED
  BY <1>1, <1>2, OneSubmissionInit, ShardTypeCorrect, PTL DEF Spec, StagesOnlyAdvance

-----------------------------------------------------------------------------
(* Where an unfinished transaction waits. Entries and calls name the shard *)
(* of the recipient once all shards are there.                             *)

EndsKnown ==
  /\ \A t \in Tx : Stage(t) # "none" =>
       t \in CrossingTx /\ crossShardTransactions[t].targetShard = Target[t]
  /\ \A o \in Callers :
       /\ call[o].at = "submitting" =>
            call[o].tx \in CrossingTx /\ call[o].targetShard = Target[call[o].tx]
       /\ call[o].at = "proving" =>
            /\ call[o].tx \in CrossingTx
            /\ call[o].entry.targetShard = Target[call[o].tx]
       /\ call[o].at \in {"processing", "proving"} => call[o].rest \subseteq call[o].block

LEMMA ShardsAreOpen ==
  ASSUME ~EarlyCalls, Serving, NEW i \in Shards
  PROVE  ShardAt(i) = i
BY AllOpen DEF ShardAt

LEMMA NotNone == ASSUME TypeOK, NEW t \in Tx
  PROVE  Stage(t) # "none" <=> crossShardTransactions[t] \in Entries
BY ShardAssumption DEF TypeOK, Stage, Entries, Statuses

LEMMA EndsKnownInit == Init => EndsKnown
BY DEF Init, EndsKnown, Stage, Idle

\* A step that leaves the entries alone and every call but one.
LEMMA EndsKnownCall ==
  ASSUME TypeOK, EndsKnown, UNCHANGED crossShardTransactions,
         NEW o \in Callers, NEW c, Become(o, c),
         c.at = "submitting" => c.tx \in CrossingTx /\ c.targetShard = Target[c.tx],
         c.at = "proving" =>
           c.tx \in CrossingTx /\ c.entry.targetShard = Target[c.tx],
         c.at \in {"processing", "proving"} => c.rest \subseteq c.block
  PROVE  EndsKnown'
<1>1. \A t \in Tx : Stage(t)' = Stage(t)
  BY DEF Stage
<1>2. \A p \in Callers : call'[p] = IF p = o THEN c ELSE call[p]
  BY DEF Become, TypeOK
<1>3. QED
  BY <1>1, <1>2 DEF EndsKnown

LEMMA EndsKnownStep ==
  ASSUME ~EarlyCalls, TypeOK, EndsKnown, [Next]_vars
  PROVE  EndsKnown'
<1> USE ShardAssumption
<1>i. Idle.at = "idle"
  BY DEF Idle
<1>1. CASE UNCHANGED <<crossShardTransactions, call>>
  BY <1>1 DEF EndsKnown, Stage
<1>2. ASSUME NEW o \in Callers, NEW t \in Tx, ProcessCrossing(o, t) PROVE EndsKnown'
  <2>1. Source[t] \in Shards /\ Target[t] \in Shards /\ Serving
    BY <1>2 DEF ProcessCrossing, Submit
  <2>2. t \in CrossingTx /\ ShardAt(Target[t]) = Target[t]
    BY <1>2, <2>1, ShardsAreOpen DEF ProcessCrossing, Crosses, CrossingTx
  <2>3. QED
    BY <1>2, <2>2, EndsKnownCall DEF ProcessCrossing, pools
<1>3. ASSUME NEW o \in Callers, RecordCrossing(o) PROVE EndsKnown'
  <2>1. PICK t \in CrossingTx : t = call[o].tx /\ call[o].targetShard = Target[t]
    BY <1>3 DEF RecordCrossing, EndsKnown
  <2>2. /\ crossShardTransactions' = [crossShardTransactions EXCEPT
             ![t] = [status |-> "pending", targetShard |-> Target[t]]]
        /\ call' = [call EXCEPT ![o] = Idle]
    BY <1>3, <2>1 DEF RecordCrossing, Become
  <2>3. \A u \in Tx : u # t => Stage(u)' = Stage(u)
                              /\ crossShardTransactions'[u] = crossShardTransactions[u]
    BY <2>2 DEF Stage, TypeOK
  <2>4. crossShardTransactions'[t].targetShard = Target[t]
    BY <2>1, <2>2 DEF TypeOK, CrossingTx
  <2>5. \A p \in Callers : call'[p] = call[p] \/ call'[p].at = "idle"
    BY <2>2, <1>i DEF TypeOK
  <2>6. QED
    BY <2>1, <2>3, <2>4, <2>5 DEF EndsKnown
<1>4. ASSUME NEW o \in Callers, NEW t \in Tx, updateCrossShardTransaction(o, t)
      PROVE  EndsKnown'
  <2>1. /\ Stage(t) = "pending" /\ crossShardTransactions[t] \in Entries
        /\ call[o].rest \subseteq call[o].block
        /\ t \in CrossingTx /\ crossShardTransactions[t].targetShard = Target[t]
    BY <1>4, NotNone DEF updateCrossShardTransaction, Turn, EndsKnown
  <2>2. /\ crossShardTransactions' = [crossShardTransactions EXCEPT
             ![t] = [crossShardTransactions[t] EXCEPT !.status = "processing"]]
        /\ call' = [call EXCEPT ![o] = Processing(call[o], call[o].rest \ {t})]
    BY <1>4 DEF updateCrossShardTransaction, WithStatus, Become
  <2>3. \A u \in Tx : u # t => Stage(u)' = Stage(u)
                              /\ crossShardTransactions'[u] = crossShardTransactions[u]
    BY <2>2 DEF Stage, TypeOK
  <2>4. crossShardTransactions'[t].targetShard = Target[t]
    BY <2>1, <2>2 DEF TypeOK, Entries
  <2>5. \A p \in Callers :
          \/ call'[p] = call[p]
          \/ call'[p].at = "processing" /\ call'[p].rest \subseteq call'[p].block
    BY <2>1, <2>2 DEF TypeOK, Processing
  <2>6. QED
    BY <2>1, <2>3, <2>4, <2>5 DEF EndsKnown
<1>5. ASSUME NEW o \in Callers, CompleteTransaction(o) PROVE EndsKnown'
  <2>1. PICK t \in CrossingTx :
          /\ t = call[o].tx /\ call[o].entry.targetShard = Target[t]
          /\ call[o].rest \subseteq call[o].block
          /\ call[o].entry \in Entries
    BY <1>5, CallFields DEF CompleteTransaction, EndsKnown, TypeOK
  <2>2. /\ crossShardTransactions' = [crossShardTransactions EXCEPT
             ![t] = [call[o].entry EXCEPT !.status = "completed"]]
        /\ call' = [call EXCEPT ![o] = Processing(call[o], call[o].rest \ {t})]
    BY <1>5, <2>1 DEF CompleteTransaction, Become
  <2>3. \A u \in Tx : u # t => Stage(u)' = Stage(u)
                              /\ crossShardTransactions'[u] = crossShardTransactions[u]
    BY <2>2 DEF Stage, TypeOK
  <2>4. crossShardTransactions'[t].targetShard = Target[t]
    BY <2>1, <2>2 DEF TypeOK, CrossingTx, Entries
  <2>5. \A p \in Callers :
          \/ call'[p] = call[p]
          \/ call'[p].at = "processing" /\ call'[p].rest \subseteq call'[p].block
    BY <2>1, <2>2 DEF TypeOK, Processing
  <2>6. QED
    BY <2>1, <2>3, <2>4, <2>5 DEF EndsKnown
<1>6. ASSUME NEW o \in Callers, NEW t \in Tx, ProveTransaction(o, t) PROVE EndsKnown'
  <2>1. /\ t \in CrossingTx /\ crossShardTransactions[t].targetShard = Target[t]
        /\ call[o].rest \subseteq call[o].block
    BY <1>6 DEF ProveTransaction, Turn, EndsKnown
  <2>2. QED
    BY <1>6, <2>1, EndsKnownCall DEF ProveTransaction, pools
<1>7. ASSUME NEW o \in Callers, NEW t \in Tx, SkipTransaction(o, t) PROVE EndsKnown'
  <2>1. call[o].rest \subseteq call[o].block
    BY <1>7 DEF SkipTransaction, Turn, EndsKnown
  <2> DEFINE c == Processing(call[o], call[o].rest \ {t})
  <2>2. c.at = "processing" /\ c.rest \subseteq c.block
    BY <2>1 DEF Processing
  <2>3. Become(o, c) /\ UNCHANGED crossShardTransactions
    BY <1>7 DEF SkipTransaction, pools
  <2> HIDE DEF c
  <2>4. QED
    BY <2>2, <2>3, EndsKnownCall
<1>8. ASSUME NEW o \in Callers, VerifySignatures(o) PROVE EndsKnown'
  <2> DEFINE c == Processing(call[o], call[o].block)
  <2>1. c.at = "processing" /\ c.rest \subseteq c.block
    BY DEF Processing
  <2>2. (Become(o, c) \/ Become(o, Idle)) /\ UNCHANGED crossShardTransactions
    BY <1>8 DEF VerifySignatures, pools
  <2> HIDE DEF c
  <2>3. QED
    BY <2>1, <2>2, <1>i, EndsKnownCall
<1>9. ASSUME NEW o \in Callers, NEW s \in Shards, NEW block \in SUBSET Tx,
             FinalizeBlock(o, s, block)
      PROVE  EndsKnown'
  BY <1>9, EndsKnownCall DEF FinalizeBlock, pools
<1>10. ASSUME NEW o \in Callers, CompletionThrows(o) \/ ProofFails(o) \/ PushBlock(o)
       PROVE  EndsKnown'
  <2>1. Become(o, Idle) /\ UNCHANGED crossShardTransactions
    BY <1>10 DEF CompletionThrows, ProofFails, PushBlock, pools
  <2>2. QED
    BY <2>1, <1>i, EndsKnownCall
<1>11. CASE InitializeShard \/ UNCHANGED vars
  BY <1>11, <1>1 DEF InitializeShard, vars, pools
<1>12. ASSUME NEW v \in Validators, assignValidatorToShard(v) PROVE EndsKnown'
  BY <1>12, <1>1 DEF assignValidatorToShard, pools
<1>13. ASSUME NEW t \in Tx, ProcessLocal(t) PROVE EndsKnown'
  BY <1>13, <1>1 DEF ProcessLocal
<1>14. QED
  BY <1>2, <1>3, <1>4, <1>5, <1>6, <1>7, <1>8, <1>9, <1>10, <1>11, <1>12, <1>13
     DEF Next

Waits(t) == {s \in Shards : t \in pendingTransactions[s]}

Both(t) == {Source[t], Target[t]}

InBlock(o, t) ==
  call[o].at \in {"verifying", "processing", "proving"} /\ t \in call[o].block

\* The call's block has been through its turn with t and is not pushed yet.
Handled(o, t) ==
  /\ call[o].at \in {"processing", "proving"}
  /\ t \in call[o].block \ call[o].rest

\* A pending transaction is in both pools and in no block that would drop it
\* unnoticed; one block may drop a processing one from one of the pools.
WaitsRightly(t) ==
  /\ Stage(t) = "none" => Waits(t) = {} /\ \A o \in Callers : ~InBlock(o, t)
  /\ Stage(t) = "pending" => Waits(t) = Both(t) /\ \A o \in Callers : ~Handled(o, t)
  /\ Stage(t) = "processing" =>
       \/ /\ Waits(t) = Both(t)
          /\ \A o, p \in Callers : Handled(o, t) /\ Handled(p, t) => o = p
       \/ /\ \E s \in Both(t) : Waits(t) = Both(t) \ {s}
          /\ \A o \in Callers : ~Handled(o, t)
  /\ Stage(t) = "completed" => Waits(t) = {}

\* CrossShard's step, in the words of this module.
Moves(t) ==
  \/ Stage(t) = "none" /\ Stage(t)' = "pending" /\ Waits(t) = {} /\ Waits(t)' = Both(t)
  \/ Stage(t) = "pending" /\ Stage(t)' = "processing" /\ Waits(t)' = Waits(t)
  \/ /\ Stage(t) = "processing" /\ Stage(t)' = Stage(t) /\ Waits(t) = Both(t)
     /\ \E s \in Both(t) : Waits(t)' = Both(t) \ {s}
  \/ Stage(t) = "processing" /\ Stage(t)' = "completed" /\ Waits(t)' = {}
  \/ Stage(t)' = Stage(t) /\ Waits(t)' = Waits(t)

LEMMA BothAreShards == ASSUME NEW t \in CrossingTx PROVE Both(t) \subseteq Shards
BY ShardAssumption DEF CrossingTx, Both

\* A step that leaves t where it is, and takes it into a block only from a pool.
LEMMA WaitsCalm ==
  ASSUME NEW t, WaitsRightly(t), Stage(t)' = Stage(t), Waits(t)' = Waits(t),
         \A o \in Callers :
           /\ InBlock(o, t)' => InBlock(o, t) \/ Waits(t) # {}
           /\ Handled(o, t)' => Handled(o, t) \/ Stage(t) = "completed"
  PROVE  WaitsRightly(t)' /\ Moves(t)
<1>1. Both(t)' = Both(t)
  BY DEF Both
<1>2. WaitsRightly(t)'
  BY <1>1 DEF WaitsRightly
<1>3. QED
  BY <1>2 DEF Moves

LEMMA WaitsInit == Init => \A t \in CrossingTx : WaitsRightly(t)
BY DEF Init, WaitsRightly, Stage, Waits, InBlock, Idle, CrossingTx

\* The pools of a transaction change only where it is added or deleted.
LEMMA PoolSteps ==
  ASSUME TypeOK, NEW t \in Tx, NEW some
  PROVE  /\ pendingTransactions' = Added(t, some) =>
              /\ Waits(t)' = Waits(t) \cup (some \cap Shards)
              /\ \A u \in Tx : u # t => Waits(u)' = Waits(u)
         /\ pendingTransactions' = Deleted(t, some) =>
              /\ Waits(t)' = Waits(t) \ some
              /\ \A u \in Tx : u # t => Waits(u)' = Waits(u)
         /\ UNCHANGED pendingTransactions => \A u \in Tx : Waits(u)' = Waits(u)
<1>1. CASE pendingTransactions' = Added(t, some)
  BY <1>1 DEF Waits, Added, Deleted, TypeOK
<1>2. CASE pendingTransactions' = Deleted(t, some)
  BY <1>2 DEF Waits, Added, Deleted, TypeOK
<1>3. UNCHANGED pendingTransactions => \A u \in Tx : Waits(u)' = Waits(u)
  BY DEF Waits
<1>4. QED
  BY <1>1, <1>2, <1>3

LEMMA WaitsStep ==
  ASSUME ~EarlyCalls, TypeOK, OneSubmission, EndsKnown, [Next]_vars,
         \A t \in CrossingTx : WaitsRightly(t)
  PROVE  \A t \in CrossingTx : WaitsRightly(t)' /\ Moves(t)
<1> SUFFICES ASSUME NEW t \in CrossingTx PROVE WaitsRightly(t)' /\ Moves(t)
  OBVIOUS
<1> USE ShardAssumption
<1>t. t \in Tx /\ WaitsRightly(t) /\ Both(t) \subseteq Shards /\ Both(t)' = Both(t)
  BY BothAreShards DEF CrossingTx, Both
<1>i. Idle.at = "idle"
  BY DEF Idle
\* Steps that leave the entries and the pools alone.
<1>a. ASSUME NEW o \in Callers, NEW c, Become(o, c),
             UNCHANGED <<crossShardTransactions, pendingTransactions>>,
             c.at \in {"verifying", "processing", "proving"} /\ t \in c.block =>
               InBlock(o, t) \/ Waits(t) # {},
             c.at \in {"processing", "proving"} /\ t \in c.block \ c.rest =>
               Handled(o, t) \/ Stage(t) = "completed"
      PROVE  WaitsRightly(t)' /\ Moves(t)
  <2>1. \A p \in Callers : call'[p] = IF p = o THEN c ELSE call[p]
    BY <1>a DEF Become, TypeOK
  <2>2. \A p \in Callers :
          /\ InBlock(p, t)' => InBlock(p, t) \/ Waits(t) # {}
          /\ Handled(p, t)' => Handled(p, t) \/ Stage(t) = "completed"
    BY <1>a, <2>1 DEF InBlock, Handled
  <2>3. Stage(t)' = Stage(t) /\ Waits(t)' = Waits(t)
    BY <1>a DEF Stage, Waits
  <2>4. QED
    BY <1>t, <2>2, <2>3, WaitsCalm
<1>1. CASE UNCHANGED <<crossShardTransactions, pendingTransactions, call>>
  <2>1. Stage(t)' = Stage(t) /\ Waits(t)' = Waits(t)
    BY <1>1 DEF Stage, Waits
  <2>2. QED
    BY <1>1, <1>t, <2>1, WaitsCalm DEF InBlock, Handled
<1>2. ASSUME NEW u \in Tx, ProcessLocal(u) PROVE WaitsRightly(t)' /\ Moves(t)
  <2>1. u # t
    <3>1. Source[u] \in Shards /\ Target[u] \in Shards /\ Serving
      BY <1>2 DEF ProcessLocal, Submit
    <3>2. Source[u] = Target[u]
      BY <1>2, <3>1, ShardsAreOpen DEF ProcessLocal, Crosses
    <3>3. QED
      BY <3>2 DEF CrossingTx
  <2>2. Stage(t)' = Stage(t) /\ Waits(t)' = Waits(t) /\ UNCHANGED call
    BY <1>2, <1>t, <2>1, PoolSteps DEF ProcessLocal, Stage
  <2>3. QED
    BY <1>t, <2>2, WaitsCalm DEF InBlock, Handled
<1>3. ASSUME NEW o \in Callers, NEW u \in Tx, ProcessCrossing(o, u)
      PROVE  WaitsRightly(t)' /\ Moves(t)
  BY <1>3, <1>a DEF ProcessCrossing, pools
<1>4. ASSUME NEW o \in Callers, RecordCrossing(o) PROVE WaitsRightly(t)' /\ Moves(t)
  <2>1. PICK u \in CrossingTx :
          /\ u = call[o].tx /\ call[o].targetShard = Target[u]
          /\ Stage(u) = "none" /\ u \in Tx
    BY <1>4 DEF RecordCrossing, EndsKnown, OneSubmission, Submitting, CrossingTx
  <2>2. /\ crossShardTransactions' = [crossShardTransactions EXCEPT
             ![u] = [status |-> "pending", targetShard |-> Target[u]]]
        /\ pendingTransactions' = Added(u, Both(u))
        /\ call' = [call EXCEPT ![o] = Idle]
    BY <1>4, <2>1 DEF RecordCrossing, Become, Both
  <2>3. \A p \in Callers : (InBlock(p, t)' => InBlock(p, t))
                          /\ (Handled(p, t)' => Handled(p, t))
    BY <2>2, <1>i DEF InBlock, Handled, TypeOK
  <2>4. CASE u = t
    <3>1. [status |-> "pending", targetShard |-> Target[t]] \in Entries
      BY <1>t DEF Entries, Statuses
    <3>2. Stage(t)' = "pending"
      BY <1>t, <2>2, <2>4, <3>1 DEF Stage, TypeOK
    <3>3. Waits(t) = {} /\ \A p \in Callers : ~InBlock(p, t)
      BY <1>t, <2>1, <2>4 DEF WaitsRightly
    <3>4. Waits(t)' = Both(t)
      <4>1. Waits(t)' = Waits(t) \cup (Both(t) \cap Shards)
        BY <1>t, <2>2, <2>4, PoolSteps
      <4>2. QED
        BY <1>t, <3>3, <4>1
    <3>5. \A p \in Callers : ~Handled(p, t)'
      BY <2>3, <3>3 DEF InBlock, Handled
    <3>6. QED
      BY <1>t, <2>1, <2>4, <3>2, <3>3, <3>4, <3>5 DEF WaitsRightly, Moves
  <2>5. CASE u # t
    <3>1. Stage(t)' = Stage(t) /\ Waits(t)' = Waits(t)
      BY <1>t, <2>1, <2>2, <2>5, PoolSteps DEF Stage, TypeOK
    <3>2. QED
      BY <1>t, <2>3, <3>1, WaitsCalm
  <2>6. QED
    BY <2>4, <2>5
<1>5. ASSUME NEW o \in Callers, NEW u \in Tx, updateCrossShardTransaction(o, u)
      PROVE  WaitsRightly(t)' /\ Moves(t)
  <2>1. /\ Stage(u) = "pending" /\ crossShardTransactions[u] \in Entries
        /\ call[o].at = "processing" /\ u \in call[o].rest
        /\ call[o].rest \subseteq call[o].block
    BY <1>5, NotNone DEF updateCrossShardTransaction, Turn, EndsKnown
  <2>2. /\ crossShardTransactions' = [crossShardTransactions EXCEPT
             ![u] = [crossShardTransactions[u] EXCEPT !.status = "processing"]]
        /\ call' = [call EXCEPT ![o] = Processing(call[o], call[o].rest \ {u})]
        /\ UNCHANGED pendingTransactions
    BY <1>5 DEF updateCrossShardTransaction, WithStatus, Become
  <2>3. Waits(t)' = Waits(t)
    BY <2>2 DEF Waits
  <2>4. \A p \in Callers : InBlock(p, t)' => InBlock(p, t)
    BY <2>1, <2>2 DEF InBlock, TypeOK, Processing
  <2>5. \A p \in Callers : Handled(p, t)' => Handled(p, t) \/ (p = o /\ t = u)
    <3>1. \A p \in Callers : call'[p] =
            IF p = o THEN Processing(call[o], call[o].rest \ {u}) ELSE call[p]
      BY <2>2 DEF TypeOK
    <3>2. QED
      BY <2>1, <3>1 DEF Handled, Processing
  <2>6. CASE u = t
    <3>1. [crossShardTransactions[u] EXCEPT !.status = "processing"] \in Entries
      BY <2>1 DEF Entries, Statuses
    <3>2. Stage(t)' = "processing"
      BY <1>t, <2>1, <2>2, <2>6, <3>1 DEF Stage, TypeOK, Entries
    <3>3. Waits(t) = Both(t) /\ \A p \in Callers : ~Handled(p, t)
      BY <1>t, <2>1, <2>6 DEF WaitsRightly
    <3>4. QED
      BY <1>t, <2>1, <2>3, <2>5, <2>6, <3>2, <3>3 DEF WaitsRightly, Moves
  <2>7. CASE u # t
    <3>1. Stage(t)' = Stage(t)
      BY <1>t, <2>2, <2>7 DEF Stage, TypeOK
    <3>2. QED
      BY <1>t, <2>3, <2>4, <2>5, <2>7, <3>1, WaitsCalm
  <2>8. QED
    BY <2>6, <2>7
<1>6. ASSUME NEW o \in Callers, CompleteTransaction(o)
      PROVE  WaitsRightly(t)' /\ Moves(t)
  <2>1. PICK u \in CrossingTx :
          /\ u = call[o].tx /\ call[o].entry.targetShard = Target[u]
          /\ Stage(u) \in {"processing", "completed"} /\ u \in Tx
          /\ call[o].entry \in Entries
          /\ call[o].at = "proving"
    BY <1>6, CallFields
       DEF CompleteTransaction, EndsKnown, OneSubmission, Proving, CrossingTx, TypeOK
  <2>2. /\ crossShardTransactions' = [crossShardTransactions EXCEPT
             ![u] = [call[o].entry EXCEPT !.status = "completed"]]
        /\ pendingTransactions' = Deleted(u, Both(u))
        /\ call' = [call EXCEPT ![o] = Processing(call[o], call[o].rest \ {u})]
    BY <1>6, <2>1 DEF CompleteTransaction, Become, Both
  <2>3. CASE u = t
    <3>1. [call[o].entry EXCEPT !.status = "completed"] \in Entries
      BY <2>1 DEF Entries, Statuses
    <3>2. Stage(t)' = "completed"
      BY <1>t, <2>1, <2>2, <2>3, <3>1 DEF Stage, TypeOK, Entries
    <3>3. Waits(t) \subseteq Both(t)
      BY <1>t, <2>1, <2>3 DEF WaitsRightly
    <3>4. Waits(t)' = {}
      BY <1>t, <2>2, <2>3, <3>3, PoolSteps
    <3>5. WaitsRightly(t)'
      BY <3>2, <3>4 DEF WaitsRightly
    <3>6. Moves(t)
      BY <1>t, <2>1, <2>3, <3>2, <3>4 DEF WaitsRightly, Moves
    <3>7. QED
      BY <3>5, <3>6
  <2>4. CASE u # t
    <3>1. Stage(t)' = Stage(t) /\ Waits(t)' = Waits(t)
      BY <1>t, <2>1, <2>2, <2>4, PoolSteps DEF Stage, TypeOK
    <3>2. \A p \in Callers : (InBlock(p, t)' => InBlock(p, t))
                            /\ (Handled(p, t)' => Handled(p, t))
      BY <2>1, <2>2, <2>4 DEF InBlock, Handled, TypeOK, Processing
    <3>3. QED
      BY <1>t, <3>1, <3>2, WaitsCalm
  <2>5. QED
    BY <2>3, <2>4
<1>7. ASSUME NEW o \in Callers, NEW u \in Tx, ProveTransaction(o, u)
      PROVE  WaitsRightly(t)' /\ Moves(t)
  BY <1>7, <1>a DEF ProveTransaction, Turn, InBlock, Handled, pools
<1>8. ASSUME NEW o \in Callers, NEW u \in Tx, SkipTransaction(o, u)
      PROVE  WaitsRightly(t)' /\ Moves(t)
  <2> DEFINE c == Processing(call[o], call[o].rest \ {u})
  <2>1. /\ call[o].at = "processing" /\ u \in call[o].block
        /\ Stage(u) \in {"none", "completed"}
    BY <1>8 DEF SkipTransaction, Turn, EndsKnown
  <2>2. c.block = call[o].block /\ c.rest = call[o].rest \ {u}
    BY DEF Processing
  <2>3. Become(o, c) /\ UNCHANGED <<crossShardTransactions, pendingTransactions>>
    BY <1>8 DEF SkipTransaction, pools
  <2> HIDE DEF c
  <2>4. u = t => Stage(t) = "completed"
    BY <1>t, <2>1 DEF WaitsRightly, InBlock
  <2>5. QED
    BY <1>a, <2>1, <2>2, <2>3, <2>4 DEF InBlock, Handled
<1>9. ASSUME NEW o \in Callers, VerifySignatures(o) PROVE WaitsRightly(t)' /\ Moves(t)
  <2> DEFINE c == Processing(call[o], call[o].block)
  <2>1. call[o].at = "verifying" /\ c.block = call[o].block /\ c.rest = c.block
    BY <1>9 DEF VerifySignatures, Processing
  <2>2. /\ Become(o, c) \/ Become(o, Idle)
        /\ UNCHANGED <<crossShardTransactions, pendingTransactions>>
    BY <1>9 DEF VerifySignatures, pools
  <2> HIDE DEF c
  <2>3. QED
    BY <1>a, <1>i, <2>1, <2>2 DEF InBlock, Handled
<1>10. ASSUME NEW o \in Callers, NEW s \in Shards, NEW block \in SUBSET Tx,
              FinalizeBlock(o, s, block)
       PROVE  WaitsRightly(t)' /\ Moves(t)
  <2> DEFINE c == [at |-> "verifying", shard |-> s, block |-> block]
  <2>1. /\ Become(o, c) /\ UNCHANGED <<crossShardTransactions, pendingTransactions>>
        /\ block \subseteq pendingTransactions[s]
    BY <1>10 DEF FinalizeBlock, pools
  <2>2. c.at = "verifying" /\ (t \in c.block => Waits(t) # {})
    BY <2>1 DEF Waits
  <2> HIDE DEF c
  <2>3. QED
    BY <1>a, <2>1, <2>2
<1>11. ASSUME NEW o \in Callers, CompletionThrows(o)
       PROVE  WaitsRightly(t)' /\ Moves(t)
  <2>1. call[o].entry.targetShard = None /\ call[o].tx \in CrossingTx
        /\ call[o].entry.targetShard = Target[call[o].tx]
    BY <1>11 DEF CompletionThrows, EndsKnown
  <2>2. QED
    BY <2>1 DEF CrossingTx
<1>12. ASSUME NEW o \in Callers, ProofFails(o) PROVE WaitsRightly(t)' /\ Moves(t)
  BY <1>12, <1>a, <1>i DEF ProofFails, pools
<1>13. ASSUME NEW o \in Callers, PushBlock(o) PROVE WaitsRightly(t)' /\ Moves(t)
  <2>1. /\ call[o].at = "processing" /\ call[o].rest = {}
        /\ pendingTransactions' = [pendingTransactions EXCEPT
             ![call[o].shard] = @ \ call[o].block]
        /\ call' = [call EXCEPT ![o] = Idle]
        /\ Stage(t)' = Stage(t)
        /\ call[o].shard \in Shards
    BY <1>13, CallFields DEF PushBlock, Cleared, Become, Stage, TypeOK
  <2>2. \A p \in Callers :
          /\ InBlock(p, t)' => InBlock(p, t)
          /\ Handled(p, t)' => Handled(p, t) /\ p # o
    BY <2>1, <1>i DEF InBlock, Handled, TypeOK
  <2>3. Waits(t)' = IF t \in call[o].block THEN Waits(t) \ {call[o].shard} ELSE Waits(t)
    BY <2>1 DEF Waits, TypeOK
  <2>4. CASE Waits(t)' = Waits(t)
    <3>1. \A p \in Callers :
            /\ InBlock(p, t)' => InBlock(p, t) \/ Waits(t) # {}
            /\ Handled(p, t)' => Handled(p, t) \/ Stage(t) = "completed"
      BY <2>2 DEF InBlock, Handled
    <3>2. QED
      BY <1>t, <2>1, <2>4, <3>1, WaitsCalm
  <2>5. CASE Waits(t)' # Waits(t)
    <3>1. Handled(o, t) /\ call[o].shard \in Waits(t)
      BY <2>1, <2>3, <2>5 DEF Handled
    <3>2. Stage(t) = "processing" /\ Waits(t) = Both(t)
          /\ \A p \in Callers : Handled(p, t) => p = o
      BY <1>t, <3>1, StageType
         DEF WaitsRightly, Handled, InBlock, Statuses
    <3>3. Waits(t)' = Both(t) \ {call[o].shard} /\ call[o].shard \in Both(t)
      BY <2>3, <2>5, <3>1, <3>2
    <3>4. \A p \in Callers : ~Handled(p, t)'
      BY <2>2, <3>2 DEF Handled
    <3>5. \E s \in Both(t) : Waits(t)' = Both(t) \ {s}
      BY <3>3
    <3>6. WaitsRightly(t)'
      BY <1>t, <2>1, <3>2, <3>4, <3>5 DEF WaitsRightly
    <3>7. Moves(t)
      BY <2>1, <3>2, <3>5 DEF Moves
    <3>8. QED
      BY <3>6, <3>7
  <2>6. QED
    BY <2>4, <2>5
<1>14. CASE InitializeShard \/ UNCHANGED vars
  BY <1>14, <1>1 DEF InitializeShard, vars, pools
<1>15. ASSUME NEW v \in Validators, assignValidatorToShard(v)
       PROVE  WaitsRightly(t)' /\ Moves(t)
  BY <1>15, <1>1 DEF assignValidatorToShard, pools
<1>16. QED
  BY <1>2, <1>3, <1>4, <1>5, <1>6, <1>7, <1>8, <1>9, <1>10, <1>11, <1>12, <1>13,
     <1>14, <1>15 DEF Next

\* The invariant of transactions submitted once, after the shards are there.
LifeInv ==
  TypeOK /\ OneSubmission /\ EndsKnown /\ \A t \in CrossingTx : WaitsRightly(t)

LEMMA LifeInvInit == Init => LifeInv
BY TypeInit, OneSubmissionInit, EndsKnownInit, WaitsInit DEF LifeInv

LEMMA LifeInvStep ==
  ASSUME MaxSubmissions =< 1, ~EarlyCalls, LifeInv, [Next]_vars
  PROVE  LifeInv' /\ \A t \in CrossingTx : Moves(t)
<1>1. TypeOK' /\ OneSubmission' /\ EndsKnown'
  BY TypeStep, OneSubmissionStep, EndsKnownStep DEF LifeInv
<1>2. \A t \in CrossingTx : WaitsRightly(t)' /\ Moves(t)
  BY WaitsStep DEF LifeInv
<1>3. (\A t \in CrossingTx : WaitsRightly(t))'
  BY <1>2 DEF CrossingTx
<1>4. QED
  BY <1>1, <1>2, <1>3 DEF LifeInv

LEMMA LifeInvNoOrphan == LifeInv => NoOrphan
<1> SUFFICES ASSUME LifeInv, NEW t \in Tx, Stage(t) \in {"pending", "processing"}
             PROVE  \E s \in Shards : t \in pendingTransactions[s]
  BY DEF NoOrphan
<1>1. t \in CrossingTx /\ WaitsRightly(t)
  BY DEF LifeInv, EndsKnown
<1>2. Source[t] # Target[t] /\ Both(t) \subseteq Shards
  BY <1>1, BothAreShards DEF CrossingTx
<1>3. Waits(t) = Both(t) \/ \E s \in Both(t) : Waits(t) = Both(t) \ {s}
  BY <1>1 DEF WaitsRightly
<1>4. Waits(t) # {}
  BY <1>2, <1>3 DEF Both
<1>5. QED
  BY <1>4 DEF Waits

\* However blocks overlap and proofs fail, a crossing transaction that is not
\* completed is pending in a shard that can complete it (finalizeBlock).
THEOREM UnfinishedIsPending ==
  ASSUME MaxSubmissions =< 1, ~EarlyCalls
  PROVE  Spec => []NoOrphan
<1>1. LifeInv /\ [Next]_vars => LifeInv'
  BY LifeInvStep
<1>2. QED
  BY <1>1, LifeInvInit, LifeInvNoOrphan, PTL DEF Spec

LEMMA LifeInit == Init => Life!Init
BY DEF Init, Life!Init, Stage, Waits, CrossingTx

LEMMA LifeStep == (\A t \in CrossingTx : Moves(t)) => Life!Next
<1> SUFFICES ASSUME \A t \in CrossingTx : Moves(t), NEW t \in CrossingTx
             PROVE  \/ Life!Submit(t) \/ Life!TakeOn(t) \/ Life!LetGo(t)
                    \/ Life!Complete(t) \/ Life!Stay(t)
  BY DEF Life!Next
<1>1. Moves(t)
  OBVIOUS
<1>2. QED
  BY <1>1
     DEF Moves, Waits, Both, Life!Submit, Life!TakeOn, Life!LetGo, Life!Complete,
         Life!Stay

\* Every step of the shards is, for the crossing transactions, a step of
\* CrossShard or a stutter (processCrossShardTransaction, finalizeBlock).
THEOREM ShardsImplementCrossShard ==
  ASSUME MaxSubmissions =< 1, ~EarlyCalls
  PROVE  Spec => ImplementsCrossShard
<1>1. LifeInv /\ [Next]_vars => LifeInv' /\ Life!Next
  BY LifeInvStep, LifeStep
<1>2. QED
  BY <1>1, LifeInvInit, LifeInit, PTL DEF Spec, ImplementsCrossShard, Life!Spec
=============================================================================
