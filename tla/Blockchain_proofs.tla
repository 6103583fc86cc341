-------------------------- MODULE Blockchain_proofs --------------------------
(***************************************************************************)
(* Proofs about Blockchain, for every set of callers, of chains offered by *)
(* peers, of faults, of clock values and every setting of the limits.      *)
(***************************************************************************)
EXTENDS Blockchain, LevelDB_proofs, Induction

-----------------------------------------------------------------------------
(* The validation rules.                                                   *)

\* The numbers of a block are whole.
Whole(block) == block.nonce \in Nat /\ block.difficulty \in Nat

\* How a block is linked to the one before it.
LinkedTo(b, a) ==
  /\ b.lastHash = a.hash
  /\ a.timestamp < b.timestamp
  /\ Distance(b.difficulty, a.difficulty) =< 1
  /\ b.hash = Hash(b.timestamp, b.lastHash, b.transactions, b.nonce,
                   b.difficulty)

LEMMA LinkedMeans ==
  ASSUME NEW c
  PROVE  Linked(c) <=> /\ c # <<>>
                       /\ c[1].hash = GenesisHash
                       /\ c[1].difficulty = MinDifficulty
                       /\ \A i \in 1..Len(c) : Whole(c[i])
                       /\ \A i \in 2..Len(c) : LinkedTo(c[i], c[i - 1])
BY DEF Linked, Whole, LinkedTo

LEMMA AcceptedIsLinkedTo ==
  ASSUME NEW a, NEW b, isValidBlock(b, a)
  PROVE  LinkedTo(b, a)
BY DEF isValidBlock, validateBlockHash, validateBlockChain, LinkedTo

\* A chain of whole numbers that passes isValidChain is linked.
LEMMA ValidIsLinked ==
  ASSUME NEW c, c \in Seq(Range(c)), c # <<>>,
         \A i \in DOMAIN c : Whole(c[i]),
         NEW r, isValidChain(c, r)
  PROVE  Linked(c)
<1>1. c[1].hash = GenesisHash /\ c[1].difficulty = MinDifficulty
  BY DEF isValidChain, Genesis
<1>2. ASSUME NEW i \in 2..Len(c)
      PROVE  LinkedTo(c[i], c[i - 1])
  BY AcceptedIsLinkedTo DEF isValidChain
<1>3. \A i \in 1..Len(c) : Whole(c[i])
  OBVIOUS
<1>4. QED
  BY <1>1, <1>2, <1>3, LinkedMeans

\* A block accepted on the tip keeps a chain linked.
LEMMA PushedIsLinked ==
  ASSUME NEW c, c \in Seq(Range(c)), Linked(c),
         NEW b, isValidNewBlock(b, Last(c)), Whole(b)
  PROVE  Linked(Append(c, b))
<1> DEFINE longer == Append(c, b)
<1>1. /\ Len(c) \in Nat \ {0}
      /\ Len(longer) = Len(c) + 1
      /\ \A i \in 1..Len(c) : longer[i] = c[i]
      /\ longer[Len(c) + 1] = b
      /\ longer # <<>>
  BY DEF Linked
<1>2. LinkedTo(b, c[Len(c)])
  BY AcceptedIsLinkedTo DEF isValidNewBlock, Last
<1> HIDE DEF longer
<1>3. longer[1].hash = GenesisHash /\ longer[1].difficulty = MinDifficulty
  BY <1>1, LinkedMeans
<1>4. ASSUME NEW i \in 2..Len(longer)
      PROVE  LinkedTo(longer[i], longer[i - 1])
  <2>1. CASE i \in 2..Len(c)
    <3>1. longer[i] = c[i] /\ longer[i - 1] = c[i - 1]
      BY <1>1, <2>1
    <3>2. QED
      BY <2>1, <3>1, LinkedMeans
  <2>2. CASE i = Len(c) + 1
    <3>1. longer[i] = b /\ longer[i - 1] = c[Len(c)]
      BY <1>1, <2>2
    <3>2. QED
      BY <3>1, <1>2
  <2>3. QED
    BY <1>1, <2>1, <2>2
<1>5. ASSUME NEW i \in 1..Len(longer)
      PROVE  Whole(longer[i])
  <2>1. CASE i \in 1..Len(c)
    BY <1>1, <2>1, LinkedMeans
  <2>2. CASE i = Len(c) + 1
    BY <1>1, <2>2
  <2>3. QED
    BY <1>1, <2>1, <2>2
<1>6. Linked(longer)
  BY <1>1, <1>3, <1>4, <1>5, LinkedMeans
<1>7. QED
  BY <1>6 DEF longer

LEMMA GenesisIsLinked ==
  ASSUME NEW r
  PROVE  Linked(<<Genesis(r)>>)
BY ValidationAssumption DEF Linked, Genesis

\* The next difficulty is within the limits, whatever the tip and the clock.
LEMMA AdjustedInRange ==
  ASSUME NEW b, b.difficulty \in Nat, NEW t
  PROVE  adjustDifficulty(b, t) \in MinDifficulty..MaxDifficulty
<1> DEFINE d == b.difficulty
<1>1. /\ MinDifficulty \in Nat /\ MaxDifficulty \in Nat
      /\ MinDifficulty =< MaxDifficulty
  BY ValidationAssumption
<1>2. CASE d < MinDifficulty
  BY <1>1, <1>2 DEF adjustDifficulty
<1>3. CASE d > MaxDifficulty
  BY <1>1, <1>3 DEF adjustDifficulty
<1>4. CASE ~(d < MinDifficulty) /\ ~(d > MaxDifficulty)
  <2>1. adjustDifficulty(b, t) \in
          {Greatest(d - 1, MinDifficulty), Least(d + 1, MaxDifficulty), d}
    BY <1>4 DEF adjustDifficulty
  <2>2. QED
    BY <1>1, <1>4, <2>1 DEF Greatest, Least
<1>5. QED
  BY <1>2, <1>3, <1>4

\* It is at most one away exactly from a tip that is within reach.
LEMMA AdjustedByOne ==
  ASSUME NEW b, b.difficulty \in Nat, NEW t
  PROVE  Distance(adjustDifficulty(b, t), b.difficulty) =< 1 <=> WithinReach(b)
<1> DEFINE d == b.difficulty
<1>1. /\ MinDifficulty \in Nat /\ MaxDifficulty \in Nat
      /\ MinDifficulty =< MaxDifficulty
  BY ValidationAssumption
<1>2. CASE d < MinDifficulty
  <2>1. adjustDifficulty(b, t) = MinDifficulty
    BY <1>1, <1>2 DEF adjustDifficulty
  <2>2. QED
    BY <1>1, <1>2, <2>1 DEF Distance, WithinReach
<1>3. CASE d > MaxDifficulty
  <2>1. adjustDifficulty(b, t) = MaxDifficulty
    BY <1>1, <1>3 DEF adjustDifficulty
  <2>2. QED
    BY <1>1, <1>3, <2>1 DEF Distance, WithinReach
<1>4. CASE ~(d < MinDifficulty) /\ ~(d > MaxDifficulty)
  <2>1. adjustDifficulty(b, t) \in
          {Greatest(d - 1, MinDifficulty), Least(d + 1, MaxDifficulty), d}
    BY <1>4 DEF adjustDifficulty
  <2>2. QED
    BY <1>1, <1>4, <2>1 DEF Greatest, Least, Distance, WithinReach
<1>5. QED
  BY <1>2, <1>3, <1>4

\* So a block mined on a tip, and found after it, is accepted on it exactly if
\* the tip is within reach.
LEMMA MinedIsValid ==
  ASSUME NEW b, b.difficulty \in Nat, NEW t, NEW n, NEW u, u > b.timestamp
  PROVE  WithinReach(b) <=> isValidNewBlock(mineBlock(b, <<>>, t, u, n), b)
<1> DEFINE m == mineBlock(b, <<>>, t, u, n)
<1>1. /\ m.timestamp = u /\ m.lastHash = b.hash /\ m.transactions = <<>>
      /\ m.difficulty = adjustDifficulty(b, t) /\ m.nonce = n
      /\ m.quantumProof = PendingProof
      /\ m.hash = Hash(u, b.hash, <<>>, n, adjustDifficulty(b, t))
  BY DEF mineBlock
<1> HIDE DEF m
<1>2. isValidBlock(m, b) <=> Distance(adjustDifficulty(b, t), b.difficulty) =< 1
  BY <1>1, ValidationAssumption
     DEF isValidBlock, validateBlockStructure, validateBlockHash,
         validateBlockChain, validateQuantumProof, validateBlockSize
<1>3. validateTransactionSequence(m)
  BY <1>1 DEF validateTransactionSequence
<1>4. QED
  BY <1>2, <1>3, AdjustedByOne DEF isValidNewBlock, m

-----------------------------------------------------------------------------
(* Types.                                                                  *)

\* Every step of the node is, for the store, a step of it or a stutter.
LEMMA NodeStepsTheStore == TypeOK /\ [Next]_vars => StoreAction
BY DEF Next, AddBlock, PushBlock, DropBlock, ReplaceChain, RefuseChain,
       ClearStored, AdoptChain, KeepChain, addToMempool, Restart, vars,
       StoreAction

LEMMA NodeStarts == Init => TypeOK
<1> SUFFICES ASSUME Init
             PROVE  TypeOK
  OBVIOUS
<1>1. PICK r \in Randomness : chain = <<Genesis(r)>>
  BY DEF Init
<1>2. chain \in Seq(Range(chain)) /\ chain # <<>>
  BY <1>1 DEF Range
<1>3. QED
  BY <1>2, StoreStarts DEF Init, StoreInit, TypeOK, InProgress

LEMMA PushedIsSequence ==
  ASSUME NEW c, c \in Seq(Range(c)), NEW b
  PROVE  /\ Append(c, b) \in Seq(Range(Append(c, b)))
         /\ Append(c, b) # <<>>
<1> DEFINE S == Range(c) \cup {b}
           longer == Append(c, b)
<1>1. c \in Seq(S) /\ b \in S
  OBVIOUS
<1>2. longer \in Seq(S) /\ Len(longer) = Len(c) + 1 /\ Len(c) \in Nat
  BY <1>1
<1> HIDE DEF longer, S
<1>3. DOMAIN longer = 1..Len(longer) /\ Len(longer) \in Nat /\ longer # <<>>
  BY <1>2
<1>4. longer = [i \in 1..Len(longer) |-> longer[i]]
  BY <1>2
<1>5. \A i \in 1..Len(longer) : longer[i] \in Range(longer)
  BY <1>3 DEF Range
<1>6. longer \in Seq(Range(longer))
  BY <1>3, <1>4, <1>5
<1>7. QED
  BY <1>3, <1>6 DEF longer

\* A chain in the store is one of those offered, hence a sequence.
LEMMA OfferedIsSequence ==
  \A c \in Chains : c \in Seq(Range(c)) /\ c # <<>> /\ c # None
BY StoreAssumption

LEMMA NodeStepTypes ==
  ASSUME TypeOK, StoredChainIsWhole, [Next]_vars
  PROVE  TypeOK'
<1> USE DEF TypeOK
<1>1. StoreTypeOK'
  BY NodeStepsTheStore, StoreStepTypes
<1>2. ASSUME NEW o \in Callers, NEW t \in Batches, AddBlock(o, t)
      PROVE  TypeOK'
  BY <1>2, <1>1 DEF AddBlock, Busy, storeVars, InProgress
<1>3. ASSUME NEW o \in Callers, PushBlock(o)
      PROVE  TypeOK'
  <2>1. chain' \in Seq(Range(chain')) /\ chain' # <<>>
    BY <1>3, PushedIsSequence DEF PushBlock
  <2>2. mempool' \subseteq Signed
    BY <1>3 DEF PushBlock, Cleared
  <2>3. QED
    BY <1>3, <1>1, <2>1, <2>2 DEF PushBlock, storeVars, InProgress
<1>4. ASSUME NEW o \in Callers, DropBlock(o)
      PROVE  TypeOK'
  BY <1>4, <1>1 DEF DropBlock, storeVars, InProgress
<1>5. ASSUME NEW o \in Callers, NEW c \in Chains, ReplaceChain(o, c)
      PROVE  TypeOK'
  <2>1. \A p \in Callers : pc'[p] = "replacing" <=> InProgress(p)'
    BY <1>5 DEF ReplaceChain, BeginSave, InProgress, StoreTypeOK
  <2>2. QED
    BY <1>5, <1>1, <2>1 DEF ReplaceChain
<1>6. ASSUME NEW o \in Callers, NEW c \in Chains, RefuseChain(o, c)
      PROVE  TypeOK'
  BY <1>6, <1>1 DEF RefuseChain, Busy, storeVars, InProgress
<1>7. ASSUME NEW o \in Callers, ClearStored(o)
      PROVE  TypeOK'
  <2>1. \A p \in Callers : pc'[p] = "replacing" <=> InProgress(p)'
    BY <1>7 DEF ClearStored, ClearKeys, InProgress, StoreTypeOK
  <2>2. QED
    BY <1>7, <1>1, <2>1 DEF ClearStored
<1>8. ASSUME NEW o \in Callers, AdoptChain(o)
      PROVE  TypeOK'
  <2>1. \A p \in Callers : pc'[p] = "replacing" <=> InProgress(p)'
    BY <1>8 DEF AdoptChain, WriteChain, InProgress, StoreTypeOK
  <2>2. chain' \in Chains
    BY <1>8, LoadAfterWrite DEF AdoptChain
  <2>3. QED
    BY <1>8, <1>1, <2>1, <2>2, OfferedIsSequence DEF AdoptChain
<1>9. ASSUME NEW o \in Callers, KeepChain(o)
      PROVE  TypeOK'
  <2>1. \A p \in Callers : pc'[p] = "replacing" <=> InProgress(p)'
    BY <1>9 DEF KeepChain, SaveFails, InProgress, StoreTypeOK
  <2>2. QED
    BY <1>9, <1>1, <2>1 DEF KeepChain
<1>10. ASSUME NEW t \in Tx, addToMempool(t)
       PROVE  TypeOK'
  <2>1. mempool' \subseteq Signed
    BY <1>10 DEF addToMempool, isValidTransaction
  <2>2. QED
    BY <1>10, <1>1, <2>1 DEF addToMempool, storeVars, InProgress
<1>11. CASE Restart
  <2>1. chain' \in Seq(Range(chain')) /\ chain' # <<>>
    <3>1. CASE \E r \in Randomness : chain' = <<Genesis(r)>>
      BY <3>1 DEF Range
    <3>2. CASE chain' = Load(db) /\ Load(db) # None
      BY <3>2, OfferedIsSequence DEF StoredChainIsWhole
    <3>3. QED
      BY <1>11, <3>1, <3>2 DEF Restart, Loaded
  <2>2. QED
    BY <1>11, <1>1, <2>1 DEF Restart, CrashStore, InProgress
<1>12. CASE UNCHANGED vars
  BY <1>12, <1>1 DEF vars, storeVars, InProgress
<1>13. QED
  BY <1>2, <1>3, <1>4, <1>5, <1>6, <1>7, <1>8, <1>9, <1>10, <1>11, <1>12
     DEF Next

\* How a load changes: a clear at most loses it, and only an adoption sets
\* it, to the chain adopted.
LEMMA LoadSteps ==
  ASSUME TypeOK, [Next]_vars
  PROVE  \/ Load(db)' = Load(db)
         \/ \E o \in Callers : ClearStored(o) /\ Load(db)' = None
         \/ \E o \in Callers : /\ AdoptChain(o)
                               /\ arg[o] \in Chains
                               /\ Load(db)' = arg[o]
<1> USE DEF TypeOK
<1>1. ASSUME NEW o \in Callers, ClearStored(o)
      PROVE  Load(db)' \in {Load(db), None}
  BY <1>1, LoadAfterClear DEF ClearStored
<1>2. ASSUME NEW o \in Callers, AdoptChain(o)
      PROVE  arg[o] \in Chains /\ Load(db)' = arg[o]
  BY <1>2, LoadAfterWrite DEF AdoptChain
<1>3. CASE UNCHANGED db
  BY <1>3 DEF Load
<1>4. QED
  BY <1>1, <1>2, <1>3
     DEF Next, AddBlock, PushBlock, DropBlock, ReplaceChain, BeginSave,
         RefuseChain, KeepChain, SaveFails, addToMempool, Restart, CrashStore,
         storeVars, vars

Typed == TypeOK /\ StoredChainIsWhole

LEMMA TypedStarts == Init => Typed
BY NodeStarts, StoreStarts DEF Init, Typed, StoredChainIsWhole

LEMMA TypedSteps == Typed /\ [Next]_vars => Typed'
<1> SUFFICES ASSUME Typed, [Next]_vars
             PROVE  Typed'
  OBVIOUS
<1>1. TypeOK'
  BY NodeStepTypes DEF Typed
<1>2. StoredChainIsWhole'
  BY LoadSteps DEF Typed, StoredChainIsWhole
<1>3. QED
  BY <1>1, <1>2 DEF Typed

\* Both hold in every reachable state.
LEMMA TypedAlways == Spec => []Typed
BY TypedStarts, TypedSteps, PTL DEF Spec

\* The state of the node is well-formed in every reachable state.
THEOREM NodeTypeCorrect == Spec => []TypeOK
<1>1. Typed => TypeOK
  BY DEF Typed
<1>2. QED
  BY <1>1, TypedAlways, PTL

-----------------------------------------------------------------------------
(* The chain served is linked. It is the tip of a push, the argument of an *)
(* adoption or the loaded chain of a restart, so the invariant has to say  *)
(* the same of what the store holds and of what the calls in progress are  *)
(* about to store.                                                         *)

AllLinked ==
  /\ ChainLinked
  /\ Load(db) # None => Linked(Load(db))
  /\ \A o \in Callers : InProgress(o) => Linked(arg[o])
  /\ \A o \in Callers : pc[o] = "mining" => Whole(mined[o])

LEMMA OfferedIsWhole == \A c \in Chains : \A i \in DOMAIN c : Whole(c[i])
BY BlockchainAssumption DEF Whole

\* Blocks are mined with whole numbers, on a linked chain.
LEMMA MinedStaysWhole ==
  ASSUME Typed, AllLinked, [Next]_vars
  PROVE  \A o \in Callers : pc'[o] = "mining" => Whole(mined'[o])
<1> SUFFICES ASSUME NEW p \in Callers, pc'[p] = "mining"
             PROVE  Whole(mined'[p])
  OBVIOUS
<1> USE DEF Typed, TypeOK
<1>1. ASSUME NEW o \in Callers, NEW t \in Batches, AddBlock(o, t)
      PROVE  Whole(mined'[p])
  <2>1. Last(chain).difficulty \in Nat
    BY LinkedMeans DEF AllLinked, ChainLinked, Whole, Last
  <2>2. \A started \in Time : adjustDifficulty(Last(chain), started) \in Nat
    BY <2>1, AdjustedInRange, ValidationAssumption
  <2>3. \A started, found \in Time, n \in Nonces :
          Whole(mineBlock(Last(chain), t, started, found, n))
    BY <2>2, ValidationAssumption DEF mineBlock, Whole
  <2>4. CASE p = o
    BY <1>1, <2>3, <2>4 DEF AddBlock
  <2>5. CASE p # o
    BY <1>1, <2>5 DEF AddBlock, AllLinked
  <2>6. QED
    BY <2>4, <2>5
<1>2. ASSUME pc[p] = "mining", mined'[p] = mined[p]
      PROVE  Whole(mined'[p])
  BY <1>2 DEF AllLinked
<1>3. QED
  BY <1>1, <1>2
     DEF Next, PushBlock, DropBlock, ReplaceChain, RefuseChain, ClearStored,
         AdoptChain, KeepChain, addToMempool, Restart, vars

LEMMA ArgumentsStayLinked ==
  ASSUME Typed, AllLinked, [Next]_vars
  PROVE  \A o \in Callers : InProgress(o)' => Linked(arg[o])'
<1> USE DEF AllLinked, Typed, TypeOK, StoreTypeOK, InProgress
<1> SUFFICES ASSUME NEW p \in Callers, InProgress(p)'
             PROVE  Linked(arg'[p])
  BY DEF Linked
<1>1. ASSUME NEW o \in Callers, NEW c \in Chains, ReplaceChain(o, c)
      PROVE  Linked(arg'[p])
  <2>1. Linked(c)
    BY <1>1, ValidIsLinked, OfferedIsSequence, OfferedIsWhole
       DEF ReplaceChain, Acceptable
  <2>2. CASE p = o
    BY <1>1, <2>1, <2>2 DEF ReplaceChain, BeginSave
  <2>3. CASE p # o
    BY <1>1, <2>3 DEF ReplaceChain, BeginSave
  <2>4. QED
    BY <2>2, <2>3
<1>2. ASSUME NEW o \in Callers, ClearStored(o)
      PROVE  Linked(arg'[p])
  BY <1>2 DEF ClearStored, ClearKeys
<1>3. ASSUME NEW o \in Callers, AdoptChain(o)
      PROVE  Linked(arg'[p])
  BY <1>3 DEF AdoptChain, WriteChain
<1>4. ASSUME NEW o \in Callers, KeepChain(o)
      PROVE  Linked(arg'[p])
  BY <1>4 DEF KeepChain, SaveFails
<1>5. ASSUME Restart
      PROVE  Linked(arg'[p])
  BY <1>5 DEF Restart, CrashStore
<1>6. CASE UNCHANGED storeVars
  BY <1>6 DEF storeVars
<1>7. QED
  BY <1>1, <1>2, <1>3, <1>4, <1>5, <1>6
     DEF Next, AddBlock, PushBlock, DropBlock, RefuseChain, addToMempool, vars

LEMMA ChainStaysLinked ==
  ASSUME Typed, AllLinked, [Next]_vars
  PROVE  ChainLinked'
<1> USE DEF AllLinked, ChainLinked, Typed, TypeOK
<1>1. ASSUME NEW o \in Callers, PushBlock(o)
      PROVE  ChainLinked'
  BY <1>1, PushedIsLinked DEF PushBlock
<1>2. ASSUME NEW o \in Callers, AdoptChain(o)
      PROVE  ChainLinked'
  BY <1>2 DEF AdoptChain, WriteChain, InProgress
<1>3. ASSUME Restart
      PROVE  ChainLinked'
  BY <1>3, GenesisIsLinked DEF Restart, Loaded
<1>4. CASE UNCHANGED chain
  BY <1>4 DEF Linked
<1>5. QED
  BY <1>1, <1>2, <1>3, <1>4
     DEF Next, AddBlock, DropBlock, ReplaceChain, RefuseChain, ClearStored,
         KeepChain, addToMempool, vars

\* However calls overlap, fail and are cut short by a crash, the node serves
\* one chain from the genesis block on, every block naming the one before.
THEOREM ServesLinkedChain == Spec => []ChainLinked
<1>1. Init => AllLinked
  BY GenesisIsLinked, StoreStarts
     DEF Init, StoreInit, AllLinked, ChainLinked, InProgress
<1>2. Typed /\ AllLinked /\ [Next]_vars => AllLinked'
  <2> SUFFICES ASSUME Typed, AllLinked, [Next]_vars
               PROVE  AllLinked'
    OBVIOUS
  <2>1. Load(db)' # None => Linked(Load(db)')
    BY LoadSteps DEF AllLinked, Typed, TypeOK, AdoptChain, InProgress
  <2>2. QED
    BY <2>1, ArgumentsStayLinked, ChainStaysLinked, MinedStaysWhole
       DEF AllLinked
<1>3. AllLinked => ChainLinked
  BY DEF AllLinked
<1>4. QED
  BY <1>1, <1>2, <1>3, TypedAlways, PTL DEF Spec

-----------------------------------------------------------------------------
(* What is stored, and what is served.                                     *)

LEMMA PushedExtends ==
  ASSUME NEW c, c \in Seq(Range(c)), NEW b
  PROVE  /\ Len(Append(c, b)) = Len(c) + 1
         /\ \A i \in DOMAIN c : Append(c, b)[i] = c[i]
         /\ Append(c, b)[Len(c) + 1] = b
OBVIOUS

\* Unless a read fails at startup, the chain on disk is the chain served or
\* its beginning: the two never part.
THEOREM StoresWhatItServes == Spec => []StoredIsServed
<1> USE DEF StoredIsServed, Extends
<1>1. Init => StoredIsServed
  BY StoreStarts DEF Init
<1>2. Typed /\ StoredIsServed /\ [Next]_vars => StoredIsServed'
  <2> SUFFICES ASSUME Typed, StoredIsServed, [Next]_vars,
                      "read" \notin Faults, Load(db)' # None
               PROVE  Extends(chain', Load(db)')
    OBVIOUS
  <2> USE DEF Typed, TypeOK
  <2>1. CASE Load(db)' = Load(db)
    <3>1. Load(db) \in Seq(Range(Load(db)))
      BY <2>1, OfferedIsSequence DEF StoredChainIsWhole
    <3>2. ASSUME NEW o \in Callers, PushBlock(o)
          PROVE  Extends(chain', Load(db)')
      <4>1. \A i \in DOMAIN Load(db) : i \in DOMAIN chain
        BY <2>1, <3>1
      <4>2. chain' = Append(chain, mined[o])
        BY <3>2 DEF PushBlock
      <4>3. /\ Len(chain') = Len(chain) + 1
            /\ \A i \in DOMAIN chain : chain'[i] = chain[i]
        BY <4>2, PushedExtends
      <4>4. QED
        BY <2>1, <3>1, <4>1, <4>3
    <3>3. ASSUME NEW o \in Callers, AdoptChain(o)
          PROVE  Extends(chain', Load(db)')
      <4>1. chain' = Load(db)'
        BY <3>3, LoadAfterWrite DEF AdoptChain
      <4>2. QED
        BY <4>1, <2>1, <3>1
    <3>4. ASSUME Restart
          PROVE  Extends(chain', Load(db)')
      <4>1. chain' = Load(db)
        BY <3>4, <2>1 DEF Restart, Loaded
      <4>2. QED
        BY <4>1, <2>1, <3>1
    <3>5. CASE UNCHANGED chain
      BY <3>5, <2>1
    <3>6. QED
      BY <3>2, <3>3, <3>4, <3>5
         DEF Next, AddBlock, DropBlock, ReplaceChain, RefuseChain,
             ClearStored, KeepChain, addToMempool, vars
  <2>2. ASSUME NEW o \in Callers, AdoptChain(o), arg[o] \in Chains,
               Load(db)' = arg[o]
        PROVE  Extends(chain', Load(db)')
    <3>1. chain' = Load(db)'
      BY <2>2 DEF AdoptChain
    <3>2. Load(db)' \in Seq(Range(Load(db)'))
      BY <2>2, OfferedIsSequence
    <3>3. QED
      BY <3>1, <3>2
  <2>3. QED
    BY <2>1, <2>2, LoadSteps
<1>3. QED
  BY <1>1, <1>2, TypedAlways, PTL DEF Spec

\* Every step of the node is a step of Ledger or leaves it alone: a block is
\* added to the tip it names, a replacement is kept as it is served, and a
\* restart serves what is kept.
THEOREM NodeImplementsLedger == Spec => ImplementsLedger
<1>1. Init => Contract!Init
  BY StoreStarts DEF Init, Contract!Init
<1>2. Typed /\ [Next]_vars => [Contract!Next]_(Contract!vars)
  <2> SUFFICES ASSUME Typed, [Next]_vars
               PROVE  Contract!Next \/ UNCHANGED Contract!vars
    OBVIOUS
  <2> USE DEF Typed, TypeOK, Contract!Next, Contract!vars
  <2>1. ASSUME NEW o \in Callers, PushBlock(o)
        PROVE  Contract!Grow
    <3>1. Load(db)' = Load(db)
      BY <2>1 DEF PushBlock, storeVars, Load
    <3>2. mined[o].lastHash = chain[Len(chain)].hash
      BY <2>1 DEF PushBlock, isValidNewBlock, isValidBlock,
                  validateBlockChain, Last
    <3>3. /\ Len(chain') = Len(chain) + 1
          /\ \A i \in DOMAIN chain : chain'[i] = chain[i]
          /\ chain'[Len(chain')] = mined[o]
      BY <2>1, PushedExtends DEF PushBlock
    <3>4. QED
      BY <3>1, <3>2, <3>3 DEF Contract!Grow
  <2>2. ASSUME NEW o \in Callers, ClearStored(o)
        PROVE  Contract!Lose \/ UNCHANGED Contract!vars
    BY <2>2, LoadAfterClear DEF ClearStored, Contract!Lose
  <2>3. ASSUME NEW o \in Callers, AdoptChain(o)
        PROVE  Contract!Replace
    BY <2>3, LoadAfterWrite DEF AdoptChain, Contract!Replace
  <2>4. ASSUME Restart
        PROVE  Contract!Recover
    <3>1. Load(db)' = Load(db)
      BY <2>4 DEF Restart, CrashStore, Load
    <3>2. QED
      BY <2>4, <3>1 DEF Restart, Loaded, Contract!Recover
  <2>5. CASE UNCHANGED <<chain, db>>
    BY <2>5 DEF Load
  <2>6. QED
    BY <2>1, <2>2, <2>3, <2>4, <2>5
       DEF Next, AddBlock, DropBlock, ReplaceChain, BeginSave, RefuseChain,
           KeepChain, SaveFails, addToMempool, vars, storeVars
<1>3. QED
  BY <1>1, <1>2, TypedAlways, PTL
     DEF Spec, ImplementsLedger, Contract!Spec

-----------------------------------------------------------------------------
(* Difficulty.                                                             *)

\* Whatever chains peers offer, a node accepts the blocks it mines on a tip
\* exactly as long as the tip is at most one outside the limits.
THEOREM TipGrowsWithinReach == Spec => []TipCanGrow
<1>1. TypeOK /\ ChainLinked => TipCanGrow
  <2> SUFFICES ASSUME TypeOK, ChainLinked
               PROVE  TipCanGrow
    OBVIOUS
  <2>1. Last(chain).difficulty \in Nat
    BY LinkedMeans DEF TypeOK, ChainLinked, Whole, Last
  <2>2. QED
    BY <2>1, MinedIsValid DEF TipCanGrow
<1>2. QED
  BY <1>1, NodeTypeCorrect, ServesLinkedChain, PTL

-----------------------------------------------------------------------------
(* What the hash of a tip tells.                                           *)

LEMMA PowersExist ==
  ASSUME NEW n \in Nat
  PROVE  \E P \in [0..n -> Nat] :
           /\ P = [k \in 0..n |-> IF k = 0 THEN 10 ELSE 10 * P[k - 1]]
           /\ \A k \in 0..n : k < P[k] /\ \E m \in Nat \ {0} : P[k] = 10 * m
<1> DEFINE base == 10
           G == [p \in (1..n) \X Nat |-> 10 * p[2]]
<1>1. IsStep(G, n, Nat) /\ base \in Nat
  BY DEF IsStep
<1>2. PICK P \in [0..n -> Nat] : IsRecursion(P, n, base, G)
  <2> HIDE DEF G, base
  <2>1. QED
    BY <1>1, RecursiveFunction
<1>3. P[0] = 10
  BY <1>2 DEF IsRecursion
<1>4. \A k \in 1..n :
        k \in 0..n /\ k # 0 /\ k - 1 \in 0..n /\ P[k - 1] \in Nat /\ P[k] = 10 * P[k - 1]
  <2>1. \A k \in 1..n : k \in 0..n /\ k # 0 /\ k - 1 \in 0..n
    OBVIOUS
  <2>2. \A k \in 1..n : P[k - 1] \in Nat /\ P[k] = G[<<k, P[k - 1]>>]
    BY <1>2, <2>1 DEF IsRecursion
  <2>3. QED
    BY <2>1, <2>2
<1>5. P = [k \in 0..n |-> IF k = 0 THEN 10 ELSE 10 * P[k - 1]]
  <2>1. \A k \in 0..n : k # 0 => k \in 1..n
    OBVIOUS
  <2>2. \A k \in 0..n : P[k] = IF k = 0 THEN 10 ELSE 10 * P[k - 1]
    BY <1>3, <1>4, <2>1
  <2>3. QED
    BY <2>2
<1> DEFINE T == {k \in 0..n : k < P[k] /\ \E m \in Nat \ {0} : P[k] = 10 * m}
<1>6. T \in SUBSET (0..n) /\ 0 \in T
  <2>1. 10 = 10 * 1 /\ 1 \in Nat \ {0}
    OBVIOUS
  <2>2. QED
    BY <1>3, <2>1
<1>7. ASSUME NEW k \in T, k < n
      PROVE  k + 1 \in T
  <2>1. k + 1 \in 1..n /\ (k + 1) - 1 = k
    BY <1>7
  <2>2. P[k + 1] = 10 * P[k] /\ P[k] \in Nat /\ k < P[k]
    BY <1>4, <2>1
  <2>3. P[k] \in Nat \ {0} /\ k + 1 < 10 * P[k]
    BY <2>1, <2>2
  <2>4. QED
    BY <2>1, <2>2, <2>3
<1> HIDE DEF T
<1>8. T = 0..n
  BY <1>6, <1>7, BoundedInduction
<1>9. QED
  BY <1>5, <1>8 DEF T

\* A scale is a multiple of ten.
LEMMA ScaleIsTens ==
  ASSUME NEW n \in Nat
  PROVE  \E m \in Nat \ {0} : Scale(n) = 10 * m
<1> DEFINE power == CHOOSE f : f = [k \in 0..n |-> IF k = 0 THEN 10 ELSE 10 * f[k - 1]]
           Least10(k) == n < power[k] /\ \A j \in 0..(k - 1) : power[j] =< n
<1>1. PICK P \in [0..n -> Nat] :
        /\ P = [k \in 0..n |-> IF k = 0 THEN 10 ELSE 10 * P[k - 1]]
        /\ \A k \in 0..n : k < P[k] /\ \E m \in Nat \ {0} : P[k] = 10 * m
  BY PowersExist
<1>2. power = [k \in 0..n |-> IF k = 0 THEN 10 ELSE 10 * power[k - 1]]
  BY <1>1
<1>3. Scale(n) = power[CHOOSE k \in 0..n : Least10(k)]
  BY DEF Scale
<1> HIDE DEF power
<1>4. \A k \in 0..n : power[k] = P[k]
  <2>1. \A k \in 1..n : k \in 0..n /\ k # 0
    OBVIOUS
  <2>2. 0 \in 0..n
    OBVIOUS
  <2>3. power[0] = P[0]
    BY <1>1, <1>2, <2>2
  <2>4. \A k \in 1..n : power[k] = 10 * power[k - 1] /\ P[k] = 10 * P[k - 1]
    BY <1>1, <1>2, <2>1
  <2>5. \A k \in 1..n : power[k - 1] = P[k - 1] => power[k] = P[k]
    BY <2>4
  <2>6. Alike(power, P, n)
    BY <2>3, <2>5 DEF Alike
  <2>7. QED
    BY <2>6, RecursionIsUnique
<1>5. \E k \in 0..n : Least10(k)
  <2> DEFINE T == {k \in 0..n : n < P[k]}
  <2>1. n \in T /\ T \in SUBSET Nat
    BY <1>1
  <2>2. PICK k \in T : \A j \in T : k =< j
    <3> HIDE DEF T
    <3>1. QED
      BY <2>1, LeastElement
  <2>3. \A j \in 0..(k - 1) : j \in 0..n /\ j \notin T
    BY <2>2
  <2>4. \A j \in 0..(k - 1) : P[j] =< n
    BY <2>3
  <2>5. QED
    BY <1>4, <2>2, <2>3, <2>4
<1>6. (CHOOSE k \in 0..n : Least10(k)) \in 0..n
  <2> HIDE DEF Least10
  <2>1. QED
    BY <1>5
<1>7. PICK k \in 0..n : Scale(n) = power[k]
  BY <1>3, <1>6
<1>8. QED
  BY <1>1, <1>4, <1>7

LEMMA NoMultipleIsNear ==
  ASSUME NEW q \in Int, -2 =< 10 * q, 10 * q =< 2
  PROVE  q = 0
OBVIOUS

LEMMA ProductsTell ==
  ASSUME NEW n \in Nat, NEW m \in Nat, NEW s \in Nat \ {0}, n * s = m * s
  PROVE  n = m
<1>1. ASSUME NEW x \in Nat, NEW y \in Nat, x < y
      PROVE  x * s # y * s
  <2>1. PICK z \in Nat \ {0} : y = x + z
    <3>1. y - x \in Nat \ {0} /\ y = x + (y - x)
      BY <1>1
    <3>2. QED
      BY <3>1
  <2>2. y * s = x * s + z * s /\ z * s > 0 /\ x * s \in Int /\ z * s \in Int
    BY <2>1
  <2>3. QED
    BY <2>2
<1>2. QED
  BY <1>1

\* Two pairs that read the same are one if their difficulties are near.
LEMMA JoinedTells ==
  ASSUME NEW n \in Nat, NEW d \in Nat, NEW m \in Nat, NEW e \in Nat,
         -2 =< d - e, d - e =< 2, Joined(n, d) = Joined(m, e)
  PROVE  n = m /\ d = e
<1>1. PICK k \in Nat \ {0} : Scale(d) = 10 * k
  BY ScaleIsTens
<1>2. PICK l \in Nat \ {0} : Scale(e) = 10 * l
  BY ScaleIsTens
<1>3. n * (10 * k) + d = m * (10 * l) + e
  BY <1>1, <1>2 DEF Joined
<1>4. PICK x \in Int, y \in Int : x = n * k /\ y = m * l
  OBVIOUS
<1>5. n * (10 * k) = 10 * x /\ m * (10 * l) = 10 * y
  BY <1>4
<1>6. d - e = 10 * (y - x) /\ y - x \in Int
  BY <1>3, <1>5
<1>7. y - x = 0
  BY <1>6, NoMultipleIsNear
<1>8. d = e
  BY <1>6, <1>7
<1>9. Scale(d) \in Nat \ {0} /\ n * Scale(d) = m * Scale(d)
  BY <1>1, <1>2, <1>3, <1>8
<1>10. QED
  BY <1>8, <1>9, ProductsTell

LEMMA HashTells ==
  ASSUME NEW t, NEW h, NEW l, NEW n, NEW d,
         NEW u, NEW i, NEW m, NEW o, NEW e,
         Hash(t, h, l, n, d) = Hash(u, i, m, o, e)
  PROVE  t = u /\ h = i /\ l = m /\ Joined(n, d) = Joined(o, e)
BY DEF Hash

LEMMA HashIsNotGenesis ==
  ASSUME NEW t, NEW h, NEW l, NEW n, NEW d
  PROVE  Hash(t, h, l, n, d) # GenesisHash
<1>1. DOMAIN Hash(t, h, l, n, d) = 1..4
  BY DEF Hash
<1>2. DOMAIN GenesisHash = 1..1
  BY DEF GenesisHash
<1>3. 2 \in 1..4 /\ 2 \notin 1..1
  OBVIOUS
<1>4. QED
  BY <1>1, <1>2, <1>3

\* What two blocks with one hash are sure to have in common.
Reads(b, c) ==
  /\ b.hash = c.hash
  /\ b.timestamp = c.timestamp
  /\ b.lastHash = c.lastHash
  /\ b.transactions = c.transactions
  /\ Joined(b.nonce, b.difficulty) = Joined(c.nonce, c.difficulty)

\* Two blocks of linked chains with one hash read the same and have parents
\* with one hash, or both are the genesis blocks.
LEMMA EqualHashes ==
  ASSUME NEW a, Linked(a), NEW i \in 1..Len(a), Len(a) \in Nat,
         NEW b, Linked(b), NEW j \in 1..Len(b), Len(b) \in Nat,
         a[i].hash = b[j].hash
  PROVE  /\ i = 1 <=> j = 1
         /\ i # 1 => Reads(a[i], b[j]) /\ a[i - 1].hash = b[j - 1].hash
<1>1. /\ a[1].hash = GenesisHash /\ b[1].hash = GenesisHash
      /\ \A k \in 2..Len(a) : LinkedTo(a[k], a[k - 1])
      /\ \A k \in 2..Len(b) : LinkedTo(b[k], b[k - 1])
  BY LinkedMeans
<1>2. \A k \in 2..Len(a) : a[k].hash # GenesisHash
  BY <1>1, HashIsNotGenesis DEF LinkedTo
<1>3. \A k \in 2..Len(b) : b[k].hash # GenesisHash
  BY <1>1, HashIsNotGenesis DEF LinkedTo
<1>4. i = 1 <=> j = 1
  <2>1. i # 1 => i \in 2..Len(a)
    OBVIOUS
  <2>2. j # 1 => j \in 2..Len(b)
    OBVIOUS
  <2>3. QED
    BY <1>1, <1>2, <1>3, <2>1, <2>2
<1>5. ASSUME i # 1
      PROVE  Reads(a[i], b[j]) /\ a[i - 1].hash = b[j - 1].hash
  <2>1. i \in 2..Len(a) /\ j \in 2..Len(b)
    BY <1>4, <1>5
  <2>2. LinkedTo(a[i], a[i - 1]) /\ LinkedTo(b[j], b[j - 1])
    BY <1>1, <2>1
  <2>3. Hash(a[i].timestamp, a[i].lastHash, a[i].transactions,
             a[i].nonce, a[i].difficulty)
          = Hash(b[j].timestamp, b[j].lastHash, b[j].transactions,
                 b[j].nonce, b[j].difficulty)
    BY <2>2 DEF LinkedTo
  <2>4. Reads(a[i], b[j])
    BY <2>3, HashTells DEF Reads
  <2>5. QED
    BY <2>2, <2>4 DEF LinkedTo, Reads
<1>6. QED
  BY <1>4, <1>5

\* Two chains of one length whose blocks read the same have one history: from
\* the genesis block up, the difficulties of each two blocks are at most one
\* away from the same, hence at most two from each other.
LEMMA ReadsAreSame ==
  ASSUME NEW a, Linked(a), NEW b, Linked(b),
         NEW m \in Nat \ {0}, m = Len(a), m = Len(b),
         \A i \in 2..m : Reads(a[i], b[i])
  PROVE  SameHistory(a, b)
<1>1. /\ a[1].difficulty = MinDifficulty /\ b[1].difficulty = MinDifficulty
      /\ \A i \in 1..m : Whole(a[i]) /\ Whole(b[i])
      /\ \A i \in 2..m : LinkedTo(a[i], a[i - 1]) /\ LinkedTo(b[i], b[i - 1])
  BY LinkedMeans
<1>2. ASSUME NEW i \in 2..m, a[i - 1].difficulty = b[i - 1].difficulty
      PROVE  a[i].nonce = b[i].nonce /\ a[i].difficulty = b[i].difficulty
  <2>1. i \in 1..m /\ i - 1 \in 1..m
    OBVIOUS
  <2>2. PICK d \in Nat, e \in Nat, c \in Nat :
          /\ d = a[i].difficulty /\ e = b[i].difficulty
          /\ c = a[i - 1].difficulty
    BY <1>1, <2>1 DEF Whole
  <2>3. Distance(d, c) =< 1 /\ Distance(e, c) =< 1
    BY <1>1, <1>2, <2>2 DEF LinkedTo
  <2>4. -2 =< d - e /\ d - e =< 2
    BY <2>3 DEF Distance
  <2>5. PICK x \in Nat, y \in Nat : x = a[i].nonce /\ y = b[i].nonce
    BY <1>1, <2>1 DEF Whole
  <2>6. Joined(x, d) = Joined(y, e)
    BY <2>2, <2>5 DEF Reads
  <2>7. x = y /\ d = e
    BY <2>4, <2>6, JoinedTells
  <2>8. QED
    BY <2>2, <2>5, <2>7
<1> DEFINE T == {k \in 0..(m - 1) : a[k + 1].difficulty = b[k + 1].difficulty}
<1>3. T \in SUBSET (0..(m - 1)) /\ 0 \in T
  BY <1>1
<1>4. ASSUME NEW k \in T, k < m - 1
      PROVE  k + 1 \in T
  <2>1. k + 2 \in 2..m /\ (k + 2) - 1 = k + 1 /\ (k + 1) + 1 = k + 2
    BY <1>4
  <2>2. a[k + 2].difficulty = b[k + 2].difficulty
    BY <1>2, <2>1
  <2>3. QED
    BY <1>4, <2>1, <2>2
<1> HIDE DEF T
<1>5. T = 0..(m - 1)
  BY <1>3, <1>4, BoundedInduction
<1>6. ASSUME NEW i \in 2..m
      PROVE  SameHeader(a[i], b[i])
  <2>1. i - 2 \in 0..(m - 1) /\ (i - 2) + 1 = i - 1
    OBVIOUS
  <2>2. a[i - 1].difficulty = b[i - 1].difficulty
    BY <1>5, <2>1 DEF T
  <2>3. QED
    BY <1>2, <2>2 DEF Reads, SameHeader
<1>7. QED
  BY <1>6 DEF SameHistory

\* The hash of its last block fixes a linked chain: by induction from the
\* tips down, block by block, to the genesis block of the shorter chain,
\* which must then be the other's; and then from there up again.
LEMMA TipFixesHistory ==
  ASSUME NEW a, a \in Seq(Range(a)), Linked(a),
         NEW b, b \in Seq(Range(b)), Linked(b),
         Last(a).hash = Last(b).hash
  PROVE  SameHistory(a, b)
<1>1. PICK m \in Nat \ {0}, n \in Nat \ {0} : m = Len(a) /\ n = Len(b)
  BY DEF Linked
<1> DEFINE N == IF m =< n THEN m - 1 ELSE n - 1
           T == {k \in 0..N : a[m - k].hash = b[n - k].hash}
<1>2. N \in Nat /\ \A k \in 0..N : m - k \in 1..m /\ n - k \in 1..n
  OBVIOUS
<1>3. T \in SUBSET (0..N) /\ 0 \in T
  BY <1>1, <1>2 DEF Last
<1>4. ASSUME NEW k \in T, k < N
      PROVE  k + 1 \in T
  <2>1. /\ k \in Nat /\ k + 1 \in 0..N
        /\ m - k # 1 /\ (m - k) - 1 = m - (k + 1)
        /\ n - k # 1 /\ (n - k) - 1 = n - (k + 1)
    BY <1>2, <1>4
  <2>2. PICK i \in 1..Len(a), j \in 1..Len(b) : i = m - k /\ j = n - k
    BY <1>1, <1>2
  <2>3. a[i].hash = b[j].hash
    BY <2>2
  <2>4. i # 1 /\ Len(a) \in Nat /\ Len(b) \in Nat
    BY <1>1, <2>1, <2>2
  <2>5. a[i - 1].hash = b[j - 1].hash
    BY <2>3, <2>4, EqualHashes
  <2>6. QED
    BY <2>1, <2>2, <2>5
<1> HIDE DEF T, N
<1>5. T = 0..N
  BY <1>2, <1>3, <1>4, BoundedInduction
<1>6. \A k \in 0..N : a[m - k].hash = b[n - k].hash
  BY <1>5 DEF T
<1>7. m = n
  <2>1. N \in 0..N
    BY <1>2
  <2>2. PICK i \in 1..Len(a), j \in 1..Len(b) : i = m - N /\ j = n - N
    BY <1>1, <1>2, <2>1
  <2>3. a[i].hash = b[j].hash
    BY <1>6, <2>1, <2>2
  <2>4. i = 1 <=> j = 1
    BY <1>1, <2>3, EqualHashes
  <2>5. QED
    BY <2>2, <2>4 DEF N
<1>8. ASSUME NEW i \in 2..m
      PROVE  Reads(a[i], b[i])
  <2>1. PICK k \in 0..N : m - k = i /\ n - k = i
    <3>1. m - i \in 0..N /\ m - (m - i) = i /\ n - (m - i) = i
      BY <1>7 DEF N
    <3>2. QED
      BY <3>1
  <2>2. a[i].hash = b[i].hash
    BY <1>6, <2>1
  <2>3. i \in 1..Len(a) /\ i \in 1..Len(b) /\ i # 1
    BY <1>1, <1>7
  <2>4. QED
    BY <1>1, <2>2, <2>3, EqualHashes
<1>9. QED
  BY <1>1, <1>7, <1>8, ReadsAreSame

\* The tip a node serves stands for its whole history, in every reachable
\* state and for every chain anyone offers.
THEOREM TipStandsForHistory == Spec => []TipTellsHistory
<1>1. TypeOK /\ ChainLinked => TipTellsHistory
  BY TipFixesHistory, OfferedIsSequence DEF TypeOK, ChainLinked, TipTellsHistory
<1>2. QED
  BY <1>1, NodeTypeCorrect, ServesLinkedChain, PTL

-----------------------------------------------------------------------------
(* The window of validateDifficultyAdjustment.                             *)

Gap(c, i) == c[i].timestamp - c[i - 1].timestamp

\* Blocks that are each between lo and hi younger than the one before span,
\* over k of them, between k times lo and k times hi.
LEMMA GapsAddUp ==
  ASSUME NEW c, NEW m \in Nat, NEW K \in Nat, K < m,
         \A i \in 1..m : c[i].timestamp \in Int,
         NEW lo \in Nat, NEW hi \in Nat,
         \A i \in (m - K + 1)..m : lo =< Gap(c, i) /\ Gap(c, i) =< hi
  PROVE  /\ K * lo =< c[m].timestamp - c[m - K].timestamp
         /\ c[m].timestamp - c[m - K].timestamp =< K * hi
<1> DEFINE Span(k) == c[m].timestamp - c[m - k].timestamp
           T == {k \in 0..K : k * lo =< Span(k) /\ Span(k) =< k * hi}
<1>1. T \in SUBSET (0..K) /\ 0 \in T
  OBVIOUS
<1>2. ASSUME NEW k \in T, k < K
      PROVE  k + 1 \in T
  <2>1. PICK i \in (m - K + 1)..m : i = m - k /\ i - 1 = m - (k + 1)
    <3>1. m - k \in (m - K + 1)..m /\ (m - k) - 1 = m - (k + 1)
      BY <1>2
    <3>2. QED
      BY <3>1
  <2>2. i \in 1..m /\ i - 1 \in 1..m
    OBVIOUS
  <2>3. lo =< Gap(c, i) /\ Gap(c, i) =< hi
    OBVIOUS
  <2>4. Span(k + 1) = Span(k) + Gap(c, i) /\ Span(k) \in Int /\ Gap(c, i) \in Int
    BY <2>1, <2>2 DEF Gap
  <2>5. k * lo =< Span(k) /\ Span(k) =< k * hi /\ k \in Nat /\ k + 1 \in 0..K
    BY <1>2
  <2>6. (k + 1) * lo = k * lo + lo /\ (k + 1) * hi = k * hi + hi
        /\ k * lo \in Int /\ k * hi \in Int
    BY <2>5
  <2> HIDE DEF Span
  <2>7. (k + 1) * lo =< Span(k + 1) /\ Span(k + 1) =< (k + 1) * hi
    BY <2>3, <2>4, <2>5, <2>6
  <2>8. QED
    BY <2>5, <2>7
<1> HIDE DEF T
<1>3. T = 0..K
  BY <1>1, <1>2, BoundedInduction
<1>4. K \in T
  BY <1>3
<1>5. QED
  BY <1>4 DEF T

\* Gaps of lo to hi, of which a window has one less than it has blocks, are
\* within a quarter of the time expected of its blocks.
Tolerated(lo, hi) ==
  /\ 3 * (GenerationInterval * AdjustmentInterval)
       =< 4 * ((AdjustmentInterval - 1) * lo)
  /\ 4 * ((AdjustmentInterval - 1) * hi)
       =< 5 * (GenerationInterval * AdjustmentInterval)

\* A chain passes the window if the gaps between its last blocks are such,
\* whatever came before.
THEOREM PaceIsAccepted ==
  ASSUME NEW c, c \in Seq(Range(c)),
         \A i \in 1..Len(c) : c[i].timestamp \in Int,
         NEW lo \in Nat, NEW hi \in Nat,
         \A i \in (Len(c) - AdjustmentInterval + 2)..Len(c) :
           lo =< Gap(c, i) /\ Gap(c, i) =< hi,
         Tolerated(lo, hi)
  PROVE  validateDifficultyAdjustment(c)
<1> SUFFICES ASSUME Len(c) >= AdjustmentInterval
             PROVE  validateDifficultyAdjustment(c)
  BY DEF validateDifficultyAdjustment
<1>1. PICK m \in Nat, K \in Nat, W \in Nat :
        /\ m = Len(c) /\ K = AdjustmentInterval - 1 /\ K < m
        /\ W = GenerationInterval * AdjustmentInterval
  BY ValidationAssumption
<1> DEFINE span == c[m].timestamp - c[m - K].timestamp
<1>2. K * lo =< span /\ span =< K * hi
  <2>1. m - K + 1 = Len(c) - AdjustmentInterval + 2
    BY <1>1, ValidationAssumption
  <2>2. QED
    BY <1>1, <2>1, GapsAddUp
<1>3. m - K \in 1..m /\ m \in 1..m
  BY <1>1
<1>4. span \in Int
  <2>1. c[m].timestamp \in Int /\ c[m - K].timestamp \in Int
    BY <1>1, <1>3
  <2>2. QED
    BY <2>1
<1> HIDE DEF span
<1>5. 4 * Distance(span, W) =< W
  <2>1. PICK p \in Int, q \in Int :
          /\ p = K * lo /\ q = K * hi
          /\ 3 * W =< 4 * p /\ 4 * q =< 5 * W
    BY <1>1 DEF Tolerated
  <2>2. p =< span /\ span =< q
    BY <1>2, <2>1
  <2>3. QED
    BY <1>4, <2>1, <2>2 DEF Distance
<1>6. span = c[Len(c)].timestamp - c[Len(c) - AdjustmentInterval + 1].timestamp
  BY <1>1, ValidationAssumption DEF span
<1>7. QED
  BY <1>1, <1>5, <1>6 DEF validateDifficultyAdjustment

\* So of a chain with a block every interval, if the window has four blocks
\* or more (it has ten).
THEOREM SteadyPaceIsAccepted ==
  ASSUME AdjustmentInterval >= 4,
         NEW c, c \in Seq(Range(c)),
         \A i \in 1..Len(c) : c[i].timestamp \in Int,
         \A i \in (Len(c) - AdjustmentInterval + 2)..Len(c) :
           Gap(c, i) = GenerationInterval
  PROVE  validateDifficultyAdjustment(c)
<1>1. PICK N \in Nat, G \in Nat, W \in Nat :
        /\ N = AdjustmentInterval /\ G = GenerationInterval
        /\ N >= 4 /\ W = G * N
  BY ValidationAssumption
<1>2. (N - 1) * G = W - G /\ 4 * G =< W
  BY <1>1
<1>3. 3 * W =< 4 * ((N - 1) * G) /\ 4 * ((N - 1) * G) =< 5 * W
  BY <1>1, <1>2
<1>4. \A i \in (Len(c) - AdjustmentInterval + 2)..Len(c) :
        G =< Gap(c, i) /\ Gap(c, i) =< G
  BY <1>1
<1>5. Tolerated(G, G)
  BY <1>1, <1>3 DEF Tolerated
<1>6. QED
  BY <1>4, <1>5, PaceIsAccepted

\* But the window of a chain of exactly that many blocks begins with the
\* genesis block, dated 0. On a clock past its quarter of grace such a chain
\* has no valid form.
IsLate(t) == 4 * t > 5 * (GenerationInterval * AdjustmentInterval)

BegunLate(c) ==
  /\ c[1].timestamp = 0
  /\ Len(c) > 1 => Last(c).timestamp \in Time /\ IsLate(Last(c).timestamp)

LEMMA LateIsInvalid ==
  ASSUME NEW c, Len(c) = AdjustmentInterval, BegunLate(c), NEW r
  PROVE  ~isValidChain(c, r)
<1>1. PICK W \in Nat, N \in Nat \ {0} :
        /\ N = AdjustmentInterval /\ W = GenerationInterval * N
        /\ N = 1 => W = GenerationInterval
  BY ValidationAssumption
<1>2. CASE N = 1
  <2>1. c[Len(c)].timestamp - c[Len(c) - AdjustmentInterval + 1].timestamp = 0
    BY <1>1, <1>2 DEF BegunLate
  <2>2. W # 0 /\ ~(4 * Distance(0, W) =< W)
    BY <1>1, <1>2, ValidationAssumption DEF Distance
  <2>3. QED
    BY <1>1, <2>1, <2>2 DEF isValidChain, validateDifficultyAdjustment
<1>3. CASE N # 1
  <2>1. PICK t \in Nat : t = Last(c).timestamp /\ 4 * t > 5 * W
    <3>1. Len(c) > 1
      BY <1>1, <1>3
    <3>2. Last(c).timestamp \in Nat /\ IsLate(Last(c).timestamp)
      BY <3>1, ValidationAssumption DEF BegunLate
    <3>3. 4 * Last(c).timestamp > 5 * W
      BY <1>1, <3>2 DEF IsLate
    <3>4. QED
      BY <3>2, <3>3
  <2>2. c[Len(c)].timestamp - c[Len(c) - AdjustmentInterval + 1].timestamp = t
    BY <1>1, <2>1 DEF BegunLate, Last
  <2>3. ~(4 * Distance(t, W) =< W)
    BY <2>1 DEF Distance
  <2>4. QED
    BY <1>1, <2>2, <2>3 DEF isValidChain, validateDifficultyAdjustment
<1>4. QED
  BY <1>2, <1>3

LateChain ==
  /\ BegunLate(chain)
  /\ \A o \in Callers : pc[o] = "mining" => mined[o].timestamp \in Time

\* A block pushed on such a chain has a clock reading later than its tip's.
LEMMA PushedLate ==
  ASSUME \A t \in Time \ {0} : IsLate(t), Typed, LateChain,
         NEW o \in Callers, PushBlock(o)
  PROVE  BegunLate(chain')
<1>1. /\ chain \in Seq(Range(chain)) /\ chain # <<>>
      /\ chain' = Append(chain, mined[o])
      /\ mined[o].timestamp \in Time
      /\ mined[o].timestamp > Last(chain).timestamp
  BY DEF PushBlock, isValidNewBlock, isValidBlock, validateBlockChain,
         LateChain, Typed, TypeOK
<1>2. PICK n \in Nat \ {0} : n = Len(chain)
  BY <1>1
<1>3. /\ Len(chain') = Len(chain) + 1
      /\ chain'[1] = chain[1] /\ Last(chain') = mined[o]
  BY <1>1, <1>2 DEF Last
<1>4. Last(chain).timestamp \in Nat
  <2>1. CASE Len(chain) = 1
    BY <2>1 DEF LateChain, BegunLate, Last
  <2>2. CASE Len(chain) > 1
    <3>1. Last(chain).timestamp \in Time
      BY <2>2 DEF LateChain, BegunLate
    <3>2. QED
      BY <3>1, ValidationAssumption
  <2>3. QED
    BY <1>2, <2>1, <2>2
<1>5. mined[o].timestamp # 0
  BY <1>1, <1>4, ValidationAssumption
<1>6. QED
  BY <1>1, <1>2, <1>3, <1>5 DEF LateChain, BegunLate

\* The disagreement of run chain_window is in no bound of it: a node that
\* runs later than a window and a quarter after date 0, with peers that do,
\* never has a chain of exactly one window that passes its own validation,
\* whichever random bytes the comparison draws.
THEOREM LateChainsFailTheWindow ==
  ASSUME \A t \in Time \ {0} : IsLate(t),
         \A c \in Chains : BegunLate(c)
  PROVE  Spec => [](Len(chain) = AdjustmentInterval
                      => \A r \in Randomness : ~isValidChain(chain, r))
<1>1. Init => LateChain
  BY DEF Init, LateChain, BegunLate, Genesis
<1>2. Typed /\ LateChain /\ [Next]_vars => LateChain'
  <2> SUFFICES ASSUME Typed, LateChain, [Next]_vars
               PROVE  LateChain'
    OBVIOUS
  <2> USE DEF Typed, TypeOK
  <2>1. BegunLate(chain')
    <3>1. ASSUME NEW o \in Callers, PushBlock(o)
          PROVE  BegunLate(chain')
      BY <3>1, PushedLate
    <3>2. ASSUME NEW o \in Callers, AdoptChain(o)
          PROVE  BegunLate(chain')
      BY <3>2, LoadAfterWrite DEF AdoptChain
    <3>3. CASE Restart
      <4>1. ASSUME NEW r \in Randomness, chain' = <<Genesis(r)>>
            PROVE  BegunLate(chain')
        BY <4>1 DEF BegunLate, Genesis
      <4>2. ASSUME Load(db) # None, chain' = Load(db)
            PROVE  BegunLate(chain')
        BY <4>2 DEF StoredChainIsWhole
      <4>3. QED
        BY <3>3, <4>1, <4>2 DEF Restart, Loaded
    <3>4. CASE UNCHANGED chain
      BY <3>4 DEF LateChain, BegunLate, Last
    <3>5. QED
      BY <3>1, <3>2, <3>3, <3>4
         DEF Next, AddBlock, DropBlock, ReplaceChain, RefuseChain, ClearStored,
             KeepChain, addToMempool, vars
  <2>2. ASSUME NEW p \in Callers, pc'[p] = "mining"
        PROVE  mined'[p].timestamp \in Time
    <3>1. ASSUME NEW o \in Callers, NEW t \in Batches, AddBlock(o, t)
          PROVE  mined'[p].timestamp \in Time
      <4>1. CASE p = o
        BY <3>1, <4>1 DEF AddBlock, mineBlock
      <4>2. CASE p # o
        BY <2>2, <3>1, <4>2 DEF AddBlock, LateChain
      <4>3. QED
        BY <4>1, <4>2
    <3>2. ASSUME pc[p] = "mining", mined'[p] = mined[p]
          PROVE  mined'[p].timestamp \in Time
      BY <3>2 DEF LateChain
    <3>3. QED
      BY <2>2, <3>1, <3>2
         DEF Next, PushBlock, DropBlock, ReplaceChain, RefuseChain,
             ClearStored, AdoptChain, KeepChain, addToMempool, Restart, vars
  <2>3. QED
    BY <2>1, <2>2 DEF LateChain
<1>3. LateChain => (Len(chain) = AdjustmentInterval
                      => \A r \in Randomness : ~isValidChain(chain, r))
  BY LateIsInvalid DEF LateChain
<1>4. QED
  BY <1>1, <1>2, <1>3, TypedAlways, PTL DEF Spec

-----------------------------------------------------------------------------
(* Every call ends.                                                        *)

\* The premise of what follows, which is about ENABLED and for no prover
\* here: a call in progress has a step to take. (An addBlock pushes or drops
\* its block, and a save clears, writes or fails.)
CallsCanProceed ==
  \A o \in Callers : Busy(o) => ENABLED <<CallsProceed(o)>>_vars

\* A call in progress is where it was, one step on, or over.
Clearing(o) == pc[o] = "replacing" /\ phase[o] = "clearing"
Writing(o) == pc[o] = "replacing" /\ phase[o] = "writing"

LEMMA BusyIsSomewhere ==
  ASSUME TypeOK, NEW o \in Callers, Busy(o)
  PROVE  pc[o] = "mining" \/ Clearing(o) \/ Writing(o)
BY DEF TypeOK, StoreTypeOK, InProgress, Busy, Clearing, Writing

\* No step of any call, and no restart, sends a call back.
LEMMA CallsOnlyAdvance ==
  ASSUME TypeOK, [Next]_vars, NEW o \in Callers
  PROVE  /\ pc[o] = "mining" => pc'[o] = "mining" \/ ~Busy(o)'
         /\ Clearing(o) => Clearing(o)' \/ Writing(o)' \/ ~Busy(o)'
         /\ Writing(o) => Writing(o)' \/ ~Busy(o)'
<1> USE DEF TypeOK, StoreTypeOK, Busy, Clearing, Writing, InProgress
<1>1. ASSUME NEW p \in Callers,
             \/ \E t \in Batches : AddBlock(p, t)
             \/ PushBlock(p) \/ DropBlock(p)
             \/ \E c \in Chains : RefuseChain(p, c)
      PROVE  \/ pc'[o] = pc[o] /\ phase'[o] = phase[o]
             \/ pc[o] # "replacing" /\ ~Busy(o)'
             \/ ~Busy(o)
  BY <1>1 DEF AddBlock, PushBlock, DropBlock, RefuseChain, storeVars
<1>2. ASSUME NEW p \in Callers, NEW c \in Chains, ReplaceChain(p, c)
      PROVE  (pc'[o] = pc[o] /\ phase'[o] = phase[o]) \/ ~Busy(o)
  BY <1>2 DEF ReplaceChain, BeginSave
<1>3. ASSUME NEW p \in Callers, ClearStored(p) \/ AdoptChain(p) \/ KeepChain(p)
      PROVE  \/ pc'[o] = pc[o] /\ phase'[o] = phase[o]
             \/ ~Busy(o)'
             \/ Clearing(o) /\ Writing(o)'
  BY <1>3 DEF ClearStored, ClearKeys, AdoptChain, WriteChain, KeepChain, SaveFails
<1>4. CASE Restart
  BY <1>4 DEF Restart
<1>5. CASE (\E t \in Tx : addToMempool(t)) \/ UNCHANGED vars
  BY <1>5 DEF addToMempool, vars, storeVars
<1>6. QED
  BY <1>1, <1>2, <1>3, <1>4, <1>5 DEF Next

\* And its own steps bring it on.
LEMMA OwnStepsAdvance ==
  ASSUME TypeOK, NEW o \in Callers, <<CallsProceed(o)>>_vars
  PROVE  /\ pc[o] = "mining" => ~Busy(o)'
         /\ Clearing(o) => Writing(o)' \/ ~Busy(o)'
         /\ Writing(o) => ~Busy(o)'
BY DEF TypeOK, StoreTypeOK, Busy, Clearing, Writing, InProgress, CallsProceed,
       PushBlock, DropBlock, ClearStored, ClearKeys, AdoptChain, WriteChain,
       KeepChain, SaveFails

\* Every call ends, given that a call in progress always has a step to take:
\* neither the steps of others nor a failing store can hold it up for ever.
THEOREM EveryCallEnds == FairSpec /\ []CallsCanProceed => CallsEnd
<1> SUFFICES ASSUME NEW o \in Callers
             PROVE  FairSpec /\ []CallsCanProceed => (Busy(o) ~> ~Busy(o))
  BY DEF CallsEnd
<1>1. TypeOK /\ Busy(o) => pc[o] = "mining" \/ Clearing(o) \/ Writing(o)
  BY BusyIsSomewhere
<1>2. TypeOK /\ [Next]_vars
        => /\ pc[o] = "mining" => (pc[o] = "mining")' \/ ~Busy(o)'
           /\ Clearing(o) => Clearing(o)' \/ Writing(o)' \/ ~Busy(o)'
           /\ Writing(o) => Writing(o)' \/ ~Busy(o)'
  BY CallsOnlyAdvance
<1>3. TypeOK /\ <<CallsProceed(o)>>_vars
        => /\ pc[o] = "mining" => ~Busy(o)'
           /\ Clearing(o) => Writing(o)' \/ ~Busy(o)'
           /\ Writing(o) => ~Busy(o)'
  BY OwnStepsAdvance
<1>4. CallsCanProceed /\ Busy(o) => ENABLED <<CallsProceed(o)>>_vars
  BY DEF CallsCanProceed
<1>5. pc[o] = "mining" \/ Clearing(o) \/ Writing(o) => Busy(o)
  BY DEF Busy, Clearing, Writing
<1>6. (\A p \in Callers : CallIsServed(p)) => CallIsServed(o)
  OBVIOUS
<1>7. FairSpec => [][Next]_vars
  BY PTL DEF FairSpec, Spec
<1>8. FairSpec => []TypeOK
  BY NodeTypeCorrect, PTL DEF FairSpec
<1>9. FairSpec => CallIsServed(o)
  BY <1>6, PTL DEF FairSpec
<1>10. CallIsServed(o) => WF_vars(CallsProceed(o))
  BY PTL DEF CallIsServed
<1>11. QED
  BY <1>1, <1>2, <1>3, <1>4, <1>5, <1>7, <1>8, <1>9, <1>10, PTL
=============================================================================
