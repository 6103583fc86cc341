--------------------------- MODULE LevelDB_proofs ---------------------------
(***************************************************************************)
(* Proofs about LevelDB: its types, that a load never blends two chains,   *)
(* and that the store implements AtomicStore.                              *)
(***************************************************************************)
EXTENDS LevelDB, TLAPS

\* A height key is not another key of the layout.
LEMMA LayoutKeys ==
  /\ \A h, g : HeightKey(h) = HeightKey(g) => h = g
  /\ \A h : HeightKey(h) # TopKey
  /\ \A h, x : HeightKey(h) # HashKey(x)
  /\ \A h, x : HeightKey(h) # TxKey(x)
  /\ \A x : HashKey(x) # TopKey /\ TxKey(x) # TopKey
BY DEF HeightKey, HashKey, TxKey, TopKey

\* The blocks of a chain are held under their heights.
LEMMA BlocksHeld ==
  ASSUME NEW c, c \in Seq(Range(c))
  PROVE  /\ TopKey \notin DOMAIN BlockEntries(c)
         /\ \A i \in 1..Len(c) :
              /\ HeightKey(i - 1) \in DOMAIN BlockEntries(c)
              /\ BlockEntries(c)[HeightKey(i - 1)] = c[i]
<1>1. DOMAIN c = 1..Len(c) /\ Len(c) \in Nat
  OBVIOUS
<1>2. DOMAIN BlockEntries(c) = {HeightKey(i - 1) : i \in 1..Len(c)}
  BY <1>1 DEF BlockEntries
<1>3. TopKey \notin DOMAIN BlockEntries(c)
  BY <1>2, LayoutKeys
<1>4. ASSUME NEW i \in 1..Len(c)
      PROVE  /\ HeightKey(i - 1) \in DOMAIN BlockEntries(c)
             /\ BlockEntries(c)[HeightKey(i - 1)] = c[i]
  <2>1. HeightKey(i - 1) \in DOMAIN BlockEntries(c)
    BY <1>2
  <2>2. BlockEntries(c)[HeightKey(i - 1)] = c[HeightKey(i - 1)[2] + 1]
    BY <2>1, <1>2, <1>1 DEF BlockEntries
  <2>3. HeightKey(i - 1)[2] + 1 = i
    BY <1>1 DEF HeightKey
  <2>4. QED
    BY <2>1, <2>2, <2>3
<1>5. QED
  BY <1>3, <1>4

\* So are they in the whole batch, and wherever the batch is applied.
LEMMA BatchHolds ==
  ASSUME NEW c, c \in Seq(Range(c)), NEW data
  PROVE  LET after == Put(data, ChainBatch(c))
         IN /\ TopKey \in DOMAIN after
            /\ after[TopKey] = Len(c) - 1
            /\ \A i \in 1..Len(c) : /\ HeightKey(i - 1) \in DOMAIN after
                                    /\ after[HeightKey(i - 1)] = c[i]
<1> DEFINE index == Put(BlockEntries(c), HeightEntry(c))
           rest == Put(TxEntries(c), HashEntries(c))
<1>1. DOMAIN HeightEntry(c) = {TopKey} /\ HeightEntry(c)[TopKey] = Len(c) - 1
  BY DEF HeightEntry
<1>2. /\ TopKey \in DOMAIN index
      /\ index[TopKey] = Len(c) - 1
      /\ \A i \in 1..Len(c) : /\ HeightKey(i - 1) \in DOMAIN index
                              /\ index[HeightKey(i - 1)] = c[i]
  <2>1. /\ DOMAIN index = DOMAIN BlockEntries(c) \cup {TopKey}
        /\ index[TopKey] = Len(c) - 1
        /\ \A k \in DOMAIN BlockEntries(c) \ {TopKey} :
             index[k] = BlockEntries(c)[k]
    BY <1>1 DEF Put
  <2> HIDE DEF index
  <2>2. QED
    BY <2>1, BlocksHeld, LayoutKeys
<1>3. ChainBatch(c) = Put(rest, index)
  BY DEF ChainBatch
<1> HIDE DEF index, rest
<1>4. /\ DOMAIN index \subseteq DOMAIN ChainBatch(c)
      /\ \A k \in DOMAIN index : ChainBatch(c)[k] = index[k]
  BY <1>3 DEF Put
<1>5. /\ DOMAIN index \subseteq DOMAIN Put(data, ChainBatch(c))
      /\ \A k \in DOMAIN index : Put(data, ChainBatch(c))[k] = index[k]
  BY <1>4 DEF Put
<1>6. QED
  BY <1>2, <1>5

\* A chain saved is the chain loaded, whatever the database held before.
LEMMA SavedIsLoaded ==
  ASSUME NEW c, c \in Seq(Range(c)), NEW data
  PROVE  Load(Put(data, ChainBatch(c))) = c
<1> DEFINE after == Put(data, ChainBatch(c))
<1>1. /\ Len(c) \in Nat /\ c = [i \in 1..Len(c) |-> c[i]]
  OBVIOUS
<1>2. /\ TopKey \in DOMAIN after
      /\ after[TopKey] = Len(c) - 1
      /\ \A i \in 1..Len(c) : /\ HeightKey(i - 1) \in DOMAIN after
                              /\ after[HeightKey(i - 1)] = c[i]
  BY BatchHolds
<1> HIDE DEF after
<1>3. after[TopKey] + 1 = Len(c)
  BY <1>1, <1>2
<1>4. Load(after) = [i \in 1..Len(c) |-> after[HeightKey(i - 1)]]
  BY <1>2, <1>3 DEF Load
<1>5. Load(after) = c
  BY <1>1, <1>2, <1>4
<1>6. QED
  BY <1>5 DEF after

\* Deleting keys makes a chain unreadable or leaves it whole.
LEMMA DeletedIsLostOrWhole ==
  ASSUME NEW data, NEW D \in SUBSET DOMAIN data
  PROVE  Load(Restrict(data, D)) \in {Load(data), None}
<1> DEFINE left == Restrict(data, D)
<1>1. DOMAIN left = D /\ \A k \in D : left[k] = data[k]
  BY DEF Restrict
<1> HIDE DEF left
<1>2. CASE Load(left) = None
  BY <1>2 DEF left
<1>3. CASE Load(left) # None
  <2>1. /\ TopKey \in D
        /\ \A i \in 1..(left[TopKey] + 1) : HeightKey(i - 1) \in D
        /\ Load(left) = [i \in 1..(left[TopKey] + 1) |-> left[HeightKey(i - 1)]]
    BY <1>1, <1>3 DEF Load
  <2>2. left[TopKey] = data[TopKey]
    BY <2>1, <1>1
  <2>3. \A i \in 1..(data[TopKey] + 1) :
          /\ HeightKey(i - 1) \in DOMAIN data
          /\ left[HeightKey(i - 1)] = data[HeightKey(i - 1)]
    BY <2>1, <2>2, <1>1
  <2>4. Load(left) = [i \in 1..(data[TopKey] + 1) |-> data[HeightKey(i - 1)]]
    BY <2>1, <2>2, <2>3
  <2>5. Load(data) = [i \in 1..(data[TopKey] + 1) |-> data[HeightKey(i - 1)]]
    BY <2>1, <2>3, <1>1 DEF Load
  <2>6. QED
    BY <2>4, <2>5 DEF left
<1>4. QED
  BY <1>2, <1>3

-----------------------------------------------------------------------------
(* Types. The lemma covers every action, so that the module that composes  *)
(* the store with a blockchain can cite it.                                *)

StoreAction ==
  \/ \E o \in Callers :
       \/ \E c \in Chains : BeginSave(o, c)
       \/ ClearKeys(o)
       \/ WriteChain(o)
       \/ SaveFails(o)
  \/ CrashStore
  \/ UNCHANGED storeVars

LEMMA StoreStepTypes ==
  ASSUME StoreTypeOK, StoreAction
  PROVE  StoreTypeOK'
<1> USE StoreAssumption DEF StoreTypeOK, InProgress
<1>1. ASSUME NEW o \in Callers, NEW c \in Chains, BeginSave(o, c)
      PROVE  StoreTypeOK'
  BY <1>1 DEF BeginSave
<1>2. ASSUME NEW o \in Callers, ClearKeys(o)
      PROVE  StoreTypeOK'
  <2>1. db' = [k \in DOMAIN db \ keys[o] |-> db[k]]
    BY <1>2 DEF ClearKeys, Restrict
  <2>2. db' = [k \in DOMAIN db' |-> db'[k]]
        /\ (TopKey \in DOMAIN db' => db'[TopKey] \in Nat)
    BY <2>1
  <2>3. QED
    BY <1>2, <2>2 DEF ClearKeys
<1>3. ASSUME NEW o \in Callers, WriteChain(o)
      PROVE  StoreTypeOK'
  <2>1. arg[o] \in Chains
    BY <1>3 DEF WriteChain
  <2>2. arg[o] \in Seq(Range(arg[o])) /\ Len(arg[o]) - 1 \in Nat
    BY <2>1
  <2>3. db' = Put(db, ChainBatch(arg[o]))
    BY <1>3 DEF WriteChain
  <2>4. TopKey \in DOMAIN db' => db'[TopKey] \in Nat
    BY <2>2, <2>3, BatchHolds
  <2>5. db' = [k \in DOMAIN db' |-> db'[k]]
    BY <2>3 DEF Put
  <2>6. QED
    BY <1>3, <2>4, <2>5 DEF WriteChain
<1>4. ASSUME NEW o \in Callers, SaveFails(o)
      PROVE  StoreTypeOK'
  BY <1>4 DEF SaveFails
<1>5. CASE CrashStore
  BY <1>5 DEF CrashStore
<1>6. CASE UNCHANGED storeVars
  BY <1>6 DEF storeVars
<1>7. QED
  BY <1>1, <1>2, <1>3, <1>4, <1>5, <1>6 DEF StoreAction

LEMMA StoreStarts == StoreInit => StoreTypeOK /\ Load(db) = None
BY DEF StoreInit, StoreTypeOK, InProgress, Load

\* What each action does to the chain a load returns.
LEMMA LoadAfterClear ==
  ASSUME NEW o, ClearKeys(o)
  PROVE  Load(db)' \in {Load(db), None}
BY DeletedIsLostOrWhole DEF ClearKeys

LEMMA LoadAfterWrite ==
  ASSUME StoreTypeOK, NEW o \in Callers, WriteChain(o)
  PROVE  Load(db)' = arg[o] /\ arg[o] \in Chains
<1>1. arg[o] \in Chains
  BY DEF StoreTypeOK, InProgress, WriteChain
<1>2. QED
  BY <1>1, StoreAssumption, SavedIsLoaded DEF WriteChain

LEMMA StoreNextIsAction == [StoreNext]_storeVars => StoreAction
BY DEF StoreNext, StoreAction

\* The state of the store is well-formed in every reachable state.
THEOREM StoreTypeCorrect == StoreSpec => []StoreTypeOK
<1>1. StoreInit => StoreTypeOK
  BY StoreStarts
<1>2. StoreTypeOK /\ [StoreNext]_storeVars => StoreTypeOK'
  BY StoreStepTypes, StoreNextIsAction
<1>3. QED
  BY <1>1, <1>2, PTL DEF StoreSpec

-----------------------------------------------------------------------------
(* A load never blends two chains.                                         *)

\* getChain returns nothing or exactly one chain some saveChain was given,
\* whatever overlaps, failures and crashes came before.
THEOREM LoadsWholeChains == StoreSpec => []StoredChainIsWhole
<1>1. StoreInit => StoredChainIsWhole
  BY StoreStarts DEF StoredChainIsWhole
<1>2. StoreTypeOK /\ StoredChainIsWhole /\ [StoreNext]_storeVars
        => StoredChainIsWhole'
  <2> SUFFICES ASSUME StoreTypeOK, StoredChainIsWhole, StoreAction
               PROVE  StoredChainIsWhole'
    BY StoreNextIsAction
  <2> USE DEF StoredChainIsWhole
  <2>1. ASSUME NEW o \in Callers, ClearKeys(o)
        PROVE  StoredChainIsWhole'
    BY <2>1, LoadAfterClear
  <2>2. ASSUME NEW o \in Callers, WriteChain(o)
        PROVE  StoredChainIsWhole'
    BY <2>2, LoadAfterWrite
  <2>3. CASE UNCHANGED db
    BY <2>3 DEF Load
  <2>4. QED
    BY <2>1, <2>2, <2>3
       DEF StoreAction, BeginSave, SaveFails, CrashStore, storeVars
<1>3. QED
  BY <1>1, <1>2, StoreTypeCorrect, PTL DEF StoreSpec

-----------------------------------------------------------------------------
(* Refinement.                                                             *)

\* Every step of the store is a step of AtomicStore or changes nothing that
\* AtomicStore sees: a batch of puts commits, a clear at most loses.
THEOREM StoreImplementsAtomicStore == StoreSpec => ImplementsAtomicStore
<1>1. StoreInit => Abstract!Init
  BY StoreStarts DEF StoreInit, Abstract!Init
<1>2. StoreTypeOK /\ [StoreNext]_storeVars => [Abstract!Next]_(Abstract!vars)
  <2> SUFFICES ASSUME StoreTypeOK, StoreAction
               PROVE  Abstract!Next \/ UNCHANGED Abstract!vars
    BY StoreNextIsAction
  <2> USE DEF Abstract!Next, Abstract!vars
  <2>1. ASSUME NEW o \in Callers, NEW c \in Chains, BeginSave(o, c)
        PROVE  Abstract!Begin(o)
    <3>1. arg[o] = None
      BY <2>1 DEF BeginSave, StoreTypeOK, InProgress
    <3>2. Load(db)' = Load(db)
      BY <2>1 DEF BeginSave, Load
    <3>3. QED
      BY <2>1, <3>1, <3>2 DEF BeginSave, Abstract!Begin
  <2>2. ASSUME NEW o \in Callers, ClearKeys(o)
        PROVE  Abstract!Lose \/ UNCHANGED Abstract!vars
    <3>1. arg[o] # None /\ arg' = arg
      BY <2>2 DEF ClearKeys, StoreTypeOK, InProgress
    <3>2. QED
      BY <2>2, <3>1, LoadAfterClear DEF Abstract!Lose
  <2>3. ASSUME NEW o \in Callers, WriteChain(o)
        PROVE  Abstract!Commit(o)
    <3>1. Load(db)' = arg[o] /\ arg[o] # None
      BY <2>3, LoadAfterWrite, StoreAssumption
    <3>2. QED
      BY <2>3, <3>1 DEF WriteChain, Abstract!Commit
  <2>4. ASSUME NEW o \in Callers, SaveFails(o)
        PROVE  Abstract!Abandon(o)
    <3>1. arg[o] # None
      BY <2>4 DEF SaveFails, StoreTypeOK, InProgress
    <3>2. Load(db)' = Load(db)
      BY <2>4 DEF SaveFails, Load
    <3>3. QED
      BY <2>4, <3>1, <3>2 DEF SaveFails, Abstract!Abandon
  <2>5. ASSUME CrashStore
        PROVE  Abstract!Crash
    BY <2>5 DEF CrashStore, Abstract!Crash, Load
  <2>6. CASE UNCHANGED storeVars
    BY <2>6 DEF storeVars, Load
  <2>7. QED
    BY <2>1, <2>2, <2>3, <2>4, <2>5, <2>6 DEF StoreAction
<1>3. QED
  BY <1>1, <1>2, StoreTypeCorrect, PTL
     DEF StoreSpec, ImplementsAtomicStore, Abstract!Spec

-----------------------------------------------------------------------------
(* The hash and transaction indexes, when calls do not overlap.            *)

\* The database is empty or the batch of one chain, a clear in progress has
\* listed all of it, and a write finds it empty.
OneCallAtATime ==
  /\ db = <<>> \/ \E c \in Chains : db = ChainBatch(c)
  /\ \A o \in Callers :
       /\ phase[o] = "clearing" => keys[o] = DOMAIN db
       /\ phase[o] = "writing" => db = <<>>

LEMMA FirstBatch ==
  ASSUME NEW c
  PROVE  Put(<<>>, ChainBatch(c)) = ChainBatch(c)
<1>1. ChainBatch(c) = [k \in DOMAIN ChainBatch(c) |-> ChainBatch(c)[k]]
  BY DEF ChainBatch, Put
<1>2. DOMAIN <<>> = {}
  OBVIOUS
<1> DEFINE batch == ChainBatch(c)
<1> HIDE DEF batch
<1>3. Put(<<>>, batch) = [k \in DOMAIN batch |-> batch[k]]
  BY <1>2 DEF Put
<1>4. QED
  BY <1>1, <1>3 DEF batch

LEMMA OneCallIndexes == StoreTypeOK /\ OneCallAtATime => IndexedByLoadedChain
<1> SUFFICES ASSUME OneCallAtATime
             PROVE  IF Load(db) = None THEN db = <<>>
                                       ELSE db = ChainBatch(Load(db))
  BY DEF IndexedByLoadedChain
<1>1. CASE db = <<>>
  <2>1. TopKey \notin DOMAIN db
    BY <1>1
  <2>2. QED
    BY <1>1, <2>1 DEF Load
<1>2. ASSUME NEW c \in Chains, db = ChainBatch(c)
      PROVE  Load(db) = c /\ c # None
  BY <1>2, FirstBatch, SavedIsLoaded, StoreAssumption
<1>3. QED
  BY <1>1, <1>2 DEF OneCallAtATime

\* Calls that do not overlap leave no entry of an older chain behind, though
\* they fail and crash between clearing and writing. (Two that overlap do.)
THEOREM SequentialIndex ==
  ASSUME \A o, p \in Callers : o = p
  PROVE  StoreSpec => []IndexedByLoadedChain
<1>1. StoreInit => OneCallAtATime
  BY DEF StoreInit, OneCallAtATime
<1>2. StoreTypeOK /\ OneCallAtATime /\ [StoreNext]_storeVars
        => OneCallAtATime'
  <2> SUFFICES ASSUME StoreTypeOK, OneCallAtATime, StoreAction
               PROVE  OneCallAtATime'
    BY StoreNextIsAction
  <2> USE DEF OneCallAtATime, StoreTypeOK
  <2>1. ASSUME NEW o \in Callers, NEW c \in Chains, BeginSave(o, c)
        PROVE  OneCallAtATime'
    BY <2>1 DEF BeginSave
  <2>2. ASSUME NEW o \in Callers, ClearKeys(o)
        PROVE  OneCallAtATime'
    <3>1. db' = Restrict(db, {})
      BY <2>2 DEF ClearKeys
    <3>2. db' = <<>>
      BY <3>1 DEF Restrict
    <3>3. QED
      BY <2>2, <3>2 DEF ClearKeys
  <2>3. ASSUME NEW o \in Callers, WriteChain(o)
        PROVE  OneCallAtATime'
    <3>1. arg[o] \in Chains /\ db = <<>>
      BY <2>3, LoadAfterWrite DEF WriteChain
    <3>2. db' = ChainBatch(arg[o])
      BY <2>3, <3>1, FirstBatch DEF WriteChain
    <3>3. QED
      BY <2>3, <3>1, <3>2 DEF WriteChain
  <2>4. ASSUME NEW o \in Callers, SaveFails(o)
        PROVE  OneCallAtATime'
    BY <2>4 DEF SaveFails
  <2>5. CASE CrashStore
    BY <2>5 DEF CrashStore
  <2>6. CASE UNCHANGED storeVars
    BY <2>6 DEF storeVars
  <2>7. QED
    BY <2>1, <2>2, <2>3, <2>4, <2>5, <2>6 DEF StoreAction
<1>3. QED
  BY <1>1, <1>2, OneCallIndexes, StoreTypeCorrect, PTL DEF StoreSpec

\* Without failures a database at rest is empty or readable.
THEOREM QuietIsReadable ==
  ASSUME Faults = {}
  PROVE  StoreSpec => []QuietStoreIsReadable
<1> USE DEF QuietStoreIsReadable, Quiet, InProgress
<1>1. StoreInit => QuietStoreIsReadable
  BY DEF StoreInit
<1>2. StoreTypeOK /\ QuietStoreIsReadable /\ [StoreNext]_storeVars
        => QuietStoreIsReadable'
  <2> SUFFICES ASSUME StoreTypeOK, QuietStoreIsReadable, StoreAction
               PROVE  QuietStoreIsReadable'
    BY StoreNextIsAction
  <2>1. ASSUME NEW o \in Callers, NEW c \in Chains, BeginSave(o, c)
        PROVE  QuietStoreIsReadable'
    BY <2>1 DEF BeginSave, StoreTypeOK
  <2>2. ASSUME NEW o \in Callers, ClearKeys(o)
        PROVE  QuietStoreIsReadable'
    BY <2>2 DEF ClearKeys, StoreTypeOK
  <2>3. ASSUME NEW o \in Callers, WriteChain(o)
        PROVE  QuietStoreIsReadable'
    BY <2>3, LoadAfterWrite, StoreAssumption
  <2>4. CASE UNCHANGED storeVars
    BY <2>4 DEF storeVars, Load
  <2>5. QED
    BY <2>1, <2>2, <2>3, <2>4 DEF StoreAction, SaveFails, CrashStore
<1>3. QED
  BY <1>1, <1>2, StoreTypeCorrect, PTL DEF StoreSpec
=============================================================================
