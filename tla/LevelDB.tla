------------------------------ MODULE LevelDB ------------------------------
(***************************************************************************)
(* src/storage/LevelDB.js: the persistent store, a key-value database the  *)
(* class lays out as block:height:<h>, block:hash:<hash>, tx:<hash> and    *)
(* chain:height. saveChain is asynchronous and not atomic: it takes a      *)
(* snapshot of the keys, deletes them in one batch, then writes the whole  *)
(* new chain in another, and other calls run in between.                   *)
(*                                                                         *)
(* The database is the npm package level: a batch is written whole or not  *)
(* at all, and the iterator of keys() sees the keys of the moment it was   *)
(* made.                                                                   *)
(***************************************************************************)
EXTENDS Integers, Sequences, Functions

CONSTANTS
  Callers,   \* the asynchronous calls that may be in progress together
  Chains,    \* the chains callers hand to saveChain
  None,      \* the null of getChain
  Faults     \* what the environment may do: fail reads or writes, crash

ASSUME StoreAssumption ==
  /\ None \notin Chains
  /\ \A c \in Chains : c \in Seq(Range(c)) /\ c # <<>>
  /\ Faults \subseteq {"read", "write", "crash"}

VARIABLES
  db,      \* the database: a function from the keys present to values
  phase,   \* per caller, how far its saveChain has come
  arg,     \* the chain it was given
  keys     \* the keys its clearChain has listed

storeVars == <<db, phase, arg, keys>>

-----------------------------------------------------------------------------
(* Layout.                                                                 *)

HeightKey(h) == <<"block:height", h>>
HashKey(hash) == <<"block:hash", hash>>
TxKey(tx) == <<"tx", tx>>
TopKey == <<"chain:height">>

BlockEntries(chain) ==
  [k \in {HeightKey(i - 1) : i \in DOMAIN chain} |-> chain[k[2] + 1]]

\* A key put twice keeps the later value.
HashEntries(chain) ==
  [k \in {HashKey(chain[i].hash) : i \in DOMAIN chain} |->
     LET i == CHOOSE i \in DOMAIN chain :
                /\ chain[i].hash = k[2]
                /\ \A j \in DOMAIN chain : chain[j].hash = k[2] => j =< i
     IN chain[i]]

TxsOf(chain) == UNION {Range(chain[i].transactions) : i \in DOMAIN chain}

TxEntries(chain) ==
  [k \in {TxKey(tx) : tx \in TxsOf(chain)} |->
     LET i == CHOOSE i \in DOMAIN chain :
                /\ k[2] \in Range(chain[i].transactions)
                /\ \A j \in DOMAIN chain :
                     k[2] \in Range(chain[j].transactions) => j =< i
     IN [blockHash |-> chain[i].hash, blockHeight |-> i - 1]]

\* The database after a batch of puts.
Put(data, entries) ==
  [k \in DOMAIN data \cup DOMAIN entries |->
     IF k \in DOMAIN entries THEN entries[k] ELSE data[k]]

HeightEntry(chain) == [k \in {TopKey} |-> Len(chain) - 1]

\* Everything saveChain puts into its batch.
ChainBatch(chain) ==
  Put(Put(TxEntries(chain), HashEntries(chain)),
      Put(BlockEntries(chain), HeightEntry(chain)))

\* getChain: null without chain:height and null (the error is caught) when
\* a block below it is missing.
Load(data) ==
  IF /\ TopKey \in DOMAIN data
     /\ \A i \in 1..(data[TopKey] + 1) : HeightKey(i - 1) \in DOMAIN data
  THEN [i \in 1..(data[TopKey] + 1) |-> data[HeightKey(i - 1)]]
  ELSE None

\* saveBlock puts chain:height <- block.height. A block has no height before
\* it is part of a saved chain, and the database refuses an undefined value:
\* the batch is dropped and the call rejects.
Undefined == "undefined"
HeightOf(block) ==
  IF "height" \in DOMAIN block THEN block.height ELSE Undefined
SaveBlockRejects(block) == HeightOf(block) = Undefined

-----------------------------------------------------------------------------
(* saveChain, step by step.                                                *)

StoreInit ==
  /\ db = <<>>
  /\ phase = [o \in Callers |-> "idle"]
  /\ arg = [o \in Callers |-> None]
  /\ keys = [o \in Callers |-> {}]

\* saveChain and clearChain up to the first await: keys() makes its snapshot.
BeginSave(o, chain) ==
  /\ phase[o] = "idle"
  /\ phase' = [phase EXCEPT ![o] = "clearing"]
  /\ arg' = [arg EXCEPT ![o] = chain]
  /\ keys' = [keys EXCEPT ![o] = DOMAIN db]
  /\ UNCHANGED db

\* Mutant: only the height index is cleared.
ClearKeys_HeightsOnly(o) ==
  /\ phase[o] = "clearing"
  /\ phase' = [phase EXCEPT ![o] = "writing"]
  /\ db' = Restrict(db, {k \in DOMAIN db :
                           k \notin keys[o] \/ k[1] \in {"block:hash", "tx"}})
  /\ keys' = [keys EXCEPT ![o] = {}]
  /\ UNCHANGED arg

\* clearChain's batch: the listed keys go, whatever they hold by now.
ClearKeys(o) ==
  /\ phase[o] = "clearing"
  /\ phase' = [phase EXCEPT ![o] = "writing"]
  /\ db' = Restrict(db, DOMAIN db \ keys[o])
  /\ keys' = [keys EXCEPT ![o] = {}]
  /\ UNCHANGED arg

\* saveChain's own batch. The call returns in the same turn of the event
\* loop: whatever awaits it goes on before any other callback runs.
WriteChain(o) ==
  /\ phase[o] = "writing"
  /\ phase' = [phase EXCEPT ![o] = "idle"]
  /\ db' = Put(db, ChainBatch(arg[o]))
  /\ arg' = [arg EXCEPT ![o] = None]
  /\ UNCHANGED keys

\* Mutant: a failed call is not forgotten.
SaveFails_Unsettled(o) ==
  /\ "write" \in Faults
  /\ phase[o] # "idle"
  /\ phase' = [phase EXCEPT ![o] = "idle"]
  /\ keys' = [keys EXCEPT ![o] = {}]
  /\ UNCHANGED <<db, arg>>

\* Mutant: the blocks are put outside the batch, before it fails.
SaveFails_BlocksWritten(o) ==
  /\ "write" \in Faults
  /\ phase[o] # "idle"
  /\ phase' = [phase EXCEPT ![o] = "idle"]
  /\ db' = Put(db, BlockEntries(arg[o]))
  /\ arg' = [arg EXCEPT ![o] = None]
  /\ keys' = [keys EXCEPT ![o] = {}]

\* Mutant: chain:height is put outside the batch, before it fails.
SaveFails_HeightWritten(o) ==
  /\ "write" \in Faults
  /\ phase[o] # "idle"
  /\ phase' = [phase EXCEPT ![o] = "idle"]
  /\ db' = Put(db, HeightEntry(arg[o]))
  /\ arg' = [arg EXCEPT ![o] = None]
  /\ keys' = [keys EXCEPT ![o] = {}]

\* Listing the keys or writing either batch fails; the error is thrown again.
SaveFails(o) ==
  /\ "write" \in Faults
  /\ phase[o] # "idle"
  /\ phase' = [phase EXCEPT ![o] = "idle"]
  /\ arg' = [arg EXCEPT ![o] = None]
  /\ keys' = [keys EXCEPT ![o] = {}]
  /\ UNCHANGED db

\* The process dies and starts again; only the database survives.
CrashStore ==
  /\ "crash" \in Faults
  /\ phase' = [o \in Callers |-> "idle"]
  /\ arg' = [o \in Callers |-> None]
  /\ keys' = [o \in Callers |-> {}]
  /\ UNCHANGED db

StoreNext ==
  \/ \E o \in Callers :
       \/ \E c \in Chains : BeginSave(o, c)
       \/ ClearKeys(o)
       \/ WriteChain(o)
       \/ SaveFails(o)
  \/ CrashStore

StoreSpec == StoreInit /\ [][StoreNext]_storeVars

-----------------------------------------------------------------------------
(* Properties.                                                             *)

InProgress(o) == phase[o] # "idle"
Quiet == \A o \in Callers : ~InProgress(o)

\* The database holds a height when it holds chain:height, and a save in
\* progress knows its chain.
StoreTypeOK ==
  /\ db = [k \in DOMAIN db |-> db[k]]
  /\ TopKey \in DOMAIN db => db[TopKey] \in Nat
  /\ phase \in [Callers -> {"idle", "clearing", "writing"}]
  /\ arg \in [Callers -> Chains \cup {None}]
  /\ keys = [o \in Callers |-> keys[o]]
  /\ \A o \in Callers : InProgress(o) <=> arg[o] # None

\* getChain is null or exactly a chain some saveChain was given, however
\* calls overlap, fail and crash: the height index never shows a mixture of
\* two chains, because a chain is written in one batch, and a stale clear
\* that takes blocks away takes chain:height with them.
StoredChainIsWhole == Load(db) \in Chains \cup {None}

\* The same, with the order of events: the store implements AtomicStore.
Abstract ==
  INSTANCE AtomicStore WITH stored <- Load(db), saving <- arg

ImplementsAtomicStore == Abstract!Spec

\* Without failures no overlap of saves leaves an unreadable database
\* behind: a clear may take another call's chain away, but the call that
\* cleared writes a whole chain before it ends.
QuietStoreIsReadable == Quiet /\ DOMAIN db # {} => Load(db) # None

\* "Clear existing chain", then "Save all blocks": when no call is running,
\* every block and transaction the database can be asked for belongs to the
\* chain it holds.
IndexedByLoadedChain ==
  Quiet => IF Load(db) = None THEN db = <<>> ELSE db = ChainBatch(Load(db))
=============================================================================
