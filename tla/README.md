# A verification model of the quantum-resistant blockchain node

TLA+ modules that model the node's program (`src/src/`), TLC runs that check
them on small instances, and TLAPS proofs of what matters most.

## The system

One Node.js process holds these parts. Everything runs on one event loop: code
between two `await`s is atomic, and at an `await` any other call may run.

| Part | File | State | Operations that change it |
|---|---|---|---|
| Storage | `storage/LevelDB.js` | the key-value database: blocks by height and by hash, transactions by hash, `chain:height` | `saveChain`, `clearChain`, `saveBlock` |
| Block | `blockchain/Block.js` | none | `genesis`, `mineBlock`, `hash` are pure but for the clock and `randomBytes` |
| Validation rules | `validation/BlockValidation.js` | none | pure |
| Blockchain | `blockchain/Blockchain.js` | `chain`, `mempool`, `db`, the key pair | `initialize`, `addBlock`, `replaceChain`, `addToMempool`, `clearMempool` |
| Transaction | `blockchain/Transaction.js` | its own fields | `sign` |
| Mempool | `mempool/Mempool.js` | transactions with arrival time | add, remove, clear, remove old, remove confirmed, clean |
| Consensus | `consensus/ConsensusManager.js` | validators, epoch, blocks per epoch | register, validate a block (which updates the validator), distribute rewards; selection changes nothing |
| Sharding | `sharding/ShardManager.js` | shards with chain, pending transactions and validators; cross-shard transactions | initialize, assign a validator, process a transaction, finalize a block |
| Contracts | `contracts/ContractEngine.js` | contracts and their state | deploy, execute, upgrade |
| P2P server | `network/P2PServer.js` | sockets, peers, session keys | connections, the handshake, disconnections, lists of peers; block, transaction and chain messages |
| API server | `api/APIServer.js` | none of its own | `start`, `createTransaction`, `addPeer`; the other routes are queries |
| Crypto | `crypto/KyberUtils.js` | none | proofs, signatures, session keys |
| Startup | `index.js` | none | builds the blockchain, the pool and the P2P server, connects to the initial peers one by one, starts the API |
| Configuration | `config/config.js` | constants | none |

The blockchain calls the store and the rules; the P2P server and the API server
call the blockchain and the pool; consensus, sharding and contracts are built
over a blockchain but `index.js` starts none of them.

### What is assumed of the linking

Several files take a class out of a module that exports the class itself
(`const { LevelDB } = require(...)` of `module.exports = LevelDB`), and
`BlockValidation.js` uses `Block` without requiring it. As it stands those names
are undefined and `main()` exits in its first statement. The modules here model
the program with those names resolved to the classes they are spelled after,
which is what the code and its tests are about. Methods of `KyberUtils` and of
the blockchain that are called and defined nowhere are external: they resolve
or reject.

Two more facts of the code shape the models:

* `verifySignature` is `async`, and the three places that use its result
  without `await` (`validateQuantumProof`, `isValidTransaction`,
  `Mempool.validateTransaction`) see a promise, which is true.
* A chain decoded from a message or from the database has plain objects for
  blocks, without `getBlockSize`. Such a chain makes `isValidChain` throw; the
  callers of `replaceChain` that can succeed are those that hold `Block`
  objects, as the tests do.
* A block or transaction decoded from a message has no methods either, and an
  encrypted message is decrypted to a shared secret in hexadecimal, which is no
  JSON. So nothing a peer sends changes the node but the handshake and a list of
  peers; every other handler refuses, or ends in a `catch`.
* The pool that `main()` gives to the two servers is not the one `Blockchain`
  makes for itself.
* socket.io is external. The P2P server uses it as a library whose module makes a
  client socket of an address and whose `Server` opens a port. With version 4,
  which `package.json` asks for, the first throws and the second opens nothing;
  both are among the behaviours modelled (an address may refuse at once, and no
  peer has to connect).

### What is hard

* `saveChain` takes three turns of the event loop: list the keys, delete them,
  write. Two calls, a refused batch or a crash may come between them.
* `addBlock` mines on the tip it sees and pushes after an `await`.
* `replaceChain` compares lengths, awaits the store, and then assigns.
* A failing save leaves the in-memory chain and the database apart.
* The genesis block is rebuilt with fresh random bytes at every comparison.
* The difficulty has a rule for its step and another for its limits.
* A transaction that crosses from one shard to another is pending in two pools,
  is handled by blocks of both, and is completed after an `await` by a block that
  holds an old copy of its entry.
* Shards appear one by one while other calls may already be served.
* A validator's record is an object its callers keep; `validateBlock` awaits, then
  judges the caller's record and updates the one in the map.
* A contract's execution reads a state, awaits the contract and writes the state
  back; the contract has the state object itself, not a copy.
* Rewards are paid one `await` at a time; a payment may fail and a second
  distribution of the same epoch may start.
* A handshake awaits a first message, keys and an encryption; each may never come
  or fail, the peer may leave in between, and the handlers that would notice are
  installed only when it is over. Whoever dials waits for it: `main()`, a list of
  peers, a request.
* The limits of the pool are soft: it evicts by age and adds in any case.

## The modules

| Module | What it is |
|---|---|
| `BlockValidation` | the rules of `BlockValidation.js` and the blocks of `Block.js`, as operators |
| `LevelDB` | the store as a state machine, one phase per turn of `saveChain` |
| `AtomicStore` | what the store promises: a save commits in one step or not at all |
| `LevelDB_proofs` | theorems about `LevelDB` |
| `Induction` | lemmas the proofs share: induction over sets of naturals, functions defined by recursion, what a filter keeps |
| `Blockchain` | `Blockchain.js` over `BlockValidation` and `LevelDB` |
| `Ledger` | what the node promises about the chain it serves and the chain it keeps |
| `Blockchain_proofs` | theorems about `Blockchain` |
| `ShardManager` | `ShardManager.js`: shards, validators, pending and crossing transactions, concurrent blocks |
| `CrossShard` | the life of a crossing transaction: absent, pending, processing, completed, and no way back |
| `ShardManager_proofs` | theorems about `ShardManager` |
| `ConsensusManager` | `ConsensusManager.js`: registration, selection, block validation, reward epochs |
| `Payroll` | what it promises about rewards: distributed as often as asked, each distribution pays each validator at most once, deleted when everyone who is owed a payment had one |
| `ConsensusManager_proofs` | theorems about `ConsensusManager` |
| `ContractEngine` | `ContractEngine.js`: deployment, upgrade, and executions that overlap and fail |
| `ContractEngine_proofs` | theorems about `ContractEngine` |
| `Mempool` | `Mempool.js`: transactions with the time of their arrival, eviction, removal |
| `P2PServer` | `P2PServer.js`: sockets, handshakes, peers, and the loops that dial |
| `Node` | `index.js` and `APIServer.js` over `Mempool` and `P2PServer`: the start of a node and its requests |
| `Gossip` | what a node promises its neighbours: each comes, becomes a peer and goes, once; an accepted transaction is owed to the peers of that moment, and sent or lost for each on its own |
| `Node_proofs` | theorems about `Node` |
| `MCLevelDB`, `MCBlockchain`, `MCShardManager`, `MCConsensusManager`, `MCContractEngine`, `MCNode` | instances for TLC |

Definitions named after another with a suffix (`PushBlock_NoRecheck`) are
mutants: the other definition with a plausible mistake. No specification uses
them. Each shows that the property it is paired with in `PROJECT.json` notices
the mistake.

### LevelDB and AtomicStore

`db` is the database as a function from keys to values; `phase`, `arg` and
`keys` are the local state of each `saveChain` in progress (`Callers` is the set
of calls that may be in progress together).

| Action | Code |
|---|---|
| `BeginSave` | `saveChain` and `clearChain` up to the first `await`, where the key iterator takes its snapshot |
| `ClearKeys` | the batch of deletions |
| `WriteChain` | the batch of puts and the return |
| `SaveFails` | the `catch` blocks |
| `CrashStore` | the process dies; the database survives |

`Load` is `getChain`. It is used at startup only, when no save is in progress,
so it is one step. `saveBlock` is `SaveBlockRejects`: it puts `block.height`,
which no mined block has, and the batch throws, so it never writes. The
database itself is external: a batch is atomic and an iterator reads a
snapshot. A value in the database is the block itself; what JSON changes in it
(a promise becomes `{}`, methods are lost) is not looked at by anything modelled
here.

`AtomicStore` has the loaded chain and the saves in progress. `LevelDB`
implements it: a clear *loses* the stored chain or changes nothing seen, the
second batch *commits*.

### BlockValidation

A block is a record of the fields the rules look at. A hash is the value of what
is hashed, as far as its parts can be told apart. `Block.hash` strings its fields
together, the nonce and the difficulty last and with nothing in between, so a nonce
of 51 with difficulty 4 hashes like 5 with 14: `Joined` is the number both read as.
The transactions are in brackets and the parent's hash has its own length, so the
rest is kept apart. Numbers are whole, as those of mined blocks are; the code
asks only whether a difficulty is a number, and a peer's chain with fractions
would have more ways to be read ((10.4, 1) and (1, 0.41), say).

Which nonce the mining loop ends with depends on the bits of the hashes; `Nonces` is
the set of those it may end with. The leading zeros it looks for are left out, for no
rule checks them: a block of any nonce is accepted. The clock is any value at each
reading, which includes a clock set back. A block's size is counted in transactions.
The Merkle root is left out: the constructor computes it from the transactions and
the check recomputes it from the same.

### Blockchain and Ledger

`chain` and `mempool` are the fields of the class. `pc` says where each call is
or how it ended, `mined` holds the block an `addBlock` is about to push, and the
store's variables hold the rest of a `replaceChain`.

| Action | Code |
|---|---|
| `AddBlock` | `addBlock` up to its `await`, mining included |
| `PushBlock`, `DropBlock` | the rest of `addBlock`: the check against the tip of now, the push, the save that rejects; or "Invalid block" |
| `ReplaceChain`, `RefuseChain` | `replaceChain` up to the store's first `await`; or one of its two errors |
| `ClearStored`, `AdoptChain` | the store's two batches; with the second the call returns and assigns |
| `KeepChain` | the store throws; `replaceChain` returns false |
| `addToMempool` | itself |
| `Restart` | a crash at any moment, then the constructor and `initialize` |

`WriteChain` and the assignment are one step because the database's callback
resolves a promise and everything awaiting it runs before the next callback. That
the caller still holds the array the node adopted is left out: nothing under `src/`
changes one it handed over.

`Ledger` promises: the chain served grows by a block on its own tip; a
replacement is kept in the step that serves it; what is kept may be lost but
never altered; a restart serves what is kept, or begins again. Blocks added by
`addBlock` are never kept: only an adopted chain reaches the disk.

### ShardManager and CrossShard

`shards` counts the shards that exist; a shard's identifier is its index,
because identifiers are hashes and shards are looked up by their order in the
map. `pendingTransactions` and `chain` are fields of the shards;
`validatorSet` and `shardValidators` are the two sides of the assignment;
`crossShardTransactions` holds each crossing transaction's entry; `call` is the
local state of each call; `submissions` counts submissions, for the bound.

| Action | Code |
|---|---|
| `InitializeShard` | one turn of the loop of `initializeShards` |
| `assignValidatorToShard` | itself |
| `ProcessLocal` | `processTransaction` within a shard |
| `ProcessCrossing`, `RecordCrossing` | `processCrossShardTransaction` before and after its proof |
| `FinalizeBlock`, `VerifySignatures` | `finalizeBlock` up to the loop over its transactions |
| `SkipTransaction`, `updateCrossShardTransaction` | a turn of the loop that changes nothing; the one that makes a transaction processing |
| `ProveTransaction`, `CompleteTransaction`, `CompletionThrows` | `finalizeCrossShardTransaction` before and after its proof, and when a shard is missing |
| `ProofFails` | any proof that rejects |
| `PushBlock` | the end of `finalizeBlock`: the block is pushed and its transactions leave the pool |

Nothing under `src/` proposes blocks. A block is taken to hold transactions that
are pending in its shard when it is proposed, handled in any order.

### ConsensusManager and Payroll

`objects` holds the record each call made for each address, since callers keep
records; `validators` says whose record the map holds and `order` in which order
its entries are. `epochBlocks` says whether an epoch's blocks are there,
`paid` counts payments, `now` is the clock. Two variables are history:
`distributions`, how often a distribution of each epoch was begun, and `due`, whom
the first of them set out to pay.

| Action | Code |
|---|---|
| `registerValidator`, `CompleteRegistration` | `registerValidator` before and after its proof |
| `validateBlock`, `AcceptBlock`, `GiveUp` | `validateBlock` before and after the signature check, with `updateValidatorStats` |
| `distributeRewards`, `PayReward`, `DistributeNothing` | `distributeRewards`, one payment at a time; without an await when there is nobody to pay |
| `RecordEpoch`, `Tick` | external: the blocks of an epoch, for any addresses, which nothing under `src/` writes; and the clock |

`selectNextValidator` changes nothing: `Selected` is its result for the active
validators and the random value. The amounts of rewards are left out. The clock
does not go back here.

`Rewarded` is `calculateValidatorRewards`: the addresses with blocks in the epoch that
have a record at that moment. The others are skipped, and the epoch is deleted all the
same; if none has a record it is deleted without a payment.

`Payroll` promises: the first distribution of a recorded epoch settles who is owed a
payment; each distribution may pay each address with blocks once and need not pay any;
an epoch is deleted, for good, only when everyone who is owed a payment has had one. It
is at-least-once payment, bounded by how often somebody asked: an epoch distributed
once pays nobody twice. Who has no record by the first distribution is owed
nothing; a later distribution may pay such an address, or find the epoch gone.

### ContractEngine

`contracts` and `contractStates` are the fields of the class, the second naming the
object each contract has for its state. `updates` says of each object which
executions updated it, `call` where each execution is, and `overlapped` is
history: the contracts two executions ran on at once.

| Action | Code |
|---|---|
| `deployContract`, `upgradeContract` | themselves; their awaits come before anything they read can change |
| `executeContract`, `RejectCall` | `executeContract` up to the signature; the error when it is invalid |
| `RunContract` | the context, and `executeInSandbox` in the turn that reads the state |
| `Return` | the rest: the state written back if the execution succeeded |

What a contract computes is abstracted to the ways it can treat its state: update
it in place, replace it by a new object, or fail before or after. It does so in
the turn in which it starts; what a contract does after awaiting on its own is its
affair: the code that runs is the contract's, with the call's `context.method` put
into its text unchecked (`ContractEngine.js:109`), and either may be anything.
`verifyCodeSafety` guards deployments and upgrades; no property is about it, for it
would only repeat the guard. Addresses are fresh: the proof one is derived from is
external, and the proofs of `KyberUtils` have random bytes.

### Mempool

`transactions` maps each pooled transaction to the time of its arrival, `now` is
the clock, and `withdrawn` is history: what was taken out by name. A transaction
is what it pays and the millisecond it was made in, for that is what its hash is
taken of. The fields are strung together for it (`Transaction.js:27`), so "the same
payment" is the same text, which two different ones may also have. The operators bear the names of the methods. `validateTransaction` comes
down to its first two tests: `verify()` is a promise, which is true, and a
balance that is a promise makes a sum that is smaller than no amount. So
`cleanMempool`, which asks it about the pool's own transactions, removes them all.

### P2PServer

A socket is incoming, or is the k-th that a *dialler* opens: a dialler is one loop
over `connectToPeer` (`main()`'s, a `handlePeerList`, an `addPeer`), which awaits
each handshake before the next. `open` says which sockets are connected, `shake`
where `initializeSecureSession` is for each, `listening` which have their handlers;
`sockets`, `peers` and `peerSessions` are the fields of the class; `listed` and
`current` say how many addresses each dialler has and at which it is; `delivery` says
how the broadcast for each request stands with each socket: the message is being
encrypted, was sent, had its encryption rejected, or was ready when the socket was
gone.

| Action | Code |
|---|---|
| `Connection` | the handler of `connection`, up to the await of a first message; nothing, before `setupMessageHandlers` |
| `StartDialling`, `Dial` | a loop over addresses as far as the next one that does not refuse at once |
| `handlePeerList` | itself, for a list from a peer whose handlers are there |
| `Response`, `OtherMessage` | the first message, if it is a handshake response, or is not |
| `Register` | the session keys are there: the three fields are set |
| `SyncChain` | the request for the chain is sent and the handshake over |
| `KyberFails` | the keys or the encryption reject; `GiveUp` is the `catch` |
| `Disconnect` | the peer leaves; `handleDisconnect` where it is installed |
| `broadcastTransaction` | itself: `broadcastMessage` as far as the await of an encryption for each socket |
| `Emit`, `EncryptionRejects` | what follows for one of them: the message goes to the socket, if that is still connected; or the `catch` |

`Return` is what goes on in the same turn when a handshake is over, one way or the
other: the handlers of an incoming socket are installed, or the dialler takes its
next address.

### Node and Gossip

`api` says whether the API listens, and `requests` where each `POST /transactions`
is.

| Action | Code |
|---|---|
| `ConnectToInitialPeers` | `initialize` is over and `main()`'s loop begins |
| `StartAPI` | the loop is over and the API listens |
| `createTransaction`, `SignTransaction` | the request up to the sender's key; the transaction made and its signature awaited |
| `AcceptTransaction`, `RefuseTransaction` | the pool and the broadcast; or an error |
| `addPeer` | itself |
| `PeerStep`, `BroadcastStep` | the steps of a socket, and of a broadcast to it |
| `PoolStep` | the pool's other methods, which nothing under `src/` calls and any holder of the pool may, and the clock |

To `Gossip` a socket is a stranger until its handshake begins, a guest while it lasts,
a peer as long as the table of peers has it, and gone when its handshake failed or its
entry was removed. A peer is whoever is listed, which is not whoever is connected:
the entry of a peer that left during its handshake, or that this node dialled, stays,
and broadcasts are still begun for it. A connection that came before the handler was
set stays a stranger. An accepted transaction is *owed* to the peers of that moment;
each is then sent it, or loses it alone, when its encryption rejects or it has gone.
Several neighbours may move in one step, since the end of one handshake is the
beginning of the dialler's next.

## The runs

| Run | Question | Bounds |
|---|---|---|
| `store_faults` | can overlap, failure and crash make a load return anything but a chain saved? is the store atomic? | 2 calls, 4 chains (two forks of two lengths, a transaction at different heights) |
| `chain_overlap` | is the chain served linked, does its tip stand for its history, is the stored chain never on another branch, the node a `Ledger`? | 2 calls, 4 peer chains of lengths 3 and 4, one of them another with nonce and difficulty parted elsewhere under the same hashes; writes fail, crashes |
| `chain_sequential` | do the indexes follow the stored chain, on which tips does the node accept its own blocks, do replacements only lengthen the chain, does every call end, is it still a `Ledger` when startup misreads its database? | 1 call, 4 peer chains, forks with a transaction on one, and one whose difficulty falls two below the minimum; all faults |
| `chain_shrinks` | do replacements with two calls? (violated) | 2 calls |
| `chain_window` | does the node's chain pass its own validation? (violated) | 1 call, no peer chains, 1 random value, so that the genesis blocks are equal; a clock that starts long after genesis |
| `shard_life` | is an unfinished crossing transaction pending somewhere, and does it live as `CrossShard` says? | 3 calls, 2 transactions crossing in opposite directions between 2 shards, chains of 2 blocks, proofs fail |
| `shard_early` | does its status ever go back, with calls served while shards appear? | 2 calls, a crossing and a local transaction, a target shard that may be missing, proofs fail |
| `shard_sequential` | is a completed transaction in a block of each of its shards, and an unfinished one pending, when it is submitted again? do validators stay spread? | 1 call, no failing proof, 3 shards, 2 transactions submitted twice, chains of 3 blocks, 2 validators |
| `consensus` | does an inactive validator stay so, is the selection weighted, is nobody left unpaid who was owed a payment from a deleted epoch, or paid more often than it was distributed? are the rewards a `Payroll`? | 2 calls, 2 validators of stakes 1 or 2 and 4, the minimum 2, so that either may have no record; one epoch with blocks of both, distributed twice; proofs and payments fail |
| `contracts` | is an update told of as a success ever lost, does a failed one leave anything? | 3 executions, each made once, of 2 contracts, 3 codes of which one is refused |
| `pool` | is what was accepted pooled for a maximal age, and the pool above its limit only by what is young? | 4 requests for 2 payments, a pool of 2, a maximal age of 1, a clock of 4 values, removals and evictions at any time |
| `node` | is a connection past its handshake a peer, is every accepted transaction broadcast to the initial peers, does anything but silence hold up who dials? is it a `Gossip`? | 1 initial peer, 1 incoming socket, a further list of up to 2, 1 request; encryptions reject, peers leave before the emit |

Why the bounds are enough to be interesting: two calls are what every race of the
store, the chain and the validators needs; two forks of different lengths let a
shorter chain be written over a longer one, and a transaction sits at different
heights on them; chains of up to four blocks (timestamps rise strictly within
`Time`, which bounds the length) reach the difficulty window, scaled to four
blocks; the clock can repeat, leap and go back, so that blocks are refused, and
difficulties rise and fall. Three calls let a block of each shard and a submission
be in progress at once. A day is one tick of the consensus clock, which is enough
for a validator to expire; two distributions let an epoch be paid twice, by calls
that overlap or by one after another that failed, with a registration in between. The
nonce the node ends with has two digits, so that there is a chain with the same hashes
and other difficulties.
Three executions let one be lost, spoilt or seen by two others. Four requests for
two payments pass the limit of the pool twice and make the same transaction twice,
and the clock passes the maximal age of one that was pooled at the start, in the
middle and exactly at it. A dialler with two addresses goes on, after each way a
handshake can end, to another one; two diallers and an incoming socket overlap.

Violated runs are disagreements between the code and what it, its comments, its
configuration or its tests say; `PROJECT.json` lists them under `findings`.

**Fairness.** Two properties need any. For `CallsEnd`, `Blockchain`'s `FairSpec`
asks of each call (`CallIsServed`) that it is resumed when its await is over, which
is the event loop, and that the database answers a batch, with success or failure.
For `OnlySilenceBlocks`, `Node`'s `FairSpec` asks that `main()` goes on and, of each
socket (`SocketIsServed`), that Kyber settles each promise one way or the other. Both
are weak fairness, of steps that stay enabled until they are taken: an `addBlock` pushes
its block or drops it, a batch is done or fails, a promise of Kyber's resolves or
rejects. That the batch settles is the database's promise and not the code's. No peer
is asked to send, to connect or to leave, and no broadcast to end.

**Deadlock** is checked in the runs of the store, the blockchain, the validators
and the contracts (where a code can always be upgraded to itself). In the shard
runs it is not: once every transaction is submitted and finished and the chains
have their bounded length, there is nothing left to do. Nor in `pool` and `node`:
a node whose requests are answered and whose clock is at its bound may have
nothing left to do but wait for its peers.

## What is proved

For every set of callers, of chains, of faults and of clock values:

* `StoreTypeCorrect`, `NodeTypeCorrect`: the states are well-formed. This is the
  invariant every other proof starts from: a save in progress knows its chain, and
  the blockchain and the store agree on who is saving.
* `LoadsWholeChains`, `StoreImplementsAtomicStore`: from two lemmas about the
  layout. `SavedIsLoaded`: a batch applied to any database loads as its chain,
  because height keys collide with no other keys. `DeletedIsLostOrWhole`: whatever
  keys go, a load gives the old chain or nothing.
* `SequentialIndex`: with one call at a time the database is empty or exactly one
  chain's batch. Inductive because a clear then lists everything there is. It needs
  the assumption: of two overlapping saves each lists the old keys, and the second
  writes over the first one's chain without deleting it.
* `QuietIsReadable`: without failures a database at rest is empty or readable, for any
  number of overlapping saves; proved of `QuietStoreIsReadable`, which no run checks.
* `ServesLinkedChain`: the invariant `AllLinked` says of the stored chain and of
  every chain about to be stored what is claimed of the chain served, since a
  restart and an adoption serve those. A pushed block is linked because it is
  checked against the tip after the await and not before.
* `StoresWhatItServes`, `NodeImplementsLedger`: from how each step changes the
  load (`LoadSteps`).
* `TipGrowsWithinReach`: nothing is assumed of peers' chains. `isValidChain` bounds the
  step of the difficulty and not the difficulty, so a chain that leaves the limits is
  adopted. On a tip one outside them the next difficulty is the limit, which is a step
  of one; on one further out the jump back is more than a step, and the node refuses
  whatever it mines.
* `TipStandsForHistory`: by induction from the tips down (`TipFixesHistory`): equal
  hashes are equal parents' hashes, and the shorter chain cannot end first, since only the
  genesis block has its hash. Then from the genesis block up again (`ReadsAreSame`):
  equal hashes make the headers equal only if the difficulties are less than ten apart
  (`JoinedTells`), and two blocks whose parents have one difficulty are at most two apart.
  So the bound on the difficulty's step is what keeps the two readings of a hash apart.
* `PaceIsAccepted`, `SteadyPaceIsAccepted`, `LateChainsFailTheWindow`: the difficulty
  window. By induction over the gaps (`GapsAddUp`) a window is as long as its
  blocks' gaps, one fewer than its blocks, and passes if each is within the tolerance
  corrected for that; with four blocks or more, a block every interval is. But the
  genesis block has date 0: when all other dates are later than a window and a
  quarter, no chain of exactly one window passes. This is the general form of what
  `chain_window` shows.
* `EveryCallEnds`: liveness, from the premise `CallsCanProceed`. A call mines, or clears and
  then writes (`BusyIsSomewhere`); no step of another takes it back
  (`CallsOnlyAdvance`), and a step of its own takes it on.

* `ShardTypeCorrect`, `ConsensusTypeCorrect`: the same for these components; an
  address is registered exactly when it has a record, for good.
* `ValidatorsStayBalanced`: no shard has two validators more than another, once
  the shards are there. The invariant says it while validators are assigned again
  and again, because each assignment goes to a smallest set.
* `StagesNeverRetreat`, `UnfinishedIsPending`, `ShardsImplementCrossShard`:
  assuming each transaction is submitted at most once (`MaxSubmissions =< 1`)
  and, for the last two, that no call comes before `initializeShards` is over
  (`~EarlyCalls`). The strengthening relates the calls to the entries: one
  submission makes an entry, a call waiting for a proof of completion holds a
  transaction already taken on (`OneSubmission`), entries know the recipient's shard
  (`EndsKnown`), and a processing transaction waits in both pools while at most one
  call has handled it, and in one pool after that (`WaitsRightly`).
* `ReputationStaysFull`: from the sign of every quality; proved of `ReputationIsFull`,
  which no run checks.
* `InactiveForGood`: a block is accepted for the caller's record, which is the
  map's when registrations of the address did not overlap; so an inactive record
  cannot be the one that is updated.
* `SelectionFollowsStake`: the invariant (`RegistryInv`) says that the map lists each
  registered address once and that no record has less than the minimum. So the
  active validators are distinct (`FilterKeeps`) and their cumulative stakes rise
  (`Rising`); a random value chooses the first validator whose sum it does not
  exceed, and those that choose the i-th are an interval as long as its stake. The
  one more or less is the boundary: `<=` gives the first validator also the value 0.
* `EpochsAreSettled`: a distribution under way has left to pay everyone who is owed a
  payment and has not had one (`PaidSoFar`), since registration is for good and so a later
  distribution sets out to pay no fewer than the first (`DueInv`); the epoch goes when
  nobody is left.
* `PaidOncePerDistribution`: `PaidByDistributions` is not inductive, for it does not
  know what is still to be paid. The invariant (`PaymentInv`) counts that too: what a
  validator was paid and the distributions that have yet to pay it (`Due`) are together
  no more than the distributions begun. Beginning one adds to both sides, a payment
  moves one from the second count to the first, giving up takes from it. The count is
  a cardinality, so the invariant also says that finitely many calls pay at a time;
  there may be any number of callers.
* `OneDistributionPaysOnce`: the two together. An epoch that was distributed once and is
  deleted has paid whoever had blocks and a record exactly once, and nobody else.
* `ConsensusImplementsPayroll`: a payment was due, so fewer were made than
  distributions begun (`PaymentIsAllowed`); and the step that deletes an epoch leaves
  everyone who is owed a payment paid, by `EpochsAreSettled` in the state after it.

* `EngineTypeCorrect`: what executes finds its contract deployed.
* `SuccessfulUpdatesStay`: the invariant (`KeptInv`) says that no two contracts have
  an object in common, that a successful execution is in the object it brings back,
  and what follows for contracts updated in place (there is one object) and for
  those whose executions do not overlap (what succeeded is in it already).
* `FailedUpdatesVanish`: an object nobody has written back holds what succeeded
  before it and the execution it belongs to.

* `ServersTypeCorrect`, `OverflowStaysYoung`, `AcceptedTransactionsStay`,
  `OpenPeersStayListed`, `InitialPeersMissNothing`: for any sets of sockets,
  diallers, requests and payments and any limits. One inductive invariant in three
  parts. `PoolInv`: a transaction arrives no earlier than it was made, so that one
  made recently is not old. `PeerInv`: the sockets a dialler has not come to are
  fresh, and a socket that asks for the chain is a peer; so that a handshake that
  succeeds leaves a peer and one that fails leaves no connection. `RequestInv`: the
  API listens only when `main()`'s loop is over, after which no initial peer is
  added; a broadcast is begun for every peer of the moment (`BroadcastBegun`) and stays
  begun, and it ends as *gone* only for a socket that is closed (`DeliveriesOK`).
* `NodeImplementsGossip`: from what a step can do to one neighbour. The turn in which a
  handshake ends moves its own neighbour and brings in at most the dialler's next ones
  (`PassingMoves`, `ReturningMoves`), whose sockets are fresh by `PeerInv`; accepting a
  transaction moves nobody and leaves it pending with the table of peers as it is then
  (`NothingEarly`: it was not begun for anyone before); each settlement of a broadcast
  concerns one socket and one transaction (`BroadcastSettles`).
* `HandshakesEnd`, `NoAddressBlocks`, `OnlySilenceBlocksShortLists`: liveness, from
  the premise `HandshakesCanProceed`. A handshake waits for a message, for keys, for the
  encryption, and is over (`HandshakesOnlyAdvance`); only the first may last. So a
  dialler leaves every address of its list behind, however long the list is, or waits
  there for a silent peer; and with one address (`addPeer`'s) or two it comes to its
  end.

Assumptions on constants are the named `ASSUME`s of the modules: timestamps are
naturals, the limits are ordered, the interval is positive, chains handed to the
store are nonempty sequences of blocks with whole nonces and difficulties, incoming
and outgoing sockets are different ones.

The library states induction with an operator as its parameter, which these provers
cannot instantiate. `Induction` states it of sets: a set with 0 and with the
successor of each member has every natural, from the least-number principle
(`LeastElement`). What a theorem says of every index is then a set of indices.

Only model-checked:

* That the fair steps are enabled while their call or handshake lasts. The liveness
  theorems have it as premises, `[]CallsCanProceed` and `[]HandshakesCanProceed` beside
  the fairness, because they are about `ENABLED`. They hold by the form of the actions
  and no run checks them on their own; `CallsEnd` and `OnlySilenceBlocks`, which runs
  check, would fail without them.
* `HeldByBoth`, and `NoOrphan` for transactions submitted again: one call at a time and
  no failing proof. Neither holds without that, and so neither has a theorem.
* `ReplacementIsLonger` with one call at a time; `chain_shrinks` shows that two break it.
* `OnlySilenceBlocks` for lists longer than two: that each address is left behind is
  proved for every length (`NoAddressBlocks`); putting the steps together for every
  length takes an induction over temporal formulas, and an `Induction` over a set of
  numbers cannot have one in the definition of its set.
* The violations, which are runs; `LateChainsFailTheWindow` generalises one.

## The plan

1. Done: `LevelDB`, `BlockValidation`, `Blockchain`, their abstract
   specifications and proofs.
2. Done: `ShardManager` with `CrossShard`, `ConsensusManager` and `ContractEngine`,
   with proofs.
3. Done: `Mempool` with the API's requests, and `P2PServer` with the start of a
   node (`Node`), with proofs.
4. Done: `HeldByBoth`, and submissions that are repeated, with one call at a time.
5. Done: the selection of validators, the history behind a tip, the difficulty
   window, and liveness up to `ENABLED`, with proofs by induction.
6. Done: the rewards as a `Payroll` and the node as a `Gossip`, with proofs that the
   detailed modules implement them; the encryption of a broadcast for each peer; hashes
   that do not part nonce and difficulty.
7. Left: two nodes that exchange chains, once messages carry objects with methods;
   how far the difficulty moves over several blocks.

Other disagreements met while modelling:

* `addBlock` rejects with the block already pushed, since `saveBlock` puts the
  height a mined block does not have (`Blockchain.js:34`).
* The genesis block is rebuilt with fresh random bytes, so that no chain passes
  `isValidChain` but by chance (`KyberUtils.js:93`).
* Index entries of a chain that was written over by an overlapping save stay
  (`LevelDB.js:152`, under the comment "Clear existing chain").
* Chains with a difficulty outside `minDifficulty` and `maxDifficulty` are adopted; two
  or more outside, the node refuses its own blocks from then on (`BlockValidation.js:74`).
* A read error at startup is taken for an empty database, and the node starts from
  genesis over a full one (`LevelDB.js:106`).
* The proof of work is never verified: nothing asks for the leading zeros of a hash that
  `Block.js:60` mines for.
* The hash does not part nonce and difficulty (`Block.js:77`). `TipTellsHistory` says why
  this does not confuse two linked chains.
* A block proposed again after a proof failed completes a transaction that no
  block of the other shard holds (`config.js:71`).
* A crossing transaction whose target shard is not there yet is recorded in one
  pool and can never be completed (`ShardManager.js:117`).
* A validator assigned again belongs to more shards than `maxShardsPerValidator`
  (`config.js:65`), which nothing reads.
* An address with blocks in an epoch that has no record is skipped
  (`ConsensusManager.js:147`), and the epoch is deleted with its blocks unpaid, even if
  its registration is under way.
* Two distributions of an epoch, or one repeated after a failure, pay twice (and no
  more than twice: `PaidByDistributions`).
* Overlapping registrations of an address replace its record; a block validated
  for the old record revives the new one though it was inactive.
* An execution that fails after updating a contract's state in place leaves the
  update, though the state is meant to be updated `if (result.success)`
  (`ContractEngine.js:74`).
* A transaction submitted again while a block that handled it is in progress gets a
  fresh entry, is then deleted from that block's pool (`ShardManager.js:168`), and
  after one block of the other shard is processing and pending nowhere.
* Nobody sends the `HANDSHAKE_RESPONSE` that `P2PServer.js:71` waits for: two nodes
  of this program greet each other and refuse the greeting. Gossip and chains from
  peers never take effect, for the reasons given above.
* No handshake is given up after `handshakeTimeout` (`config.js:135`): an initial
  peer that connects and says nothing keeps the API from starting.
* A peer that leaves during its handshake, or that this node dialled, stays in the
  list `docs/API.md` calls "the list of connected peers".
* `connectToPeer` looks for an address among socket ids, so that "Already connected"
  is never found and a peer is dialled again; nothing reads `maxPeers`
  (`config.js:131`).
* A broadcast to a peer whose encryption rejects is logged and not made again
  (`P2PServer.js:225`), and the API has answered "Creates and broadcasts" with success.
* A connection that comes while the server's keys are awaited is never greeted
  (`P2PServer.js:35`).
* `addPeer` answers "Peer added successfully" when the handshake failed.
* The pool exceeds its "Maximum number of transactions" (`Mempool.js:4`), and old
  transactions stay in a pool that is not full.
* `prioritizeTransactions` never sorts by fee ("Higher fee per byte first",
  `Mempool.js:120`): no transaction has one.
* Two equal payments in one millisecond are one transaction, and both are answered
  with success.
* Transactions stay in the blockchain's pool when a block or an adopted chain has
  them: `addBlock` reaches `clearMempool` only after a save that rejects
  (`Blockchain.js:36`), and `replaceChain` never calls it.
* `selectNextValidator` refuses to choose from fewer than `minValidators` active
  validators; the test "should only select from active validators" leaves one.

## Not modelled

* The algorithms of Kyber and BLAKE3: a hash is its input, a signature check is a
  promise.
* Merkle roots, the search for a nonce, sizes in bytes, logging, JSON formats of the API.
* `createBackup`, which calls a stream method the database does not offer, and the
  read-only queries.
* `config.js`: its values are CONSTANTS, scaled down.
* `validateCrossShardTransaction`, `getValidatorInfo`, `prioritizeTransactions` and
  the other queries, which change nothing.
* The messages a node sends, but for the transactions it broadcasts; the handlers
  that end without a change (see "What is assumed of the linking").
* The SIGINT handler of `index.js`, and the start before the P2P port is open except
  for the blockchain's (`Restart`).
* That an execution of a contract ends: one that awaits what never settles does not.
