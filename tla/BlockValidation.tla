-------------------------- MODULE BlockValidation --------------------------
(***************************************************************************)
(* The static rules of src/validation/BlockValidation.js, with the part of *)
(* src/blockchain/Block.js they are about: what a block is, how one is     *)
(* mined, and when a block or a chain of blocks is accepted.               *)
(*                                                                         *)
(* A hash is the value of its own input: blake3 is taken to be             *)
(* collision-free. Which nonce the mining loop ends with depends on the    *)
(* bits of the hashes and is left open; nothing else looks for their       *)
(* leading zeros. Numbers are whole. A block's size is counted in          *)
(* transactions.                                                           *)
(***************************************************************************)
EXTENDS Integers, Sequences

CONSTANTS
  Tx,                   \* transactions, identified by their hash
  TxTime,               \* the timestamp of each transaction
  Time,                 \* the values Date.now() may return
  Nonces,               \* the nonces that the mining loop may end with
  Randomness,           \* the values randomBytes(32) may return
  NoProof,              \* the null a block built without a proof carries
  PendingProof,         \* the unawaited promise a mined block carries
  GenerationInterval,   \* BLOCK_GENERATION_INTERVAL
  AdjustmentInterval,   \* DIFFICULTY_ADJUSTMENT_INTERVAL
  MaxBlockSize,         \* MAX_BLOCK_SIZE
  MinDifficulty,        \* MIN_DIFFICULTY
  MaxDifficulty         \* MAX_DIFFICULTY

ASSUME ValidationAssumption ==
  /\ TxTime \in [Tx -> Int]
  /\ Time \subseteq Nat
  /\ 0 \in Time
  /\ Nonces \subseteq Nat
  /\ PendingProof # NoProof
  /\ GenerationInterval \in Nat \ {0}
  /\ AdjustmentInterval \in Nat \ {0}
  /\ MaxBlockSize \in Nat
  /\ MinDifficulty \in Nat
  /\ MaxDifficulty \in Nat
  /\ MinDifficulty =< MaxDifficulty

Least(a, b) == IF a =< b THEN a ELSE b
Greatest(a, b) == IF a >= b THEN a ELSE b
Distance(a, b) == IF a >= b THEN a - b ELSE b - a

\* The least power of ten above n.
Scale(n) ==
  LET power[k \in 0..n] == IF k = 0 THEN 10 ELSE 10 * power[k - 1]
  IN power[CHOOSE k \in 0..n : n < power[k] /\ \A j \in 0..(k - 1) : power[j] =< n]

\* `${nonce}${difficulty}`: the digits of the one and then of the other, with
\* nothing in between. (51, 4) and (5, 14) read the same.
Joined(nonce, difficulty) == nonce * Scale(difficulty) + difficulty

\* Block.hash. Of the fields it strings together only the last two can be
\* told apart in more than one way: the transactions are in brackets, and
\* the hash before them has its own length or is the genesis block's.
Hash(timestamp, lastHash, transactions, nonce, difficulty) ==
  <<timestamp, lastHash, transactions, Joined(nonce, difficulty)>>

GenesisHash == <<"genesis-hash">>

\* Block.genesis(): everything but the proof is fixed; the proof embeds a
\* fresh draw of randomBytes although it is called deterministic.
Genesis(randomness) ==
  [timestamp |-> 0, lastHash |-> <<"-----">>, hash |-> GenesisHash,
   transactions |-> <<>>, nonce |-> 0, difficulty |-> MinDifficulty,
   quantumProof |-> randomness]

-----------------------------------------------------------------------------
(* Mining.                                                                 *)

\* Mutant: a fast block raises the difficulty by two.
adjustDifficulty_Steep(originalBlock, timestamp) ==
  IF 2 * (timestamp - originalBlock.timestamp) < GenerationInterval
  THEN Least(originalBlock.difficulty + 2, MaxDifficulty)
  ELSE originalBlock.difficulty

\* The difficulty of the block after originalBlock, from the clock reading
\* taken before the mining loop.
adjustDifficulty(originalBlock, timestamp) ==
  LET difficulty == originalBlock.difficulty
      timeDifference == timestamp - originalBlock.timestamp
  IN CASE difficulty < MinDifficulty -> MinDifficulty
       [] difficulty > MaxDifficulty -> MaxDifficulty
       [] OTHER ->
            IF timeDifference > 2 * GenerationInterval
            THEN Greatest(difficulty - 1, MinDifficulty)
            ELSE IF 2 * timeDifference < GenerationInterval
                 THEN Least(difficulty + 1, MaxDifficulty)
                 ELSE difficulty

\* Block.mineBlock: the clock is read once for the difficulty (started) and
\* again in every round of the loop (found). The proof is a promise, since
\* generateSignature is async and nothing awaits it.
mineBlock(lastBlock, transactions, started, found, nonce) ==
  LET difficulty == adjustDifficulty(lastBlock, started)
  IN [timestamp |-> found, lastHash |-> lastBlock.hash,
      hash |-> Hash(found, lastBlock.hash, transactions, nonce, difficulty),
      transactions |-> transactions, nonce |-> nonce,
      difficulty |-> difficulty,
      quantumProof |-> PendingProof]

-----------------------------------------------------------------------------
(* Acceptance.                                                             *)

validateBlockStructure(block) == block.quantumProof # NoProof

validateBlockHash(block) ==
  block.hash = Hash(block.timestamp, block.lastHash, block.transactions,
                    block.nonce, block.difficulty)

\* Mutant: the difficulty may move by any amount.
validateBlockChain_AnyStep(block, lastBlock) ==
  /\ block.lastHash = lastBlock.hash
  /\ block.timestamp > lastBlock.timestamp

validateBlockChain(block, lastBlock) ==
  /\ block.lastHash = lastBlock.hash
  /\ block.timestamp > lastBlock.timestamp
  /\ Distance(block.difficulty, lastBlock.difficulty) =< 1

\* verifySignature is async and validateQuantumProof returns its promise
\* unawaited: the conjunct is an object, hence true, whatever the proof.
validateQuantumProof(block) == TRUE

validateBlockSize(block) == Len(block.transactions) =< MaxBlockSize

isValidBlock(block, lastBlock) ==
  /\ validateBlockStructure(block)
  /\ validateBlockHash(block)
  /\ validateBlockChain(block, lastBlock)
  /\ validateQuantumProof(block)
  /\ validateBlockSize(block)

\* The first transaction is taken for the coinbase and never looked at.
validateTransactionSequence(block) ==
  \A i \in 2..Len(block.transactions) :
    /\ TxTime[block.transactions[i]] =< block.timestamp
    /\ TxTime[block.transactions[i]] >= TxTime[block.transactions[i - 1]]

\* Blockchain.isValidNewBlock for a block just mined: the Merkle root needs
\* no field, the constructor having computed it from the same transactions.
isValidNewBlock(block, lastBlock) ==
  /\ isValidBlock(block, lastBlock)
  /\ validateTransactionSequence(block)

\* The last AdjustmentInterval blocks span AdjustmentInterval intervals, give
\* or take a quarter. Short chains are exempt.
validateDifficultyAdjustment(blocks) ==
  LET lastBlock == blocks[Len(blocks)]
      lastAdjustmentBlock == blocks[Len(blocks) - AdjustmentInterval + 1]
      expectedTime == GenerationInterval * AdjustmentInterval
      actualTime == lastBlock.timestamp - lastAdjustmentBlock.timestamp
  IN Len(blocks) >= AdjustmentInterval =>
       4 * Distance(actualTime, expectedTime) =< expectedTime

\* Blockchain.isValidChain, against a genesis block built on the spot.
isValidChain(blocks, randomness) ==
  /\ blocks[1] = Genesis(randomness)
  /\ \A i \in 2..Len(blocks) : isValidBlock(blocks[i], blocks[i - 1])
  /\ validateDifficultyAdjustment(blocks)

-----------------------------------------------------------------------------
(* What the rules are for.                                                 *)

\* A chain starts at the genesis block, every block names the hash of the
\* one before it and is younger, the difficulty moves by at most one, and
\* hashes are those of the headers.
Linked(blocks) ==
  /\ blocks # <<>>
  /\ blocks[1].hash = GenesisHash /\ blocks[1].difficulty = MinDifficulty
  /\ \A i \in 1..Len(blocks) :
       blocks[i].nonce \in Nat /\ blocks[i].difficulty \in Nat
  /\ \A i \in 2..Len(blocks) :
       /\ blocks[i].lastHash = blocks[i - 1].hash
       /\ blocks[i - 1].timestamp < blocks[i].timestamp
       /\ Distance(blocks[i].difficulty, blocks[i - 1].difficulty) =< 1
       /\ blocks[i].hash = Hash(blocks[i].timestamp, blocks[i].lastHash,
                                blocks[i].transactions, blocks[i].nonce,
                                blocks[i].difficulty)

\* Two blocks with one header; their proofs may differ.
SameHeader(b, c) ==
  /\ b.hash = c.hash
  /\ b.timestamp = c.timestamp
  /\ b.lastHash = c.lastHash
  /\ b.transactions = c.transactions
  /\ b.nonce = c.nonce
  /\ b.difficulty = c.difficulty

\* Two chains that differ at most in proofs and in the genesis block.
SameHistory(blocks, others) ==
  /\ Len(blocks) = Len(others)
  /\ \A i \in 2..Len(blocks) : SameHeader(blocks[i], others[i])
=============================================================================
