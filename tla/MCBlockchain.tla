---------------------------- MODULE MCBlockchain ----------------------------
(***************************************************************************)
(* Blockchain for TLC. A generation interval is one tick of the clock, and *)
(* the adjustment window four blocks instead of ten, so that a chain mined *)
(* at one block per tick passes it, as one at ten seconds does in the      *)
(* code, and a burst does not.                                             *)
(***************************************************************************)
EXTENDS Blockchain

MCTime == 0..3

\* The genesis block is dated long before any node runs.
MCLateTime == {0} \cup 8..11
MCTxTime == [t \in Tx |-> 1]

Grow(blocks, transactions, found) ==
  Append(blocks, mineBlock(Last(blocks), transactions, found, found,
                           CHOOSE n \in Nonces : TRUE))

\* Chains an honest peer mined from genesis block r: two forks of two
\* blocks, and two longer ones.
Peer2(r) == Grow(<<Genesis(r)>>, <<>>, 1)
Peer3(r) == Grow(Peer2(r), <<CHOOSE t \in Tx : TRUE>>, 2)
Peer4(r) == Grow(Peer3(r), <<>>, 3)
Fork3(r) == Grow(Grow(<<Genesis(r)>>, <<>>, 2), <<>>, 3)

\* The chain Fork3 with the digits of its last nonce and difficulty parted
\* elsewhere: the hashes are true and the same.
Parted3(r) ==
  LET tip == Fork3(r)[3]
  IN [Fork3(r) EXCEPT ![3].nonce = tip.nonce \div 10,
                      ![3].difficulty = 10 * (tip.nonce % 10) + tip.difficulty]

\* A chain and a block that claims this difficulty.
Claim(blocks, difficulty, found) ==
  LET lastHash == Last(blocks).hash
  IN Append(blocks,
       [timestamp |-> found, lastHash |-> lastHash,
        hash |-> Hash(found, lastHash, <<>>, 1, difficulty),
        transactions |-> <<>>, nonce |-> 1, difficulty |-> difficulty,
        quantumProof |-> PendingProof])

\* A valid chain whose difficulty falls by one in every block.
Lax3(r) ==
  Claim(Claim(<<Genesis(r)>>, MinDifficulty - 1, 1), MinDifficulty - 2, 2)

MCHonest == UNION {{Peer3(r), Fork3(r), Peer4(r)} : r \in Randomness}
MCOverlap == MCHonest \cup {Parted3(r) : r \in Randomness}
MCLax == MCHonest \cup {Lax3(r) : r \in Randomness}
MCNoChain == {}

MCBatches == {<<t>> : t \in Tx}
MCNoBatch == {<<>>}
=============================================================================
