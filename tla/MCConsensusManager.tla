------------------------- MODULE MCConsensusManager -------------------------
(***************************************************************************)
(* ConsensusManager for TLC: one epoch, in which a1 and a2 mined. A day is *)
(* one tick of the clock.                                                  *)
(***************************************************************************)
EXTENDS ConsensusManager, TLC

CONSTANTS a1, a2

MCEpochBlocks == [e \in Epochs |-> {a1, a2}]
MCStakes == [a \in Addresses |-> IF a = a1 THEN {1, 2} ELSE {4}]

Symmetry == Permutations(Callers)
=============================================================================
