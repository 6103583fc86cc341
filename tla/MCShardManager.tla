--------------------------- MODULE MCShardManager ---------------------------
(***************************************************************************)
(* ShardManager for TLC. The transactions x and y cross between shards 0   *)
(* and 1, in opposite directions; any other stays in shard 0.              *)
(***************************************************************************)
EXTENDS ShardManager, TLC

CONSTANTS x, y

MCSource == [t \in Tx |-> IF t = y THEN 1 ELSE 0]
MCTarget == [t \in Tx |-> IF t = x THEN 1 ELSE 0]

Symmetry == Permutations(Callers)
ValidatorSymmetry == Permutations(Validators)
=============================================================================
