-------------------------- MODULE MCContractEngine --------------------------
(***************************************************************************)
(* ContractEngine for TLC: interchangeable executions.                     *)
(***************************************************************************)
EXTENDS ContractEngine, TLC

Symmetry == Permutations(Executions)
=============================================================================
