------------------------------- MODULE MCNode -------------------------------
(***************************************************************************)
(* Node for TLC: interchangeable requests and payments.                    *)
(***************************************************************************)
EXTENDS Node, TLC

Symmetry == Permutations(Requests) \cup Permutations(Payments)
=============================================================================
