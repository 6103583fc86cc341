------------------------------- MODULE Ledger -------------------------------
(***************************************************************************)
(* What a node promises about the chain it serves and the chain it keeps   *)
(* on disk. The chain served grows a block at a time on its own tip; only  *)
(* a replacement or a restart turns it into another. A replacement is kept *)
(* in the very step that serves it. What is kept may be lost, never        *)
(* changed otherwise, and a restart serves exactly what is kept, or begins *)
(* again when nothing is (or when it cannot be read).                      *)
(***************************************************************************)
EXTENDS Integers, Sequences

CONSTANTS
  Chains,       \* the chains that may replace the one served
  Beginnings,   \* the chains of a node that starts from nothing
  None,
  Misreads      \* whether what is kept may read as nothing

VARIABLES
  served,
  kept    \* a chain or None

vars == <<served, kept>>

Init ==
  /\ served \in Beginnings
  /\ kept = None

\* The block named by the new tip is the tip of before.
Grow ==
  /\ Len(served') = Len(served) + 1
  /\ \A i \in DOMAIN served : served'[i] = served[i]
  /\ served'[Len(served')].lastHash = served[Len(served)].hash
  /\ UNCHANGED kept

Replace ==
  /\ served' \in Chains
  /\ kept' = served'

Lose ==
  /\ kept' = None
  /\ UNCHANGED served

Recover ==
  /\ \/ kept # None /\ served' = kept
     \/ (kept = None \/ Misreads) /\ served' \in Beginnings
  /\ UNCHANGED kept

Next == Grow \/ Replace \/ Lose \/ Recover

Spec == Init /\ [][Next]_vars
=============================================================================
