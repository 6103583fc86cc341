---------------------------- MODULE AtomicStore ----------------------------
(***************************************************************************)
(* What the persistent store promises to the node: a load that meets no    *)
(* read error yields nothing at all, or exactly one of the chains that     *)
(* were handed to saveChain, never a blend of two. The store changes only  *)
(* while a save is under way. A save may first lose what was stored; it    *)
(* either commits its own chain in one step or is abandoned.               *)
(***************************************************************************)
CONSTANTS Callers, Chains, None

VARIABLES
  stored,   \* the chain a load returns, or None
  saving    \* per caller, the chain its unfinished save will commit

vars == <<stored, saving>>

Init ==
  /\ stored = None
  /\ saving = [o \in Callers |-> None]

Begin(o) ==
  /\ saving[o] = None
  /\ \E c \in Chains : saving' = [saving EXCEPT ![o] = c]
  /\ UNCHANGED stored

Lose ==
  /\ \E o \in Callers : saving[o] # None
  /\ stored' = None
  /\ UNCHANGED saving

Commit(o) ==
  /\ saving[o] # None
  /\ stored' = saving[o]
  /\ saving' = [saving EXCEPT ![o] = None]

Abandon(o) ==
  /\ saving[o] # None
  /\ saving' = [saving EXCEPT ![o] = None]
  /\ UNCHANGED stored

Crash ==
  /\ saving' = [o \in Callers |-> None]
  /\ UNCHANGED stored

Next ==
  \/ \E o \in Callers : Begin(o) \/ Commit(o) \/ Abandon(o)
  \/ Lose
  \/ Crash

Spec == Init /\ [][Next]_vars
=============================================================================
