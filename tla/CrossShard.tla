----------------------------- MODULE CrossShard -----------------------------
(***************************************************************************)
(* What ShardManager promises about a transaction that crosses shards: it  *)
(* waits in both, one block takes it on, at most one shard lets go of it,  *)
(* and completing it takes it out of whatever shard still has it. It is    *)
(* never left unfinished with no shard to finish it.                       *)
(***************************************************************************)
CONSTANTS
  Tx,
  Ends          \* the two shards of each transaction

VARIABLES
  stage,        \* none, pending, processing or completed
  waiting       \* the shards where it is pending

Init ==
  /\ stage = [t \in Tx |-> "none"]
  /\ waiting = [t \in Tx |-> {}]

Submit(t) ==
  /\ stage[t] = "none" /\ stage'[t] = "pending"
  /\ waiting[t] = {} /\ waiting'[t] = Ends[t]

TakeOn(t) ==
  /\ stage[t] = "pending" /\ stage'[t] = "processing"
  /\ waiting'[t] = waiting[t]

LetGo(t) ==
  /\ stage[t] = "processing" /\ stage'[t] = stage[t]
  /\ waiting[t] = Ends[t]
  /\ \E s \in Ends[t] : waiting'[t] = Ends[t] \ {s}

Complete(t) ==
  /\ stage[t] = "processing" /\ stage'[t] = "completed"
  /\ waiting'[t] = {}

Stay(t) == stage'[t] = stage[t] /\ waiting'[t] = waiting[t]

\* One block may hold several transactions.
Next ==
  \A t \in Tx : Submit(t) \/ TakeOn(t) \/ LetGo(t) \/ Complete(t) \/ Stay(t)

Spec == Init /\ [][Next]_<<stage, waiting>>
=============================================================================
