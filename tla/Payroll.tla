------------------------------ MODULE Payroll ------------------------------
(***************************************************************************)
(* What ConsensusManager promises about the rewards of an epoch. Once its  *)
(* blocks are recorded it may be distributed, as often as anyone asks. The *)
(* first distribution settles who is owed a payment; a later one may pay   *)
(* others too, and each pays a member at most once. The epoch is deleted,  *)
(* for good, when everyone who is owed one has had one: payments are made  *)
(* at least once, and with one distribution just once.                     *)
(***************************************************************************)
EXTENDS Integers

CONSTANTS
  Epochs,
  Addresses,
  Members          \* the addresses with blocks in each epoch

VARIABLES
  state,           \* of each epoch: none, recorded or deleted
  owed,            \* who is owed a payment
  distributions,   \* how often each was distributed
  paid             \* how often each member was paid for it

Init ==
  /\ state = [e \in Epochs |-> "none"]
  /\ owed = [e \in Epochs |-> {}]
  /\ distributions = [e \in Epochs |-> 0]
  /\ paid = [e \in Epochs |-> [a \in Addresses |-> 0]]

Record(e) ==
  /\ state[e] = "none"
  /\ state' = [state EXCEPT ![e] = "recorded"]
  /\ UNCHANGED <<owed, distributions, paid>>

Distribute(e) ==
  /\ state[e] = "recorded"
  /\ distributions' = [distributions EXCEPT ![e] = @ + 1]
  /\ IF distributions[e] = 0
     THEN \E members \in SUBSET Members[e] : owed' = [owed EXCEPT ![e] = members]
     ELSE UNCHANGED owed
  /\ UNCHANGED <<state, paid>>

Settled(e) == \A a \in owed[e] : paid[e][a] >= 1

Delete(e) ==
  /\ state[e] = "recorded"
  /\ Settled(e)'
  /\ state' = [state EXCEPT ![e] = "deleted"]

Pay(e, a) ==
  /\ state[e] # "none" /\ a \in Members[e]
  /\ paid[e][a] < distributions[e]
  /\ paid' = [paid EXCEPT ![e][a] = @ + 1]
  /\ Delete(e) \/ UNCHANGED state
  /\ UNCHANGED <<owed, distributions>>

\* Nobody is owed anything: the epoch goes without a payment.
Forget(e) ==
  /\ Delete(e)
  /\ UNCHANGED <<owed, distributions, paid>>

Next ==
  \E e \in Epochs :
    Record(e) \/ Distribute(e) \/ Forget(e) \/ \E a \in Addresses : Pay(e, a)

Spec == Init /\ [][Next]_<<state, owed, distributions, paid>>
=============================================================================
