-------------------------- MODULE ConsensusManager --------------------------
(***************************************************************************)
(* src/consensus/ConsensusManager.js: validators and their records, the    *)
(* weighted selection, the validation of blocks and the rewards of epochs. *)
(*                                                                         *)
(* A record is an object that its callers keep: it is found by its address *)
(* and the call that made it, and the map holds one record per address.    *)
(* Nothing under src/ writes epochBlocks; an epoch's blocks are recorded   *)
(* once, for any addresses. The clock does not go back.                    *)
(***************************************************************************)
EXTENDS Integers, Sequences, FiniteSets

CONSTANTS
  Callers,           \* the asynchronous calls that may be in progress
  Addresses,
  None,
  Stakes,            \* the stakes offered for each address
  MinStake,          \* validatorStake
  MinValidators,     \* minValidators
  Lifetime,          \* 24 hours, in ticks of the clock
  Epochs,
  EpochBlocks,       \* the addresses with blocks in each epoch
  MaxTime,           \* bound: the last tick
  MaxMined,          \* bound: blocks mined per record
  MaxEpoch,          \* bound: the epoch that distributions of nothing count up to
  MaxDistributions   \* bound: distributions begun for an epoch

Records == [stake : Nat, blocksMined : Nat, lastActive : Nat, reputation : 0..100]

ASSUME ConsensusAssumption ==
  /\ None \notin Callers /\ None \notin Records
  /\ Stakes \in [Addresses -> SUBSET Nat]
  /\ MinStake \in Nat \ {0} /\ MinValidators \in Nat \ {0}
  /\ Lifetime \in Nat
  /\ EpochBlocks \in [Epochs -> SUBSET Addresses]
  /\ MaxTime \in Nat /\ MaxMined \in Nat
  /\ MaxEpoch \in Nat /\ MaxDistributions \in Nat

Idle == [at |-> "idle"]

VARIABLES
  now,             \* Date.now()
  objects,         \* the record each call made for each address
  validators,      \* the call whose record the map holds, by address
  order,           \* the map's addresses, in the order of its entries
  epochBlocks,     \* of each epoch: none yet, recorded, or deleted
  currentEpoch,
  paid,            \* how often each validator was paid for each epoch
  distributions,   \* history: how often a distribution of each epoch was begun
  due,             \* history: who had payments due when the first was
  call             \* the local state of each call

registry == <<objects, validators, order>>
rewards == <<epochBlocks, currentEpoch, paid, distributions, due>>
vars == <<now, registry, rewards, call>>

Init ==
  /\ now = 0
  /\ objects = [a \in Addresses |-> [o \in Callers |-> None]]
  /\ validators = [a \in Addresses |-> None]
  /\ order = <<>>
  /\ epochBlocks = [e \in Epochs |-> "none"]
  /\ currentEpoch = 0
  /\ paid = [e \in Epochs |-> [a \in Addresses |-> 0]]
  /\ distributions = [e \in Epochs |-> 0]
  /\ due = [e \in Epochs |-> {}]
  /\ call = [o \in Callers |-> Idle]

Become(o, state) == call' = [call EXCEPT ![o] = state]

Tick ==
  /\ now < MaxTime
  /\ now' = now + 1
  /\ UNCHANGED <<registry, rewards, call>>

-----------------------------------------------------------------------------
(* registerValidator.                                                      *)

\* Up to the await of the proof; the record's time is taken before it.
registerValidator(o, a, stake) ==
  /\ call[o] = Idle
  /\ stake >= MinStake
  /\ validators[a] = None
  /\ Become(o, [at |-> "registering", address |-> a, stake |-> stake,
                lastActive |-> now])
  /\ UNCHANGED <<now, registry, rewards>>

\* And after it: the map is not asked again.
CompleteRegistration(o) ==
  /\ call[o].at = "registering"
  /\ LET a == call[o].address
     IN /\ objects' = [objects EXCEPT ![a][o] =
             [stake |-> call[o].stake, blocksMined |-> 0,
              lastActive |-> call[o].lastActive, reputation |-> 100]]
        /\ order' = IF validators[a] = None THEN Append(order, a) ELSE order
        /\ validators' = [validators EXCEPT ![a] = o]
  /\ Become(o, Idle)
  /\ UNCHANGED <<now, rewards>>

-----------------------------------------------------------------------------
(* selectNextValidator. It changes nothing: its outcome is a function of   *)
(* the active validators when it is called and of a random value.          *)

isValidatorActive(record) ==
  record.lastActive > now - Lifetime /\ record.reputation >= 50

Registered(a) == validators[a] # None
Current(a) == objects[a][validators[a]]
Active(a) == Registered(a) /\ isValidatorActive(Current(a))

\* The map's entries in their order, filtered.
activeValidators ==
  LET kept[n \in 0..Len(order)] ==
        IF n = 0 THEN <<>>
        ELSE IF Active(order[n]) THEN Append(kept[n - 1], order[n]) ELSE kept[n - 1]
  IN kept[Len(order)]

\* The stakes of the first n of these validators together.
cumulativeStake(active, n) ==
  LET sum[i \in 0..n] == IF i = 0 THEN 0 ELSE sum[i - 1] + Current(active[i]).stake
  IN sum[n]

\* Mutant: the random value is compared with each one's own stake.
Selected_Own(active, randomValue) ==
  LET reach == {i \in DOMAIN active : randomValue =< Current(active[i]).stake}
  IN IF reach = {} THEN active[1]
     ELSE active[CHOOSE i \in reach : \A j \in reach : i =< j]

\* The first whose cumulative stake reaches the value; else the first.
Selected(active, randomValue) ==
  LET reach == {i \in DOMAIN active : randomValue =< cumulativeStake(active, i)}
  IN IF reach = {} THEN active[1]
     ELSE active[CHOOSE i \in reach : \A j \in reach : i =< j]

-----------------------------------------------------------------------------
(* validateBlock, for a record that its caller was once given.             *)

validateBlock(o, a, p) ==
  /\ call[o] = Idle
  /\ objects[a][p] # None
  /\ Become(o, [at |-> "validating", address |-> a, object |-> p])
  /\ UNCHANGED <<now, registry, rewards>>

\* assessBlockQuality. Nothing is added either when it throws, for a block
\* without getBlockSize: the rest of the record is changed by then.
Qualities == {0, 5, 10, 15}

\* Mutant: without the upper bound.
Clamped_NoMaximum(x) == IF x < 0 THEN 0 ELSE x

Clamped(x) == IF x > 100 THEN 100 ELSE IF x < 0 THEN 0 ELSE x

updateValidatorStats(record, blockQuality) ==
  [record EXCEPT !.blocksMined = @ + 1,
                 !.lastActive = now,
                 !.reputation = Clamped(@ + blockQuality)]

\* Mutant: the record's activity is not looked at.
AcceptBlock_Always(o) ==
  /\ call[o].at = "validating"
  /\ LET a == call[o].address
         p == validators[a]
     IN /\ objects[a][p].blocksMined < MaxMined
        /\ objects' = [objects EXCEPT
             ![a][p] = updateValidatorStats(objects[a][p], 0)]
  /\ Become(o, Idle)
  /\ UNCHANGED <<now, validators, order, rewards>>

\* The caller's record is active; the map's record is updated.
AcceptBlock(o) ==
  /\ call[o].at = "validating"
  /\ LET a == call[o].address
         p == validators[a]
     IN /\ isValidatorActive(objects[a][call[o].object])
        /\ objects[a][p].blocksMined < MaxMined
        /\ \E blockQuality \in Qualities :
             objects' = [objects EXCEPT
               ![a][p] = updateValidatorStats(objects[a][p], blockQuality)]
  /\ Become(o, Idle)
  /\ UNCHANGED <<now, validators, order, rewards>>

\* The signature is invalid or the record inactive (false), or a proof
\* rejects: the call ends without a change.
GiveUp(o) ==
  /\ call[o].at \in {"validating", "registering", "paying"}
  /\ Become(o, Idle)
  /\ UNCHANGED <<now, registry, rewards>>

-----------------------------------------------------------------------------
(* Rewards.                                                                *)

\* Whoever counts blocks: external.
RecordEpoch(e) ==
  /\ epochBlocks[e] = "none"
  /\ epochBlocks' = [epochBlocks EXCEPT ![e] = "recorded"]
  /\ UNCHANGED <<now, registry, currentEpoch, paid, distributions, due, call>>

\* Mutant: an epoch pays whether or not its blocks are recorded, or deleted.
Rewarded_Any(e) == {a \in EpochBlocks[e] : Registered(a)}

\* calculateValidatorRewards: the addresses that have a record by now. The
\* others are skipped. The amounts are left out.
Rewarded(e) ==
  {a \in EpochBlocks[e] : epochBlocks[e] = "recorded" /\ Registered(a)}

\* distributeRewards up to its first payment.
distributeRewards(o, e) ==
  /\ call[o] = Idle
  /\ distributions[e] < MaxDistributions
  /\ Rewarded(e) # {}
  /\ Become(o, [at |-> "paying", epoch |-> e, rest |-> Rewarded(e)])
  /\ distributions' = [distributions EXCEPT ![e] = @ + 1]
  /\ due' = IF distributions[e] = 0 THEN [due EXCEPT ![e] = Rewarded(e)] ELSE due
  /\ UNCHANGED <<now, registry, epochBlocks, currentEpoch, paid>>

\* An epoch without blocks, one already deleted, or one of which nobody has a
\* record: nothing is awaited, and what there is of the epoch is deleted.
DistributeNothing(e) ==
  /\ currentEpoch < MaxEpoch
  /\ Rewarded(e) = {}
  /\ epochBlocks' = [epochBlocks EXCEPT ![e] = IF @ = "none" THEN "none" ELSE "deleted"]
  /\ currentEpoch' = currentEpoch + 1
  /\ UNCHANGED <<now, registry, paid, distributions, due, call>>

\* Mutant: the epoch is deleted with the first payment.
IsLast_AtOnce(o, a) == TRUE

IsLast(o, a) == call[o].rest = {a}

\* Mutant: the loop starts again after a payment.
PayReward_FromStart(o, a) ==
  /\ call[o].at = "paying"
  /\ a \in call[o].rest
  /\ LET e == call[o].epoch
     IN /\ paid' = [paid EXCEPT ![e][a] = @ + 1]
        /\ IF IsLast(o, a)
           THEN /\ epochBlocks' = [epochBlocks EXCEPT ![e] = "deleted"]
                /\ currentEpoch' = currentEpoch + 1
                /\ Become(o, Idle)
           ELSE UNCHANGED <<epochBlocks, currentEpoch, call>>
  /\ UNCHANGED <<now, registry, distributions, due>>

\* One payment is made, and with the last the epoch is deleted.
PayReward(o, a) ==
  /\ call[o].at = "paying"
  /\ a \in call[o].rest
  /\ LET e == call[o].epoch
     IN /\ paid' = [paid EXCEPT ![e][a] = @ + 1]
        /\ IF IsLast(o, a)
           THEN /\ epochBlocks' = [epochBlocks EXCEPT ![e] = "deleted"]
                /\ currentEpoch' = currentEpoch + 1
                /\ Become(o, Idle)
           ELSE /\ Become(o, [call[o] EXCEPT !.rest = @ \ {a}])
                /\ UNCHANGED <<epochBlocks, currentEpoch>>
  /\ UNCHANGED <<now, registry, distributions, due>>

-----------------------------------------------------------------------------

Next ==
  \/ Tick
  \/ \E e \in Epochs : RecordEpoch(e) \/ DistributeNothing(e)
  \/ \E o \in Callers :
       \/ \E a \in Addresses : \E stake \in Stakes[a] : registerValidator(o, a, stake)
       \/ CompleteRegistration(o)
       \/ \E a \in Addresses, p \in Callers : validateBlock(o, a, p)
       \/ AcceptBlock(o)
       \/ GiveUp(o)
       \/ \E e \in Epochs : distributeRewards(o, e)
       \/ \E a \in Addresses : PayReward(o, a)

Spec == Init /\ [][Next]_vars

-----------------------------------------------------------------------------
(* Properties.                                                             *)

Calls ==
  {Idle}
  \cup [at : {"registering"}, address : Addresses, stake : Nat, lastActive : Nat]
  \cup [at : {"validating"}, address : Addresses, object : Callers]
  \cup [at : {"paying"}, epoch : Epochs, rest : SUBSET Addresses]

\* The state is well-formed; the map's record of an address is one that was
\* made, and whatever was made left the address registered.
TypeOK ==
  /\ now \in Nat
  /\ objects \in [Addresses -> [Callers -> Records \cup {None}]]
  /\ validators \in [Addresses -> Callers \cup {None}]
  /\ order \in Seq(Addresses)
  /\ epochBlocks \in [Epochs -> {"none", "recorded", "deleted"}]
  /\ currentEpoch \in Nat
  /\ paid \in [Epochs -> [Addresses -> Nat]]
  /\ distributions \in [Epochs -> Nat]
  /\ due \in [Epochs -> SUBSET Addresses]
  /\ call \in [Callers -> Calls]
  /\ \A a \in Addresses :
       /\ Registered(a) => Current(a) # None
       /\ ~Registered(a) => \A o \in Callers : objects[a][o] = None
  /\ \A o \in Callers :
       call[o].at = "validating" => objects[call[o].address][call[o].object] # None

\* A validator that has been inactive for a day never comes back: its blocks
\* are refused for its inactivity before they could end it, and it cannot
\* register again. (Unless registrations overlapped: then a block validated
\* for the record that was replaced revives the one that replaced it.)
OneRecord(a) ==
  /\ Registered(a)
  /\ \A o \in Callers \ {validators[a]} : objects[a][o] = None
  /\ \A o \in Callers : call[o].at = "registering" => call[o].address # a

StaysInactive ==
  [][\A a \in Addresses : OneRecord(a) /\ ~Active(a) => ~Active(a)']_vars

\* The selection is weighted by stake: of the random values, as many choose
\* a validator as its stake, give or take the one at a boundary.
SelectionIsWeighted ==
  LET active == activeValidators
      total == cumulativeStake(active, Len(active))
  IN Len(active) >= MinValidators =>
       \A i \in DOMAIN active :
         Cardinality({r \in 0..(total - 1) : Selected(active, r) = active[i]})
           - Current(active[i]).stake \in {-1, 0, 1}

\* Whoever had blocks in an epoch and a record when it was first distributed
\* has been paid for it when the epoch is deleted, although payments fail,
\* distributions overlap, and the one that deletes it need not be the first.
\* (An address registered later may find the epoch gone.)
EpochSettled ==
  \A e \in Epochs : epochBlocks[e] = "deleted" =>
    \A a \in due[e] : paid[e][a] >= 1

\* Nobody is paid for an epoch more often than it was distributed, however
\* distributions overlap, fail half-way and are made again; nor for blocks it
\* does not have. So an epoch distributed once pays once.
PaidByDistributions ==
  \A e \in Epochs, a \in Addresses :
    paid[e][a] =< IF a \in EpochBlocks[e] THEN distributions[e] ELSE 0

\* The rewards are a Payroll: every step of every distribution pays one
\* validator or nobody, and none deletes an epoch that owes something.
Rewards == INSTANCE Payroll WITH
  Members <- EpochBlocks, state <- epochBlocks, owed <- due

ImplementsPayroll == Rewards!Spec
=============================================================================
