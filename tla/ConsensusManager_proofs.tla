---------------------- MODULE ConsensusManager_proofs ----------------------
(***************************************************************************)
(* Proofs about ConsensusManager, for every set of callers, addresses,     *)
(* stakes and epochs, and for every order of calls and faults.             *)
(***************************************************************************)
EXTENDS ConsensusManager, Induction, FiniteSetTheorems

-----------------------------------------------------------------------------
(* Types.                                                                  *)

\* What a call carries at each of its stops.
LEMMA CallFields ==
  ASSUME NEW c \in Calls
  PROVE  /\ c.at = "registering" =>
              c.address \in Addresses /\ c.stake \in Nat /\ c.lastActive \in Nat
         /\ c.at = "validating" => c.address \in Addresses /\ c.object \in Callers
         /\ c.at = "paying" => c.epoch \in Epochs /\ c.rest \in SUBSET Addresses
BY DEF Calls, Idle

\* Whatever the quality of its block, a validator's record stays a record.
LEMMA UpdateType ==
  ASSUME NEW r \in Records, NEW q \in Qualities, now \in Nat
  PROVE  updateValidatorStats(r, q) \in Records
<1>1. Clamped(r.reputation + q) \in 0..100
  BY DEF Records, Qualities, Clamped
<1>2. r.blocksMined + 1 \in Nat
  BY DEF Records
<1>3. QED
  BY <1>1, <1>2 DEF updateValidatorStats, Records

\* A block that is being validated is for a registered address.
LEMMA ValidatedIsRegistered ==
  ASSUME TypeOK, NEW o \in Callers, call[o].at = "validating"
  PROVE  /\ call[o].address \in Addresses /\ call[o].object \in Callers
         /\ validators[call[o].address] \in Callers
         /\ objects[call[o].address][validators[call[o].address]] \in Records
<1>1. call[o] \in Calls
  BY DEF TypeOK
<1>2. call[o].address \in Addresses /\ call[o].object \in Callers
  BY <1>1, CallFields
<1>3. Registered(call[o].address)
  BY <1>2 DEF TypeOK
<1>4. Current(call[o].address) # None
  BY <1>2, <1>3 DEF TypeOK
<1>5. QED
  BY <1>2, <1>3, <1>4 DEF TypeOK, Registered, Current

LEMMA TypeInit == Init => TypeOK
<1> SUFFICES ASSUME Init PROVE TypeOK
  OBVIOUS
<1>1. Idle \in Calls /\ Idle.at = "idle"
  BY DEF Calls, Idle
<1>2. QED
  BY <1>1, ConsensusAssumption DEF Init, TypeOK, Registered, Current

\* The registry's part of the type invariant, and the rest of it.
RegistryOK ==
  \A a \in Addresses :
    /\ Registered(a) => Current(a) # None
    /\ ~Registered(a) => \A o \in Callers : objects[a][o] = None

LEMMA TypeStep == TypeOK /\ [Next]_vars => TypeOK'
<1> SUFFICES ASSUME TypeOK, [Next]_vars PROVE TypeOK'
  OBVIOUS
<1> USE ConsensusAssumption
<1>k. \A o \in Callers : call[o] \in Calls
  BY DEF TypeOK
<1>i. Idle \in Calls /\ Idle.at = "idle"
  BY DEF Calls, Idle
<1>1. CASE Tick
  BY <1>1 DEF TypeOK, Tick, registry, rewards, Registered, Current
<1>2. ASSUME NEW e \in Epochs, RecordEpoch(e) PROVE TypeOK'
  BY <1>2 DEF TypeOK, RecordEpoch, registry, Registered, Current
<1>3. ASSUME NEW e \in Epochs, DistributeNothing(e) PROVE TypeOK'
  BY <1>3 DEF TypeOK, DistributeNothing, registry, Registered, Current
<1>4. ASSUME NEW o \in Callers, NEW a \in Addresses, NEW stake \in Stakes[a],
             registerValidator(o, a, stake)
      PROVE  TypeOK'
  <2>1. [at |-> "registering", address |-> a, stake |-> stake, lastActive |-> now]
          \in Calls
    BY DEF Calls, TypeOK
  <2>2. QED
    BY <1>4, <2>1
       DEF TypeOK, registerValidator, Become, registry, rewards, Registered, Current
<1>5. ASSUME NEW o \in Callers, CompleteRegistration(o) PROVE TypeOK'
  <2> DEFINE a == call[o].address
             r == [stake |-> call[o].stake, blocksMined |-> 0,
                   lastActive |-> call[o].lastActive, reputation |-> 100]
  <2>1. a \in Addresses /\ r \in Records /\ r # None
    BY <1>5, <1>k, CallFields DEF CompleteRegistration, Records
  <2>2. /\ objects' = [objects EXCEPT ![a][o] = r]
        /\ validators' = [validators EXCEPT ![a] = o]
        /\ order' = IF validators[a] = None THEN Append(order, a) ELSE order
        /\ call' = [call EXCEPT ![o] = Idle]
        /\ UNCHANGED <<now, rewards>>
    BY <1>5 DEF CompleteRegistration, Become
  <2> HIDE DEF a, r
  <2>3. order' \in Seq(Addresses)
    BY <2>1, <2>2 DEF TypeOK
  <2>4. objects' \in [Addresses -> [Callers -> Records \cup {None}]]
    BY <2>1, <2>2 DEF TypeOK
  <2>5. RegistryOK'
    BY <2>1, <2>2 DEF TypeOK, RegistryOK, Registered, Current
  <2>6. \A p \in Callers : call'[p].at = "validating" =>
          objects'[call'[p].address][call'[p].object] # None
    <3> SUFFICES ASSUME NEW p \in Callers, call'[p].at = "validating"
                 PROVE  objects'[call'[p].address][call'[p].object] # None
      OBVIOUS
    <3>1. call'[p] = call[p]
      BY <2>2, <1>i DEF TypeOK
    <3>2. call[p].address \in Addresses /\ call[p].object \in Callers
      BY <3>1, <1>k, CallFields
    <3>3. objects[call[p].address][call[p].object] # None
      BY <3>1 DEF TypeOK
    <3>4. QED
      BY <3>1, <3>2, <3>3, <2>1, <2>2 DEF TypeOK
  <2>7. QED
    BY <2>1, <2>2, <2>3, <2>4, <2>5, <2>6, <1>i DEF TypeOK, RegistryOK, rewards
<1>6. ASSUME NEW o \in Callers, NEW a \in Addresses, NEW p \in Callers,
             validateBlock(o, a, p)
      PROVE  TypeOK'
  <2>1. [at |-> "validating", address |-> a, object |-> p] \in Calls
    BY DEF Calls
  <2>2. QED
    BY <1>6, <2>1
       DEF TypeOK, validateBlock, Become, registry, rewards, Registered, Current
<1>7. ASSUME NEW o \in Callers, AcceptBlock(o) PROVE TypeOK'
  <2> DEFINE a == call[o].address
             p == validators[a]
  <2>1. a \in Addresses /\ p \in Callers /\ objects[a][p] \in Records
    BY <1>7, ValidatedIsRegistered DEF AcceptBlock
  <2>2. PICK q \in Qualities :
          objects' = [objects EXCEPT ![a][p] = updateValidatorStats(objects[a][p], q)]
    BY <1>7 DEF AcceptBlock
  <2>3. /\ call' = [call EXCEPT ![o] = Idle]
        /\ UNCHANGED <<now, validators, order, rewards>>
    BY <1>7 DEF AcceptBlock, Become
  <2> DEFINE r == updateValidatorStats(objects[a][p], q)
  <2>4. r \in Records /\ r # None
    BY <2>1, UpdateType DEF TypeOK
  <2> HIDE DEF a, p, r
  <2>5. objects' \in [Addresses -> [Callers -> Records \cup {None}]]
    BY <2>1, <2>2, <2>4 DEF TypeOK, r
  <2>6. \A b \in Addresses, c \in Callers :
          (objects'[b][c] = None) <=> (objects[b][c] = None)
    BY <2>1, <2>2, <2>4 DEF TypeOK, r
  <2>7. RegistryOK'
    BY <2>3, <2>6 DEF TypeOK, RegistryOK, Registered, Current
  <2>8. \A c \in Callers : call'[c].at = "validating" =>
          objects'[call'[c].address][call'[c].object] # None
    BY <2>3, <2>6, <1>i, <1>k, CallFields DEF TypeOK
  <2>9. QED
    BY <2>3, <2>5, <2>7, <2>8, <1>i DEF TypeOK, RegistryOK, rewards
<1>8. ASSUME NEW o \in Callers, GiveUp(o) PROVE TypeOK'
  BY <1>8, <1>i DEF TypeOK, GiveUp, Become, registry, rewards, Registered, Current
<1>9. ASSUME NEW o \in Callers, NEW e \in Epochs, distributeRewards(o, e) PROVE TypeOK'
  <2>1. /\ Rewarded(e) \in SUBSET Addresses
        /\ [at |-> "paying", epoch |-> e, rest |-> Rewarded(e)] \in Calls
    BY DEF Calls, Rewarded
  <2>2. QED
    BY <1>9, <2>1
       DEF TypeOK, distributeRewards, Become, registry, rewards, Registered, Current
<1>10. ASSUME NEW o \in Callers, NEW a \in Addresses, PayReward(o, a) PROVE TypeOK'
  <2>1. call[o].epoch \in Epochs /\ call[o].rest \in SUBSET Addresses
    BY <1>10, <1>k, CallFields DEF PayReward
  <2> DEFINE c == [call[o] EXCEPT !.rest = @ \ {a}]
  <2>p. call[o] \in [at : {"paying"}, epoch : Epochs, rest : SUBSET Addresses]
    BY <1>10, <1>k DEF PayReward, Calls, Idle
  <2>2. c \in [at : {"paying"}, epoch : Epochs, rest : SUBSET Addresses]
    BY <2>p
  <2>3. c.at = "paying" /\ c \in Calls
    BY <2>2 DEF Calls
  <2>4. call' \in [Callers -> Calls]
    BY <1>10, <2>3, <1>i DEF TypeOK, PayReward, Become
  <2>5. /\ epochBlocks' \in [Epochs -> {"none", "recorded", "deleted"}]
        /\ currentEpoch' \in Nat
        /\ paid' \in [Epochs -> [Addresses -> Nat]]
    <3>1. paid' \in [Epochs -> [Addresses -> Nat]]
      <4>1. paid \in [Epochs -> [Addresses -> Nat]]
        BY DEF TypeOK
      <4>2. paid' = [paid EXCEPT ![call[o].epoch][a] = @ + 1]
        BY <1>10 DEF PayReward
      <4>3. QED
        BY <2>1, <4>1, <4>2
    <3>2. CASE IsLast(o, a)
      <4>1. /\ epochBlocks' = [epochBlocks EXCEPT ![call[o].epoch] = "deleted"]
            /\ currentEpoch' = currentEpoch + 1
        BY <1>10, <3>2 DEF PayReward
      <4>2. QED
        BY <2>1, <3>1, <4>1 DEF TypeOK
    <3>3. CASE ~IsLast(o, a)
      BY <1>10, <3>1, <3>3 DEF TypeOK, PayReward
    <3>4. QED
      BY <3>2, <3>3
  <2>6. \A p \in Callers : call'[p].at = "validating" => call'[p] = call[p]
    BY <1>10, <2>3, <1>i DEF TypeOK, PayReward, Become
  <2>7. QED
    BY <1>10, <2>4, <2>5, <2>6 DEF TypeOK, PayReward, registry, Registered, Current
<1>11. CASE UNCHANGED vars
  BY <1>11 DEF TypeOK, vars, registry, rewards, Registered, Current
<1>12. QED
  BY <1>1, <1>2, <1>3, <1>4, <1>5, <1>6, <1>7, <1>8, <1>9, <1>10, <1>11 DEF Next

\* The state is well-formed, and an address has a record exactly when the map
\* holds it: nothing is ever taken out of the map.
THEOREM ConsensusTypeCorrect == Spec => []TypeOK
<1>1. QED
  BY TypeInit, TypeStep, PTL DEF Spec

-----------------------------------------------------------------------------
(* Reputation and activity.                                                *)

\* Reputation, by which isValidatorActive judges too, never leaves 100:
\* updateValidatorStats only ever adds to it.
ReputationIsFull ==
  \A a \in Addresses, o \in Callers :
    objects[a][o] # None => objects[a][o].reputation = 100

LEMMA ReputationStep == TypeOK /\ ReputationIsFull /\ [Next]_vars => ReputationIsFull'
<1> SUFFICES ASSUME TypeOK, ReputationIsFull, [Next]_vars PROVE ReputationIsFull'
  OBVIOUS
<1> USE ConsensusAssumption
<1>1. ASSUME NEW o \in Callers, CompleteRegistration(o) PROVE ReputationIsFull'
  <2> DEFINE a == call[o].address
             r == [stake |-> call[o].stake, blocksMined |-> 0,
                   lastActive |-> call[o].lastActive, reputation |-> 100]
  <2>1. r.reputation = 100
    OBVIOUS
  <2>2. objects' = [objects EXCEPT ![a][o] = r]
    BY <1>1 DEF CompleteRegistration
  <2> HIDE DEF a, r
  <2>3. QED
    BY <2>1, <2>2 DEF TypeOK, ReputationIsFull
<1>2. ASSUME NEW o \in Callers, AcceptBlock(o) PROVE ReputationIsFull'
  <2> DEFINE a == call[o].address
             p == validators[a]
  <2>1. a \in Addresses /\ p \in Callers /\ objects[a][p] \in Records
    BY <1>2, ValidatedIsRegistered DEF AcceptBlock
  <2>2. PICK q \in Qualities :
          objects' = [objects EXCEPT ![a][p] = updateValidatorStats(objects[a][p], q)]
    BY <1>2 DEF AcceptBlock
  <2>3. objects[a][p].reputation = 100
    BY <2>1 DEF ReputationIsFull
  <2>4. Clamped(100 + q) = 100
    BY DEF Qualities, Clamped
  <2>5. updateValidatorStats(objects[a][p], q).reputation = 100
    BY <2>1, <2>3, <2>4 DEF updateValidatorStats, Records
  <2> HIDE DEF a, p
  <2>6. QED
    BY <2>1, <2>2, <2>5 DEF TypeOK, ReputationIsFull
<1>3. CASE UNCHANGED objects
  BY <1>3 DEF ReputationIsFull
<1>4. QED
  BY <1>1, <1>2, <1>3
     DEF Next, vars, registry, Tick, RecordEpoch, DistributeNothing,
         registerValidator, validateBlock, GiveUp, distributeRewards, PayReward

\* updateValidatorStats only adds to a reputation that starts at its maximum,
\* so isValidatorActive judges by the time alone.
THEOREM ReputationStaysFull == Spec => []ReputationIsFull
<1>1. Init => ReputationIsFull
  BY DEF Init, ReputationIsFull
<1>2. QED
  BY <1>1, ConsensusTypeCorrect, ReputationStep, PTL DEF Spec

LEMMA InactiveStep ==
  ASSUME TypeOK, [Next]_vars, NEW a \in Addresses, OneRecord(a), ~Active(a)
  PROVE  ~Active(a)'
<1> USE ConsensusAssumption
<1>1. CASE Tick
  <2>1. Current(a) \in Records
    BY DEF TypeOK, OneRecord, Registered, Current
  <2>2. now' = now + 1 /\ now \in Nat
    BY <1>1 DEF Tick, TypeOK
  <2>3. QED
    BY <1>1, <2>1, <2>2
       DEF Tick, registry, OneRecord, Active, isValidatorActive, Registered, Current,
           Records
<1>2. ASSUME NEW o \in Callers, CompleteRegistration(o) PROVE ~Active(a)'
  <2>1. call[o].address # a /\ call[o].address \in Addresses
    <3>1. call[o] \in Calls
      BY DEF TypeOK
    <3>2. QED
      BY <1>2, <3>1, CallFields DEF CompleteRegistration, OneRecord
  <2>2. objects'[a] = objects[a] /\ validators'[a] = validators[a] /\ now' = now
    BY <1>2, <2>1 DEF CompleteRegistration, TypeOK
  <2>3. QED
    BY <2>2 DEF Active, isValidatorActive, Registered, Current
<1>3. ASSUME NEW o \in Callers, AcceptBlock(o) PROVE ~Active(a)'
  <2>1. /\ call[o].address \in Addresses /\ call[o].object \in Callers
        /\ objects[call[o].address][call[o].object] # None
    BY <1>3, ValidatedIsRegistered DEF AcceptBlock, TypeOK
  <2>2. call[o].address # a
    <3> SUFFICES ASSUME call[o].address = a PROVE FALSE
      OBVIOUS
    <3>1. call[o].object = validators[a]
      BY <2>1 DEF OneRecord
    <3>2. QED
      BY <1>3, <3>1 DEF AcceptBlock, Active, OneRecord, Current
  <2>3. objects'[a] = objects[a] /\ validators' = validators /\ now' = now
    <3>1. PICK q \in Qualities :
            objects' = [objects EXCEPT
              ![call[o].address][validators[call[o].address]] =
                updateValidatorStats(@, q)]
      BY <1>3 DEF AcceptBlock
    <3>2. QED
      BY <1>3, <2>1, <2>2, <3>1 DEF AcceptBlock, TypeOK
  <2>4. QED
    BY <2>3 DEF Active, isValidatorActive, Registered, Current
<1>4. CASE UNCHANGED <<now, objects, validators>>
  BY <1>4 DEF Active, isValidatorActive, Registered, Current
<1>5. QED
  BY <1>1, <1>2, <1>3, <1>4
     DEF Next, vars, registry, RecordEpoch, DistributeNothing,
         registerValidator, validateBlock, GiveUp, distributeRewards, PayReward

\* An inactive validator never validates a block again, however calls overlap,
\* unless its registrations did.
THEOREM InactiveForGood == Spec => StaysInactive
<1>1. TypeOK /\ [Next]_vars =>
        [\A a \in Addresses : OneRecord(a) /\ ~Active(a) => ~Active(a)']_vars
  BY InactiveStep
<1>2. QED
  BY <1>1, ConsensusTypeCorrect, PTL DEF Spec, StaysInactive

-----------------------------------------------------------------------------
(* Epochs.                                                                 *)

\* A distribution that is under way has paid everyone it need not pay any more.
PaidSoFar ==
  \A o \in Callers : call[o].at = "paying" =>
    \A a \in due[call[o].epoch] \ call[o].rest : paid[call[o].epoch][a] >= 1

\* Whoever has a payment due is among those a distribution pays, now and later:
\* a record is never taken out of the map. The first distribution decides.
DueInv ==
  /\ \A e \in Epochs, a \in Addresses :
       a \in due[e] => a \in EpochBlocks[e] /\ Registered(a)
  /\ \A e \in Epochs : distributions[e] = 0 => due[e] = {}
  /\ \A o \in Callers : call[o].at = "paying" => distributions[call[o].epoch] # 0

\* Payments only add up.
LEMMA PaymentAdds ==
  ASSUME TypeOK, NEW o \in Callers, NEW b \in Addresses, PayReward(o, b)
  PROVE  /\ call[o].epoch \in Epochs
         /\ \A e \in Epochs, a \in Addresses : paid[e][a] >= 1 => paid'[e][a] >= 1
         /\ paid'[call[o].epoch][b] >= 1
<1>1. call[o].epoch \in Epochs
  BY CallFields DEF PayReward, TypeOK
<1>2. paid \in [Epochs -> [Addresses -> Nat]]
  BY DEF TypeOK
<1>3. paid' = [paid EXCEPT ![call[o].epoch][b] = @ + 1]
  BY DEF PayReward
<1>4. QED
  BY <1>1, <1>2, <1>3

SettledInv == PaidSoFar /\ DueInv /\ EpochSettled

LEMMA SettledStep == TypeOK /\ SettledInv /\ [Next]_vars => SettledInv'
<1> SUFFICES ASSUME TypeOK, SettledInv, [Next]_vars PROVE SettledInv'
  OBVIOUS
<1> USE ConsensusAssumption
<1>k. \A o \in Callers : call[o] \in Calls
  BY DEF TypeOK
<1>i. Idle.at = "idle"
  BY DEF Idle
<1>1. ASSUME NEW o \in Callers, NEW e \in Epochs, distributeRewards(o, e)
      PROVE  SettledInv'
  <2> DEFINE c == [at |-> "paying", epoch |-> e, rest |-> Rewarded(e)]
  <2>1. /\ call' = [call EXCEPT ![o] = c]
        /\ epochBlocks' = epochBlocks /\ paid' = paid /\ validators' = validators
        /\ distributions' = [distributions EXCEPT ![e] = @ + 1]
        /\ due' = IF distributions[e] = 0 THEN [due EXCEPT ![e] = Rewarded(e)] ELSE due
        /\ epochBlocks[e] = "recorded"
    BY <1>1 DEF distributeRewards, Become, registry, Rewarded
  <2>2. c.at = "paying" /\ c.epoch = e /\ c.rest = Rewarded(e)
    OBVIOUS
  <2> HIDE DEF c
  <2>3. call'[o] = c /\ \A p \in Callers \ {o} : call'[p] = call[p]
    BY <2>1 DEF TypeOK
  <2>4. /\ distributions'[e] # 0
        /\ \A f \in Epochs : distributions[f] # 0 => distributions'[f] # 0
        /\ \A f \in Epochs \ {e} : distributions'[f] = distributions[f]
    BY <2>1 DEF TypeOK
  <2>5. /\ \A f \in Epochs \ {e} : due'[f] = due[f]
        /\ distributions[e] # 0 => due'[e] = due[e]
        /\ distributions[e] = 0 => due'[e] = Rewarded(e)
    BY <2>1 DEF TypeOK
  <2>6. due'[e] \subseteq Rewarded(e)
    <3>1. CASE distributions[e] = 0
      BY <3>1, <2>5
    <3>2. CASE distributions[e] # 0
      <4>1. due'[e] \in SUBSET Addresses
        BY <2>5, <3>2 DEF TypeOK
      <4>2. QED
        BY <2>1, <2>5, <3>2, <4>1 DEF SettledInv, DueInv, Rewarded
    <3>3. QED
      BY <3>1, <3>2
  <2>7. PaidSoFar'
    <3> SUFFICES ASSUME NEW p \in Callers, call'[p].at = "paying",
                        NEW a \in due'[call'[p].epoch] \ call'[p].rest
                 PROVE  paid'[call'[p].epoch][a] >= 1
      BY DEF PaidSoFar
    <3>1. CASE p = o
      BY <2>2, <2>3, <2>6, <3>1
    <3>2. CASE p # o
      <4>1. call'[p] = call[p] /\ call[p].epoch \in Epochs
        BY <2>3, <3>2, <1>k, CallFields
      <4>2. distributions[call[p].epoch] # 0
        BY <4>1 DEF SettledInv, DueInv
      <4>3. due'[call[p].epoch] = due[call[p].epoch]
        BY <4>1, <4>2, <2>5
      <4>4. QED
        BY <2>1, <4>1, <4>3 DEF SettledInv, PaidSoFar
    <3>3. QED
      BY <3>1, <3>2
  <2>8. DueInv'
    <3>1. \A f \in Epochs, a \in Addresses :
            a \in due'[f] => a \in EpochBlocks[f] /\ Registered(a)'
      BY <2>1, <2>5, <2>6 DEF SettledInv, DueInv, Rewarded, Registered
    <3>2. \A f \in Epochs : distributions'[f] = 0 => due'[f] = {}
      BY <2>4, <2>5 DEF SettledInv, DueInv
    <3>3. ASSUME NEW p \in Callers, call'[p].at = "paying"
          PROVE  distributions'[call'[p].epoch] # 0
      <4>1. CASE p = o
        BY <2>2, <2>3, <2>4, <4>1
      <4>2. CASE p # o
        BY <2>3, <2>4, <3>3, <4>2, <1>k, CallFields DEF SettledInv, DueInv
      <4>3. QED
        BY <4>1, <4>2
    <3>4. QED
      BY <3>1, <3>2, <3>3 DEF DueInv
  <2>9. EpochSettled'
    BY <2>1, <2>5 DEF SettledInv, EpochSettled
  <2>10. QED
    BY <2>7, <2>8, <2>9 DEF SettledInv
<1>2. ASSUME NEW o \in Callers, NEW b \in Addresses, PayReward(o, b) PROVE SettledInv'
  <2> DEFINE e == call[o].epoch
  <2>1. /\ e \in Epochs
        /\ \A f \in Epochs, a \in Addresses : paid[f][a] >= 1 => paid'[f][a] >= 1
        /\ paid'[e][b] >= 1
    BY <1>2, PaymentAdds
  <2>2. /\ due' = due /\ distributions' = distributions /\ validators' = validators
        /\ \A f \in Epochs : due[f] \subseteq Addresses
    BY <1>2 DEF PayReward, registry, TypeOK
  <2>3. \A a \in due[e] \ (call[o].rest \ {b}) : paid'[e][a] >= 1
    BY <1>2, <2>1, <2>2 DEF SettledInv, PaidSoFar, PayReward
  <2>c. /\ \A p \in Callers \ {o} : call'[p] = call[p]
        /\ call'[o].at = "paying" =>
             call'[o].epoch = e /\ call'[o].rest = call[o].rest \ {b}
    <3>1. CASE IsLast(o, b)
      <4>1. call' = [call EXCEPT ![o] = Idle]
        BY <1>2, <3>1 DEF PayReward, Become
      <4>2. QED
        BY <4>1, <1>i DEF TypeOK
    <3>2. CASE ~IsLast(o, b)
      <4>1. call' = [call EXCEPT ![o] = [call[o] EXCEPT !.rest = @ \ {b}]]
        BY <1>2, <3>2 DEF PayReward, Become
      <4>2. call[o] \in [at : {"paying"}, epoch : Epochs, rest : SUBSET Addresses]
        BY <1>2, <1>k DEF PayReward, Calls, Idle
      <4>3. QED
        BY <4>1, <4>2 DEF TypeOK
    <3>3. QED
      BY <3>1, <3>2
  <2>4. PaidSoFar'
    <3> SUFFICES ASSUME NEW p \in Callers, call'[p].at = "paying",
                        NEW a \in due'[call'[p].epoch] \ call'[p].rest
                 PROVE  paid'[call'[p].epoch][a] >= 1
      BY DEF PaidSoFar
    <3>1. CASE p = o
      BY <3>1, <2>2, <2>3, <2>c
    <3>2. CASE p # o
      <4>1. call'[p] = call[p] /\ call[p].epoch \in Epochs
        BY <2>c, <3>2, <1>k, CallFields
      <4>2. QED
        BY <4>1, <2>1, <2>2 DEF SettledInv, PaidSoFar
    <3>3. QED
      BY <3>1, <3>2
  <2>d. DueInv'
    <3>1. \A p \in Callers : call'[p].at = "paying" => distributions[call'[p].epoch] # 0
      BY <1>2, <2>c DEF SettledInv, DueInv, PayReward
    <3>2. QED
      BY <2>2, <3>1 DEF SettledInv, DueInv, Registered
  <2>5. EpochSettled'
    <3> SUFFICES ASSUME NEW f \in Epochs, epochBlocks'[f] = "deleted",
                        NEW a \in due[f]
                 PROVE  paid'[f][a] >= 1
      BY <2>2 DEF EpochSettled
    <3>1. CASE epochBlocks[f] = "deleted"
      BY <3>1, <2>1, <2>2 DEF SettledInv, EpochSettled
    <3>2. CASE epochBlocks[f] # "deleted"
      <4>1. f = e /\ call[o].rest = {b}
        BY <1>2, <3>2, <2>1 DEF PayReward, IsLast, TypeOK
      <4>2. QED
        BY <4>1, <2>3
    <3>3. QED
      BY <3>1, <3>2
  <2>6. QED
    BY <2>4, <2>d, <2>5 DEF SettledInv
<1>3. ASSUME NEW e \in Epochs, RecordEpoch(e) PROVE SettledInv'
  BY <1>3 DEF TypeOK, SettledInv, PaidSoFar, DueInv, EpochSettled, RecordEpoch,
              registry, Registered
<1>4. ASSUME UNCHANGED rewards,
             \A a \in Addresses : Registered(a) => Registered(a)',
             \A p \in Callers : call'[p].at = "paying" => call'[p] = call[p]
      PROVE  SettledInv'
  BY <1>4 DEF SettledInv, PaidSoFar, DueInv, EpochSettled, rewards
<1>5. ASSUME NEW e \in Epochs, DistributeNothing(e) PROVE SettledInv'
  <2>1. /\ UNCHANGED <<paid, distributions, due, call, validators>>
        /\ \A f \in Epochs : epochBlocks'[f] = "deleted" =>
             epochBlocks[f] = "deleted" \/ (f = e /\ epochBlocks[e] = "recorded")
    BY <1>5 DEF DistributeNothing, registry, TypeOK
  <2>2. epochBlocks[e] = "recorded" => due[e] = {}
    <3>1. due[e] \in SUBSET Addresses
      BY DEF TypeOK
    <3>2. QED
      BY <1>5, <3>1 DEF DistributeNothing, Rewarded, SettledInv, DueInv
  <2>3. EpochSettled'
    BY <2>1, <2>2 DEF SettledInv, EpochSettled
  <2>4. PaidSoFar' /\ DueInv'
    BY <2>1 DEF SettledInv, PaidSoFar, DueInv, Registered
  <2>5. QED
    BY <2>3, <2>4 DEF SettledInv
<1>6. CASE Tick \/ UNCHANGED vars
  BY <1>4, <1>6 DEF Tick, vars, registry, Registered
<1>7. ASSUME NEW o \in Callers,
             \/ \E a \in Addresses : \E stake \in Stakes[a] :
                  registerValidator(o, a, stake)
             \/ CompleteRegistration(o)
             \/ \E a \in Addresses, p \in Callers : validateBlock(o, a, p)
             \/ AcceptBlock(o)
             \/ GiveUp(o)
      PROVE  SettledInv'
  <2>1. UNCHANGED rewards
    BY <1>7 DEF registerValidator, CompleteRegistration, validateBlock, AcceptBlock,
                GiveUp
  <2>2. \A p \in Callers : call'[p].at = "paying" => call'[p] = call[p]
    BY <1>7, <1>i DEF registerValidator, CompleteRegistration, validateBlock,
                      AcceptBlock, GiveUp, Become, TypeOK
  <2>3. \A a \in Addresses : Registered(a) => Registered(a)'
    <3>1. CASE CompleteRegistration(o)
      <4>1. validators' = [validators EXCEPT ![call[o].address] = o]
        BY <3>1 DEF CompleteRegistration
      <4>2. QED
        BY <4>1 DEF TypeOK, Registered
    <3>2. CASE UNCHANGED validators
      BY <3>2 DEF Registered
    <3>3. QED
      BY <1>7, <3>1, <3>2 DEF registerValidator, validateBlock, AcceptBlock, GiveUp,
                              registry
  <2>4. QED
    BY <1>4, <2>1, <2>2, <2>3
<1>8. QED
  BY <1>1, <1>2, <1>3, <1>5, <1>6, <1>7 DEF Next

\* Whoever mined in an epoch and had a record when it was first distributed has
\* been paid for it by the time the epoch is deleted, although any payment may
\* fail and distributions may overlap. (Whoever had none may go unpaid.)
THEOREM EpochsAreSettled == Spec => []EpochSettled
<1>1. Init => SettledInv
  BY DEF Init, SettledInv, PaidSoFar, DueInv, EpochSettled, Idle
<1>2. SettledInv => EpochSettled
  BY DEF SettledInv
<1>3. QED
  BY <1>1, <1>2, ConsensusTypeCorrect, SettledStep, PTL DEF Spec

-----------------------------------------------------------------------------
(* Payments.                                                               *)

\* The distributions under way, and those of them that have yet to pay a
\* validator for an epoch.
PayingCalls == {o \in Callers : call[o].at = "paying"}
Due(e, a) == {o \in PayingCalls : call[o].epoch = e /\ a \in call[o].rest}

\* A distribution stands for one payment to each validator with blocks: made,
\* still due, or given up. There are finitely many at a time, whatever Callers is.
PaymentInv ==
  /\ IsFiniteSet(PayingCalls)
  /\ \A o \in PayingCalls :
       /\ epochBlocks[call[o].epoch] # "none"
       /\ call[o].rest \subseteq EpochBlocks[call[o].epoch]
  /\ \A e \in Epochs, a \in Addresses :
       paid[e][a] + Cardinality(Due(e, a))
         =< IF a \in EpochBlocks[e] THEN distributions[e] ELSE 0

LEMMA DueIsFinite ==
  ASSUME IsFiniteSet(PayingCalls), NEW e, NEW a
  PROVE  IsFiniteSet(Due(e, a)) /\ Cardinality(Due(e, a)) \in Nat
<1>1. Due(e, a) \in SUBSET PayingCalls
  BY DEF Due
<1>2. IsFiniteSet(Due(e, a))
  BY <1>1, FS_Subset
<1>3. QED
  BY <1>2, FS_CardinalityType

\* A distribution that is begun owes each of its validators one payment.
LEMMA BeginningOwes ==
  ASSUME TypeOK, PaymentInv, NEW o \in Callers, NEW e \in Epochs,
         distributeRewards(o, e)
  PROVE  PaymentInv'
<1> USE ConsensusAssumption
<1> DEFINE c == [at |-> "paying", epoch |-> e, rest |-> Rewarded(e)]
<1>1. /\ call' = [call EXCEPT ![o] = c]
      /\ distributions' = [distributions EXCEPT ![e] = @ + 1]
      /\ UNCHANGED <<epochBlocks, paid>>
      /\ epochBlocks[e] = "recorded"
      /\ o \notin PayingCalls
      /\ Rewarded(e) \subseteq EpochBlocks[e]
  BY DEF distributeRewards, Become, PayingCalls, Idle, Rewarded
<1>2. c.at = "paying" /\ c.epoch = e /\ c.rest = Rewarded(e)
  OBVIOUS
<1> HIDE DEF c
<1>3. /\ call'[o] = c
      /\ \A p \in Callers \ {o} : call'[p] = call[p]
  BY <1>1 DEF TypeOK
<1>4. PayingCalls' = PayingCalls \cup {o}
  BY <1>2, <1>3 DEF PayingCalls
<1>5. IsFiniteSet(PayingCalls)'
  BY <1>4, FS_AddElement DEF PaymentInv
<1>6. ASSUME NEW p \in PayingCalls'
      PROVE  /\ epochBlocks'[call'[p].epoch] # "none"
             /\ call'[p].rest \subseteq EpochBlocks[call'[p].epoch]
  <2>1. CASE p = o
    BY <1>1, <1>2, <1>3, <2>1
  <2>2. CASE p # o
    BY <1>1, <1>3, <1>4, <1>6, <2>2 DEF PaymentInv, PayingCalls
  <2>3. QED
    BY <2>1, <2>2
<1>7. ASSUME NEW f \in Epochs, NEW a \in Addresses
      PROVE  paid'[f][a] + Cardinality(Due(f, a)')
               =< IF a \in EpochBlocks[f] THEN distributions'[f] ELSE 0
  <2>1. /\ paid[f][a] \in Nat /\ distributions[f] \in Nat
        /\ paid'[f][a] = paid[f][a]
        /\ paid[f][a] + Cardinality(Due(f, a))
             =< IF a \in EpochBlocks[f] THEN distributions[f] ELSE 0
    BY <1>1 DEF TypeOK, PaymentInv
  <2>2. IsFiniteSet(Due(f, a)) /\ Cardinality(Due(f, a)) \in Nat
    BY DueIsFinite DEF PaymentInv
  <2>3. CASE f = e /\ a \in Rewarded(e)
    <3>1. Due(f, a)' = Due(f, a) \cup {o} /\ o \notin Due(f, a)
      BY <1>1, <1>2, <1>3, <1>4, <2>3 DEF Due, PayingCalls
    <3>2. Cardinality(Due(f, a)') = Cardinality(Due(f, a)) + 1
      BY <2>2, <3>1, FS_AddElement
    <3>3. distributions'[f] = distributions[f] + 1
      BY <1>1, <2>3 DEF TypeOK
    <3>4. QED
      BY <1>1, <2>1, <2>2, <2>3, <3>2, <3>3
  <2>4. CASE ~(f = e /\ a \in Rewarded(e))
    <3>1. Due(f, a)' = Due(f, a)
      BY <1>1, <1>2, <1>3, <1>4, <2>4 DEF Due, PayingCalls
    <3>2. distributions'[f] \in Nat /\ distributions'[f] >= distributions[f]
      BY <1>1 DEF TypeOK
    <3>3. QED
      BY <2>1, <2>2, <3>1, <3>2
  <2>5. QED
    BY <2>3, <2>4
<1>8. QED
  BY <1>5, <1>6, <1>7 DEF PaymentInv

\* The epoch and what is left of a call that pays, and what a payment leaves.
LEMMA PaymentFields ==
  ASSUME TypeOK, PaymentInv, NEW o \in Callers, NEW b \in Addresses, PayReward(o, b),
         NEW e, e = call[o].epoch
  PROVE  /\ e \in Epochs /\ epochBlocks[e] # "none"
         /\ o \in PayingCalls /\ b \in call[o].rest /\ b \in EpochBlocks[e]
         /\ paid' = [paid EXCEPT ![e][b] = @ + 1]
         /\ \A p \in Callers \ {o} : call'[p] = call[p]
         /\ \/ /\ call[o].rest = {b} /\ call'[o] = Idle
               /\ epochBlocks' = [epochBlocks EXCEPT ![e] = "deleted"]
            \/ /\ call'[o].at = "paying" /\ call'[o].epoch = e
               /\ call'[o].rest = call[o].rest \ {b}
               /\ epochBlocks' = epochBlocks
<1>1. call[o] \in [at : {"paying"}, epoch : Epochs, rest : SUBSET Addresses]
  BY DEF PayReward, TypeOK, Calls, Idle
<1>2. o \in PayingCalls /\ b \in call[o].rest
  BY DEF PayReward, PayingCalls
<1>3. epochBlocks[e] # "none" /\ b \in EpochBlocks[e]
  BY <1>2 DEF PaymentInv
<1>4. paid' = [paid EXCEPT ![e][b] = @ + 1]
  BY DEF PayReward
<1>5. CASE IsLast(o, b)
  <2>1. /\ call' = [call EXCEPT ![o] = Idle]
        /\ epochBlocks' = [epochBlocks EXCEPT ![e] = "deleted"]
        /\ call[o].rest = {b}
    BY <1>5 DEF PayReward, Become, IsLast
  <2>2. QED
    BY <1>1, <1>2, <1>3, <1>4, <2>1 DEF TypeOK
<1>6. CASE ~IsLast(o, b)
  <2> DEFINE c == [call[o] EXCEPT !.rest = @ \ {b}]
  <2>1. call' = [call EXCEPT ![o] = c] /\ epochBlocks' = epochBlocks
    BY <1>6 DEF PayReward, Become
  <2>2. c.at = "paying" /\ c.epoch = e /\ c.rest = call[o].rest \ {b}
    BY <1>1
  <2> HIDE DEF c
  <2>3. QED
    BY <1>1, <1>2, <1>3, <1>4, <2>1, <2>2 DEF TypeOK
<1>7. QED
  BY <1>5, <1>6

\* A payment takes the place of one that was due.
LEMMA PayingKeeps ==
  ASSUME TypeOK, PaymentInv, NEW o \in Callers, NEW b \in Addresses, PayReward(o, b)
  PROVE  PaymentInv'
<1> PICK e : e = call[o].epoch
  OBVIOUS
<1>1. /\ e \in Epochs /\ epochBlocks[e] # "none"
      /\ o \in PayingCalls /\ b \in call[o].rest /\ b \in EpochBlocks[e]
      /\ paid' = [paid EXCEPT ![e][b] = @ + 1]
      /\ \A p \in Callers \ {o} : call'[p] = call[p]
  BY PaymentFields
<1>2. \/ /\ call[o].rest = {b} /\ call'[o] = Idle
         /\ epochBlocks' = [epochBlocks EXCEPT ![e] = "deleted"]
      \/ /\ call'[o].at = "paying" /\ call'[o].epoch = e
         /\ call'[o].rest = call[o].rest \ {b}
         /\ epochBlocks' = epochBlocks
  BY PaymentFields
<1>3. distributions' = distributions
  BY DEF PayReward
<1>i. Idle.at = "idle"
  BY DEF Idle
<1>4. PayingCalls' \in SUBSET PayingCalls
  BY <1>1 DEF PayingCalls
<1>5. IsFiniteSet(PayingCalls)'
  BY <1>4, FS_Subset DEF PaymentInv
<1>6. \A f \in Epochs : epochBlocks[f] # "none" => epochBlocks'[f] # "none"
  BY <1>1, <1>2 DEF TypeOK
<1>7. ASSUME NEW p \in PayingCalls'
      PROVE  /\ epochBlocks'[call'[p].epoch] # "none"
             /\ call'[p].rest \subseteq EpochBlocks[call'[p].epoch]
  <2>1. p \in PayingCalls /\ p \in Callers
    BY <1>4 DEF PayingCalls
  <2>2. /\ call[p].epoch \in Epochs /\ epochBlocks[call[p].epoch] # "none"
        /\ call[p].rest \subseteq EpochBlocks[call[p].epoch]
    BY <2>1, CallFields DEF PaymentInv, TypeOK, PayingCalls
  <2>3. call'[p].epoch = call[p].epoch /\ call'[p].rest \subseteq call[p].rest
    <3>1. CASE p = o
      <4>1. call'[o].at = "paying"
        BY <3>1 DEF PayingCalls
      <4>2. QED
        BY <1>2, <1>i, <3>1, <4>1
    <3>2. CASE p # o
      BY <1>1, <2>1, <3>2
    <3>3. QED
      BY <3>1, <3>2
  <2>4. QED
    BY <1>6, <2>2, <2>3
<1>8. ASSUME NEW f \in Epochs, NEW a \in Addresses
      PROVE  paid'[f][a] + Cardinality(Due(f, a)')
               =< IF a \in EpochBlocks[f] THEN distributions'[f] ELSE 0
  <2>1. /\ paid[f][a] \in Nat /\ distributions[f] \in Nat
        /\ paid[f][a] + Cardinality(Due(f, a))
             =< IF a \in EpochBlocks[f] THEN distributions[f] ELSE 0
    BY DEF TypeOK, PaymentInv
  <2>2. IsFiniteSet(Due(f, a)) /\ Cardinality(Due(f, a)) \in Nat
    BY DueIsFinite DEF PaymentInv
  <2>3. CASE f = e /\ a = b
    <3>1. Due(f, a)' = Due(f, a) \ {o} /\ o \in Due(f, a)
      BY <1>1, <1>2, <1>i, <2>3 DEF Due, PayingCalls
    <3>2. Cardinality(Due(f, a)') = Cardinality(Due(f, a)) - 1
      BY <2>2, <3>1, FS_RemoveElement
    <3>3. paid'[f][a] = paid[f][a] + 1
      BY <1>1, <2>3 DEF TypeOK
    <3>4. QED
      BY <1>3, <2>1, <2>2, <3>2, <3>3
  <2>4. CASE ~(f = e /\ a = b)
    <3>1. Due(f, a)' = Due(f, a)
      BY <1>1, <1>2, <1>i, <2>4 DEF Due, PayingCalls
    <3>2. paid'[f][a] = paid[f][a]
      BY <1>1, <2>4 DEF TypeOK
    <3>3. QED
      BY <1>3, <2>1, <3>1, <3>2
  <2>5. QED
    BY <2>3, <2>4
<1>9. QED
  BY <1>5, <1>7, <1>8 DEF PaymentInv

\* A distribution that is given up owes nothing any more.
LEMMA GivingUpOwesLess ==
  ASSUME TypeOK, PaymentInv, NEW o \in Callers, GiveUp(o)
  PROVE  PaymentInv'
<1>1. /\ call' = [call EXCEPT ![o] = Idle]
      /\ UNCHANGED <<epochBlocks, paid, distributions>>
  BY DEF GiveUp, Become, rewards
<1>2. Idle.at = "idle"
  BY DEF Idle
<1>3. PayingCalls' \in SUBSET PayingCalls /\ \A p \in PayingCalls' : call'[p] = call[p]
  BY <1>1, <1>2 DEF PayingCalls, TypeOK
<1>4. IsFiniteSet(PayingCalls)'
  BY <1>3, FS_Subset DEF PaymentInv
<1>5. ASSUME NEW f \in Epochs, NEW a \in Addresses
      PROVE  paid'[f][a] + Cardinality(Due(f, a)')
               =< IF a \in EpochBlocks[f] THEN distributions'[f] ELSE 0
  <2>1. /\ paid[f][a] \in Nat /\ distributions[f] \in Nat
        /\ paid[f][a] + Cardinality(Due(f, a))
             =< IF a \in EpochBlocks[f] THEN distributions[f] ELSE 0
    BY DEF TypeOK, PaymentInv
  <2>2. IsFiniteSet(Due(f, a)) /\ Cardinality(Due(f, a)) \in Nat
    BY DueIsFinite DEF PaymentInv
  <2>3. Due(f, a)' \in SUBSET Due(f, a)
    BY <1>3 DEF Due
  <2>4. IsFiniteSet(Due(f, a)') /\ Cardinality(Due(f, a)') =< Cardinality(Due(f, a))
    BY <2>2, <2>3, FS_Subset
  <2>5. Cardinality(Due(f, a)') \in Nat
    BY <2>4, FS_CardinalityType
  <2>6. QED
    BY <1>1, <2>1, <2>2, <2>4, <2>5
<1>6. QED
  BY <1>1, <1>3, <1>4, <1>5 DEF PaymentInv

LEMMA PaymentStep == TypeOK /\ PaymentInv /\ [Next]_vars => PaymentInv'
<1> SUFFICES ASSUME TypeOK, PaymentInv, [Next]_vars PROVE PaymentInv'
  OBVIOUS
<1>i. Idle.at = "idle"
  BY DEF Idle
<1>1. ASSUME UNCHANGED <<paid, distributions>>,
             \A e \in Epochs : epochBlocks[e] # "none" => epochBlocks'[e] # "none",
             PayingCalls' = PayingCalls,
             \A o \in PayingCalls : call'[o] = call[o]
      PROVE  PaymentInv'
  <2>1. \A o \in PayingCalls : call[o].epoch \in Epochs
    BY CallFields DEF PayingCalls, TypeOK
  <2>2. \A e \in Epochs, a \in Addresses : Due(e, a)' = Due(e, a)
    BY <1>1 DEF Due
  <2>3. QED
    BY <1>1, <2>1, <2>2 DEF PaymentInv
<1>2. ASSUME NEW o \in Callers,
             \/ \E a \in Addresses : \E stake \in Stakes[a] :
                  registerValidator(o, a, stake)
             \/ CompleteRegistration(o)
             \/ \E a \in Addresses, p \in Callers : validateBlock(o, a, p)
             \/ AcceptBlock(o)
      PROVE  PaymentInv'
  <2>1. UNCHANGED <<epochBlocks, paid, distributions>>
    BY <1>2 DEF registerValidator, CompleteRegistration, validateBlock, AcceptBlock,
                rewards
  <2>2. /\ call[o].at # "paying" /\ call'[o].at # "paying"
        /\ \A p \in Callers \ {o} : call'[p] = call[p]
    BY <1>2, <1>i DEF registerValidator, CompleteRegistration, validateBlock,
                      AcceptBlock, Become, TypeOK
  <2>3. PayingCalls' = PayingCalls /\ \A p \in PayingCalls : call'[p] = call[p]
    BY <2>2 DEF PayingCalls
  <2>4. QED
    BY <1>1, <2>1, <2>3
<1>3. ASSUME NEW e \in Epochs, RecordEpoch(e) PROVE PaymentInv'
  <2>1. \A f \in Epochs : epochBlocks[f] # "none" => epochBlocks'[f] # "none"
    BY <1>3 DEF RecordEpoch, TypeOK
  <2>2. PayingCalls' = PayingCalls
    BY <1>3 DEF RecordEpoch, PayingCalls
  <2>3. QED
    BY <1>1, <1>3, <2>1, <2>2 DEF RecordEpoch
<1>4. CASE UNCHANGED <<epochBlocks, paid, distributions, call>>
  BY <1>1, <1>4 DEF PayingCalls
<1>5. CASE Tick \/ UNCHANGED vars
  BY <1>4, <1>5 DEF Tick, vars, rewards
<1>6. ASSUME NEW e \in Epochs, DistributeNothing(e) PROVE PaymentInv'
  <2>1. \A f \in Epochs : epochBlocks[f] # "none" => epochBlocks'[f] # "none"
    BY <1>6 DEF DistributeNothing, TypeOK
  <2>2. PayingCalls' = PayingCalls
    BY <1>6 DEF DistributeNothing, PayingCalls
  <2>3. QED
    BY <1>1, <1>6, <2>1, <2>2 DEF DistributeNothing
<1>7. QED
  BY <1>2, <1>3, <1>5, <1>6, BeginningOwes, PayingKeeps, GivingUpOwesLess DEF Next

LEMMA PaymentInit == Init => PaymentInv
<1> SUFFICES ASSUME Init PROVE PaymentInv
  OBVIOUS
<1>1. PayingCalls = {}
  BY DEF Init, PayingCalls, Idle
<1>2. \A e \in Epochs, a \in Addresses : Due(e, a) = {} /\ paid[e][a] = 0
  BY <1>1 DEF Init, Due
<1>3. IsFiniteSet(PayingCalls)
  BY <1>1, FS_EmptySet
<1>4. ASSUME NEW e \in Epochs, NEW a \in Addresses
      PROVE  paid[e][a] + Cardinality(Due(e, a))
               =< IF a \in EpochBlocks[e] THEN distributions[e] ELSE 0
  <2>1. Cardinality(Due(e, a)) = 0
    BY <1>2, FS_EmptySet
  <2>2. paid[e][a] = 0 /\ distributions[e] = 0
    BY DEF Init
  <2>3. QED
    BY <2>1, <2>2
<1>5. QED
  BY <1>1, <1>3, <1>4 DEF PaymentInv

LEMMA PaymentsAreCovered == TypeOK /\ PaymentInv => PaidByDistributions
<1> SUFFICES ASSUME TypeOK, PaymentInv, NEW e \in Epochs, NEW a \in Addresses
             PROVE  paid[e][a] =< IF a \in EpochBlocks[e] THEN distributions[e] ELSE 0
  BY DEF PaidByDistributions
<1>1. Cardinality(Due(e, a)) \in Nat
  BY DueIsFinite DEF PaymentInv
<1>2. QED
  BY <1>1 DEF TypeOK, PaymentInv

\* However many distributions of an epoch overlap, fail half-way and are made
\* again, none pays anyone twice: payments are bounded by distributions.
THEOREM PaidOncePerDistribution == Spec => []PaidByDistributions
<1>1. QED
  BY ConsensusTypeCorrect, PaymentInit, PaymentStep, PaymentsAreCovered, PTL DEF Spec

\* An epoch that was distributed once, and whose distribution came to its end,
\* has paid each address it had blocks and a record of exactly once, and nobody
\* without blocks.
PaidExactlyOnce ==
  \A e \in Epochs : epochBlocks[e] = "deleted" /\ distributions[e] = 1 =>
    /\ \A a \in due[e] : paid[e][a] = 1
    /\ \A a \in Addresses : paid[e][a] =< IF a \in EpochBlocks[e] THEN 1 ELSE 0

\* Undisturbed, distributeRewards pays exactly once whoever had a record when it
\* began: at least once since the epoch is deleted last, at most once since
\* there was one distribution.
THEOREM OneDistributionPaysOnce == Spec => []PaidExactlyOnce
<1>1. TypeOK /\ SettledInv /\ PaidByDistributions => PaidExactlyOnce
  <2> SUFFICES ASSUME TypeOK, SettledInv, PaidByDistributions,
                      NEW e \in Epochs, epochBlocks[e] = "deleted",
                      distributions[e] = 1, NEW a \in Addresses
               PROVE  /\ a \in due[e] => paid[e][a] = 1
                      /\ paid[e][a] =< IF a \in EpochBlocks[e] THEN 1 ELSE 0
    BY DEF PaidExactlyOnce, TypeOK
  <2>1. /\ paid[e][a] \in Nat
        /\ paid[e][a] =< IF a \in EpochBlocks[e] THEN 1 ELSE 0
    BY DEF TypeOK, PaidByDistributions
  <2>2. a \in due[e] => a \in EpochBlocks[e] /\ paid[e][a] >= 1
    BY DEF SettledInv, DueInv, EpochSettled
  <2>3. QED
    BY <2>1, <2>2
<1>2. Init => SettledInv
  BY DEF Init, SettledInv, PaidSoFar, DueInv, EpochSettled, Idle
<1>3. QED
  BY <1>1, <1>2, ConsensusTypeCorrect, SettledStep, PaidOncePerDistribution, PTL
     DEF Spec

-----------------------------------------------------------------------------
(* The payroll.                                                            *)

LEMMA PayrollInit == Init => Rewards!Init
BY DEF Init, Rewards!Init

\* A payment is one the payroll allows: it was due, so fewer have been made than
\* distributions begun; and if it deletes the epoch everyone has been paid.
LEMMA PaymentIsAllowed ==
  ASSUME TypeOK, PaymentInv, SettledInv', NEW o \in Callers, NEW b \in Addresses,
         PayReward(o, b)
  PROVE  \E e \in Epochs : Rewards!Pay(e, b)
<1> PICK e : e = call[o].epoch
  OBVIOUS
<1>1. /\ e \in Epochs /\ epochBlocks[e] # "none"
      /\ o \in PayingCalls /\ b \in call[o].rest /\ b \in EpochBlocks[e]
      /\ paid' = [paid EXCEPT ![e][b] = @ + 1]
      /\ \/ epochBlocks' = [epochBlocks EXCEPT ![e] = "deleted"]
         \/ epochBlocks' = epochBlocks
  BY PaymentFields
<1>2. paid[e][b] < distributions[e]
  <2>1. IsFiniteSet(Due(e, b)) /\ Cardinality(Due(e, b)) \in Nat
    BY DueIsFinite DEF PaymentInv
  <2>2. o \in Due(e, b)
    BY <1>1 DEF Due
  <2>3. Cardinality(Due(e, b)) # 0
    BY <2>1, <2>2, FS_EmptySet
  <2>4. /\ paid[e][b] \in Nat /\ distributions[e] \in Nat
        /\ paid[e][b] + Cardinality(Due(e, b)) =< distributions[e]
    BY <1>1 DEF TypeOK, PaymentInv
  <2>5. QED
    BY <2>1, <2>3, <2>4
<1>3. epochBlocks' = [epochBlocks EXCEPT ![e] = "deleted"] => Rewards!Settled(e)'
  <2> SUFFICES ASSUME epochBlocks' = [epochBlocks EXCEPT ![e] = "deleted"]
               PROVE  \A a \in due'[e] : paid'[e][a] >= 1
    BY DEF Rewards!Settled
  <2>1. epochBlocks'[e] = "deleted"
    BY <1>1 DEF TypeOK
  <2>2. QED
    BY <1>1, <2>1 DEF SettledInv, EpochSettled
<1>4. UNCHANGED <<due, distributions>>
  BY DEF PayReward
<1>5. Rewards!Delete(e) \/ UNCHANGED epochBlocks
  BY <1>1, <1>3 DEF Rewards!Delete, TypeOK
<1>6. Rewards!Pay(e, b)
  BY <1>1, <1>2, <1>4, <1>5 DEF Rewards!Pay
<1>7. QED
  BY <1>1, <1>6

LEMMA PayrollStep ==
  TypeOK /\ PaymentInv /\ SettledInv' /\ [Next]_vars
    => [Rewards!Next]_<<epochBlocks, due, distributions, paid>>
<1> SUFFICES ASSUME TypeOK, PaymentInv, SettledInv', [Next]_vars
             PROVE  \/ Rewards!Next
                    \/ UNCHANGED <<epochBlocks, due, distributions, paid>>
  OBVIOUS
<1>1. ASSUME NEW e \in Epochs, RecordEpoch(e) PROVE Rewards!Next
  BY <1>1 DEF RecordEpoch, Rewards!Next, Rewards!Record
<1>2. ASSUME NEW o \in Callers, NEW e \in Epochs, distributeRewards(o, e)
      PROVE  Rewards!Next
  <2>1. epochBlocks[e] = "recorded" /\ Rewarded(e) \in SUBSET EpochBlocks[e]
    BY <1>2 DEF distributeRewards, Rewarded
  <2>2. Rewards!Distribute(e)
    BY <1>2, <2>1 DEF distributeRewards, Rewards!Distribute
  <2>3. QED
    BY <2>2 DEF Rewards!Next
<1>3. ASSUME NEW o \in Callers, NEW b \in Addresses, PayReward(o, b)
      PROVE  Rewards!Next
  BY <1>3, PaymentIsAllowed DEF Rewards!Next
<1>4. CASE Tick \/ UNCHANGED vars
  BY <1>4 DEF Tick, vars, rewards
<1>d. ASSUME NEW e \in Epochs, DistributeNothing(e)
      PROVE  Rewards!Next \/ UNCHANGED <<epochBlocks, due, distributions, paid>>
  <2>1. UNCHANGED <<due, distributions, paid>>
    BY <1>d DEF DistributeNothing
  <2>2. CASE epochBlocks[e] # "recorded"
    BY <1>d, <2>1, <2>2 DEF DistributeNothing, TypeOK
  <2>3. CASE epochBlocks[e] = "recorded"
    <3>1. /\ epochBlocks' = [epochBlocks EXCEPT ![e] = "deleted"]
          /\ epochBlocks'[e] = "deleted"
      BY <1>d, <2>3 DEF DistributeNothing, TypeOK
    <3>2. Rewards!Settled(e)'
      BY <3>1 DEF SettledInv, EpochSettled, Rewards!Settled
    <3>3. QED
      BY <2>1, <2>3, <3>1, <3>2 DEF Rewards!Next, Rewards!Forget, Rewards!Delete
  <2>4. QED
    BY <2>2, <2>3
<1>5. ASSUME NEW o \in Callers,
             \/ \E a \in Addresses : \E stake \in Stakes[a] :
                  registerValidator(o, a, stake)
             \/ CompleteRegistration(o)
             \/ \E a \in Addresses, p \in Callers : validateBlock(o, a, p)
             \/ AcceptBlock(o)
             \/ GiveUp(o)
      PROVE  UNCHANGED <<epochBlocks, due, distributions, paid>>
  BY <1>5 DEF registerValidator, CompleteRegistration, validateBlock, AcceptBlock,
              GiveUp, rewards
<1>6. QED
  BY <1>1, <1>2, <1>3, <1>4, <1>d, <1>5 DEF Next

\* The rewards of every epoch keep to the payroll: each step pays one validator
\* or nobody, and an epoch is deleted when everyone has been paid who had
\* blocks and a record at its first distribution.
THEOREM ConsensusImplementsPayroll == Spec => ImplementsPayroll
<1>1. Init => SettledInv
  BY DEF Init, SettledInv, PaidSoFar, DueInv, EpochSettled, Idle
<1>2. QED
  BY <1>1, ConsensusTypeCorrect, SettledStep, PaymentInit, PaymentStep, PayrollInit,
     PayrollStep, PTL DEF Spec, ImplementsPayroll, Rewards!Spec

-----------------------------------------------------------------------------
(* The registry's order and stakes.                                        *)

\* The map has one entry for each registered address.
OrderOK ==
  /\ \A a \in Addresses : Registered(a) <=> \E i \in DOMAIN order : order[i] = a
  /\ \A i, j \in DOMAIN order : order[i] = order[j] => i = j

\* No record has less than the minimum, nor will one that is being made.
StakesSuffice ==
  /\ \A a \in Addresses, o \in Callers :
       objects[a][o] # None => objects[a][o].stake >= MinStake
  /\ \A o \in Callers : call[o].at = "registering" => call[o].stake >= MinStake

RegistryInv == OrderOK /\ StakesSuffice

\* A new record has an entry at the end of the order, another one its old entry.
LEMMA OrderAfterRegistration ==
  ASSUME TypeOK, OrderOK, NEW o \in Callers, CompleteRegistration(o)
  PROVE  OrderOK'
<1> DEFINE a == call[o].address
<1>1. a \in Addresses
  BY CallFields DEF CompleteRegistration, TypeOK
<1>2. /\ validators' = [validators EXCEPT ![a] = o]
      /\ order' = IF validators[a] = None THEN Append(order, a) ELSE order
  BY DEF CompleteRegistration
<1>3. validators \in [Addresses -> Callers \cup {None}] /\ order \in Seq(Addresses)
  BY DEF TypeOK
<1>4. o # None
  BY ConsensusAssumption
<1> HIDE DEF a
<1>5. \A b \in Addresses : Registered(b)' <=> (Registered(b) \/ b = a)
  BY <1>1, <1>2, <1>3, <1>4 DEF Registered
<1>6. CASE validators[a] = None
  <2>1. /\ DOMAIN order' = 1..(Len(order) + 1)
        /\ \A i \in DOMAIN order : order'[i] = order[i]
        /\ order'[Len(order) + 1] = a
        /\ DOMAIN order = 1..Len(order) /\ Len(order) \in Nat
    BY <1>1, <1>2, <1>3, <1>6
  <2>2. \A i \in DOMAIN order : order[i] # a
    BY <1>1, <1>6 DEF OrderOK, Registered
  <2>3. \A b \in Addresses :
          (\E i \in DOMAIN order' : order'[i] = b)
            <=> (b = a \/ \E i \in DOMAIN order : order[i] = b)
    BY <2>1
  <2>4. ASSUME NEW i \in DOMAIN order', NEW j \in DOMAIN order', order'[i] = order'[j]
        PROVE  i = j
    <3>1. CASE i \in DOMAIN order /\ j \in DOMAIN order
      BY <2>1, <2>4, <3>1 DEF OrderOK
    <3>2. CASE i \notin DOMAIN order \/ j \notin DOMAIN order
      BY <2>1, <2>2, <2>4, <3>2
    <3>3. QED
      BY <3>1, <3>2
  <2>5. QED
    BY <1>5, <2>3, <2>4 DEF OrderOK
<1>7. CASE validators[a] # None
  <2>1. Registered(a) /\ order' = order
    BY <1>2, <1>7 DEF Registered
  <2>2. QED
    BY <1>1, <1>5, <2>1 DEF OrderOK
<1>8. QED
  BY <1>6, <1>7

LEMMA RegistryStep == TypeOK /\ RegistryInv /\ [Next]_vars => RegistryInv'
<1> SUFFICES ASSUME TypeOK, RegistryInv, [Next]_vars PROVE RegistryInv'
  OBVIOUS
<1> USE ConsensusAssumption
<1>i. Idle.at = "idle"
  BY DEF Idle
<1>1. ASSUME NEW o \in Callers, NEW a \in Addresses, NEW stake \in Stakes[a],
             registerValidator(o, a, stake)
      PROVE  RegistryInv'
  <2>1. /\ UNCHANGED registry
        /\ call' = [call EXCEPT ![o] = [at |-> "registering", address |-> a,
                                        stake |-> stake, lastActive |-> now]]
        /\ stake >= MinStake
    BY <1>1 DEF registerValidator, Become
  <2>2. OrderOK'
    BY <2>1 DEF RegistryInv, OrderOK, registry, Registered
  <2>3. QED
    BY <2>1, <2>2 DEF RegistryInv, StakesSuffice, registry, TypeOK
<1>2. ASSUME NEW o \in Callers, CompleteRegistration(o) PROVE RegistryInv'
  <2> DEFINE a == call[o].address
             r == [stake |-> call[o].stake, blocksMined |-> 0,
                   lastActive |-> call[o].lastActive, reputation |-> 100]
  <2>1. a \in Addresses
    BY <1>2, CallFields DEF CompleteRegistration, TypeOK
  <2>2. r.stake = call[o].stake /\ call[o].stake >= MinStake
    BY <1>2 DEF CompleteRegistration, RegistryInv, StakesSuffice
  <2>3. objects' = [objects EXCEPT ![a][o] = r] /\ call' = [call EXCEPT ![o] = Idle]
    BY <1>2 DEF CompleteRegistration, Become
  <2> HIDE DEF a, r
  <2>4. StakesSuffice'
    BY <1>i, <2>1, <2>2, <2>3 DEF RegistryInv, StakesSuffice, TypeOK
  <2>5. QED
    BY <1>2, <2>4, OrderAfterRegistration DEF RegistryInv
<1>3. ASSUME NEW o \in Callers, AcceptBlock(o) PROVE RegistryInv'
  <2> DEFINE a == call[o].address
             p == validators[a]
  <2>1. a \in Addresses /\ p \in Callers /\ objects[a][p] \in Records
    BY <1>3, ValidatedIsRegistered DEF AcceptBlock
  <2>2. PICK q \in Qualities :
          objects' = [objects EXCEPT ![a][p] = updateValidatorStats(objects[a][p], q)]
    BY <1>3 DEF AcceptBlock
  <2> DEFINE r == updateValidatorStats(objects[a][p], q)
  <2>3. r.stake = objects[a][p].stake /\ objects[a][p] # None
    BY <2>1 DEF updateValidatorStats, Records
  <2>4. call' = [call EXCEPT ![o] = Idle] /\ validators' = validators /\ order' = order
    BY <1>3 DEF AcceptBlock, Become
  <2> HIDE DEF a, p, r
  <2>5. StakesSuffice'
    BY <1>i, <2>1, <2>2, <2>3, <2>4 DEF r, RegistryInv, StakesSuffice, TypeOK
  <2>6. QED
    BY <2>4, <2>5 DEF RegistryInv, OrderOK, Registered
<1>4. ASSUME UNCHANGED registry,
             \A o \in Callers : call'[o].at = "registering" => call'[o] = call[o]
      PROVE  RegistryInv'
  BY <1>4 DEF RegistryInv, OrderOK, StakesSuffice, registry, Registered
<1>5. ASSUME NEW o \in Callers,
             \/ \E a \in Addresses, p \in Callers : validateBlock(o, a, p)
             \/ GiveUp(o)
             \/ \E e \in Epochs : distributeRewards(o, e)
      PROVE  RegistryInv'
  <2>1. UNCHANGED registry
    BY <1>5 DEF validateBlock, GiveUp, distributeRewards
  <2>2. \A p \in Callers : call'[p].at = "registering" => call'[p] = call[p]
    BY <1>5, <1>i DEF validateBlock, GiveUp, distributeRewards, Become, TypeOK
  <2>3. QED
    BY <1>4, <2>1, <2>2
<1>6. ASSUME NEW o \in Callers, NEW a \in Addresses, PayReward(o, a) PROVE RegistryInv'
  <2>1. call[o] \in [at : {"paying"}, epoch : Epochs, rest : SUBSET Addresses]
    BY <1>6 DEF PayReward, TypeOK, Calls, Idle
  <2>2. [call[o] EXCEPT !.rest = @ \ {a}].at = "paying"
    BY <2>1
  <2>3. \A p \in Callers : call'[p].at = "registering" => call'[p] = call[p]
    BY <1>6, <1>i, <2>2 DEF PayReward, Become, TypeOK
  <2>4. QED
    BY <1>4, <1>6, <2>3 DEF PayReward, registry
<1>7. CASE Tick \/ (\E e \in Epochs : RecordEpoch(e) \/ DistributeNothing(e))
           \/ UNCHANGED vars
  BY <1>4, <1>7 DEF Tick, RecordEpoch, DistributeNothing, vars
<1>8. QED
  BY <1>1, <1>2, <1>3, <1>5, <1>6, <1>7 DEF Next

-----------------------------------------------------------------------------
(* The selection.                                                          *)

\* The filtered entries are registered, active, and listed once each.
LEMMA ActiveList ==
  ASSUME TypeOK, OrderOK
  PROVE  /\ activeValidators \in Seq(Addresses)
         /\ \A i \in DOMAIN activeValidators : Active(activeValidators[i])
         /\ Distinct(activeValidators)
<1>1. order \in Seq(Addresses) /\ Len(order) \in Nat
  BY DEF TypeOK
<1> PICK N \in Nat : N = Len(order)
  BY <1>1
<1> DEFINE K == {a \in Addresses : Active(a)}
           kept == CHOOSE k : k = [n \in 0..Len(order) |->
                     IF n = 0 THEN <<>>
                     ELSE IF Active(order[n]) THEN Append(k[n - 1], order[n])
                          ELSE k[n - 1]]
<1>2. PICK f \in [0..N -> Seq(Addresses)] : Filters(f, order, K)
  <2> HIDE DEF K, kept
  <2>1. QED
    BY <1>1, FilterExists
<1>3. \A n \in 1..N :
        /\ n \in 0..N /\ n # 0
        /\ order[n] \in Addresses
        /\ f[n] = IF Active(order[n]) THEN Append(f[n - 1], order[n]) ELSE f[n - 1]
  BY <1>1, <1>2 DEF Filters
<1>4. f = [n \in 0..Len(order) |->
             IF n = 0 THEN <<>>
             ELSE IF Active(order[n]) THEN Append(f[n - 1], order[n]) ELSE f[n - 1]]
  <2>1. \A n \in 0..N : n # 0 => n \in 1..N
    OBVIOUS
  <2>2. QED
    BY <1>2, <1>3, <2>1 DEF Filters
<1>5. kept = [n \in 0..Len(order) |->
                IF n = 0 THEN <<>>
                ELSE IF Active(order[n]) THEN Append(kept[n - 1], order[n])
                     ELSE kept[n - 1]]
  BY <1>4
<1>6. activeValidators = kept[Len(order)]
  BY DEF activeValidators
<1> HIDE DEF kept, K
<1>7. kept[N] = f[N]
  <2>1. kept[0] = f[0]
    BY <1>2, <1>5 DEF Filters
  <2>2. \A n \in 1..N : kept[n - 1] = f[n - 1] => kept[n] = f[n]
    BY <1>3, <1>5
  <2>3. Alike(kept, f, N)
    BY <2>1, <2>2 DEF Alike
  <2>4. \A n \in 0..N : kept[n] = f[n]
    BY <2>3, RecursionIsUnique
  <2>5. QED
    BY <2>4
<1>8. Distinct(order)
  BY DEF OrderOK, Distinct
<1>9. Distinct(f[N]) /\ \A i \in DOMAIN f[N] : f[N][i] \in K
  BY <1>1, <1>2, <1>8, FilterKeeps
<1>10. QED
  BY <1>6, <1>7, <1>9 DEF K

\* The cumulative stakes are the sums they are meant to be.
LEMMA CumulativeStakes ==
  ASSUME NEW active \in Seq(Addresses), NEW N \in Nat, N = Len(active),
         \A i \in 1..N : Current(active[i]).stake \in Nat
  PROVE  \E C \in [0..N -> Nat] :
           /\ C[0] = 0
           /\ \A i \in 1..N : C[i] = C[i - 1] + Current(active[i]).stake
           /\ \A i \in 0..N : cumulativeStake(active, i) = C[i]
<1> DEFINE base == 0
           G == [p \in (1..N) \X Nat |-> p[2] + Current(active[p[1]]).stake]
<1>1. IsStep(G, N, Nat) /\ base \in Nat
  BY DEF IsStep
<1>2. PICK C \in [0..N -> Nat] : IsRecursion(C, N, base, G)
  <2> HIDE DEF G, base
  <2>1. QED
    BY <1>1, RecursiveFunction
<1>3. C[0] = 0
  BY <1>2 DEF IsRecursion
<1>4. \A i \in 1..N :
        /\ i \in 0..N /\ i # 0
        /\ C[i - 1] \in Nat
        /\ C[i] = C[i - 1] + Current(active[i]).stake
  <2>1. \A i \in 1..N : i \in 0..N /\ i # 0 /\ i - 1 \in 0..N
    OBVIOUS
  <2>2. \A i \in 1..N : C[i - 1] \in Nat /\ C[i] = G[<<i, C[i - 1]>>]
    BY <1>2, <2>1 DEF IsRecursion
  <2>3. QED
    BY <2>1, <2>2
<1>5. ASSUME NEW n \in 0..N PROVE cumulativeStake(active, n) = C[n]
  <2> DEFINE sum == CHOOSE f : f = [i \in 0..n |->
                      IF i = 0 THEN 0 ELSE f[i - 1] + Current(active[i]).stake]
             D == [i \in 0..n |-> C[i]]
  <2>1. n \in Nat /\ \A i \in 1..n : i \in 1..N /\ i \in 0..n /\ i # 0 /\ i - 1 \in 0..n
    OBVIOUS
  <2>2. D = [i \in 0..n |->
               IF i = 0 THEN 0 ELSE D[i - 1] + Current(active[i]).stake]
    <3>1. \A i \in 0..n : i # 0 => i \in 1..n
      OBVIOUS
    <3>2. \A i \in 1..n : D[i - 1] = C[i - 1] /\ D[i] = C[i]
      BY <2>1
    <3> HIDE DEF D
    <3>3. \A i \in 0..n :
            D[i] = IF i = 0 THEN 0 ELSE D[i - 1] + Current(active[i]).stake
      BY <1>3, <1>4, <2>1, <3>1, <3>2 DEF D
    <3>4. QED
      BY <3>3 DEF D
  <2>3. sum = [i \in 0..n |->
                 IF i = 0 THEN 0 ELSE sum[i - 1] + Current(active[i]).stake]
    BY <2>2
  <2>4. cumulativeStake(active, n) = sum[n]
    BY DEF cumulativeStake
  <2> HIDE DEF sum, D
  <2>5. sum[0] = C[0]
    BY <1>3, <2>1, <2>3
  <2>6. \A i \in 1..n : sum[i - 1] = C[i - 1] => sum[i] = C[i]
    BY <1>4, <2>1, <2>3
  <2>7. Alike(sum, C, n)
    BY <2>5, <2>6 DEF Alike
  <2>8. \A i \in 0..n : sum[i] = C[i]
    BY <2>1, <2>7, RecursionIsUnique
  <2>9. QED
    BY <2>1, <2>4, <2>8
<1>6. QED
  BY <1>3, <1>4, <1>5

\* A random value chooses the i-th validator when it is above the cumulative
\* stake of those before it, and not above its own.
LEMMA WhoIsSelected ==
  ASSUME NEW active \in Seq(Addresses), NEW N \in Nat \ {0}, N = Len(active),
         Distinct(active), NEW C \in [0..N -> Nat],
         Rises(C, N),
         \A i \in 0..N : cumulativeStake(active, i) = C[i],
         NEW r \in 0..(C[N] - 1), NEW i \in 1..N
  PROVE  Selected(active, r) = active[i] <=> r =< C[i] /\ (i = 1 \/ C[i - 1] < r)
<1> DEFINE reach == {k \in 1..N : r =< C[k]}
<1>1. C[N] \in Nat /\ r \in Nat /\ N \in reach /\ reach \in SUBSET Nat
  OBVIOUS
<1>2. {k \in DOMAIN active : r =< cumulativeStake(active, k)} = reach
  OBVIOUS
<1>3. PICK m \in reach : \A k \in reach : m =< k
  <2> HIDE DEF reach
  <2>1. QED
    BY <1>1, LeastElement
<1>4. \A k \in reach : (\A j \in reach : k =< j) => k = m
  BY <1>3
<1>5. (CHOOSE k \in reach : \A j \in reach : k =< j) = m
  <2> HIDE DEF reach
  <2>1. QED
    BY <1>3, <1>4
<1>6. Selected(active, r) = active[m]
  <2> HIDE DEF reach
  <2>1. QED
    BY <1>1, <1>2, <1>5 DEF Selected
<1>7. active[m] = active[i] <=> m = i
  <2>1. m \in 1..N /\ DOMAIN active = 1..N
    BY <1>3
  <2>2. QED
    BY <2>1 DEF Distinct
<1>8. \A j, k \in 0..N : j < k => C[j] < C[k]
  BY Rising
<1>9. ASSUME m = i PROVE r =< C[i] /\ (i = 1 \/ C[i - 1] < r)
  <2>1. r =< C[i]
    BY <1>9
  <2>2. CASE i # 1
    <3>1. i - 1 \in 1..N /\ C[i - 1] \in Nat
      BY <2>2
    <3>2. i - 1 \notin reach
      BY <1>3, <1>9, <3>1
    <3>3. QED
      BY <1>1, <3>1, <3>2, <2>1
  <2>3. QED
    BY <2>1, <2>2
<1>10. ASSUME r =< C[i], i = 1 \/ C[i - 1] < r PROVE m = i
  <2>1. i \in reach /\ m =< i
    BY <1>3, <1>10
  <2>2. CASE m < i
    <3>1. i # 1 /\ m \in 0..N /\ i - 1 \in 0..N /\ m =< i - 1
      BY <2>2
    <3>2. C[m] =< C[i - 1]
      <4>1. m = i - 1 \/ m < i - 1
        BY <3>1
      <4>2. C[m] \in Nat /\ C[i - 1] \in Nat
        BY <3>1
      <4>3. CASE m < i - 1
        <5>1. C[m] < C[i - 1]
          BY <1>8, <3>1, <4>3
        <5>2. QED
          BY <4>2, <5>1
      <4>4. QED
        BY <4>1, <4>2, <4>3
    <3>3. r =< C[m] /\ C[i - 1] < r
      BY <1>10, <3>1
    <3>4. C[m] \in Nat /\ C[i - 1] \in Nat
      BY <3>1
    <3>5. QED
      BY <1>1, <3>2, <3>3, <3>4
  <2>3. QED
    BY <2>1, <2>2
<1>11. QED
  BY <1>6, <1>7, <1>9, <1>10

\* Who is selected by how many of the random values.
LEMMA SelectedByItsStake ==
  ASSUME NEW active \in Seq(Addresses), NEW N \in Nat \ {0}, N = Len(active),
         Distinct(active), NEW C \in [0..N -> Nat], C[0] = 0, Rises(C, N),
         \A i \in 0..N : cumulativeStake(active, i) = C[i],
         NEW i \in 1..N
  PROVE  Cardinality({r \in 0..(C[N] - 1) : Selected(active, r) = active[i]})
           - (C[i] - C[i - 1]) \in {-1, 0, 1}
<1> DEFINE R == {r \in 0..(C[N] - 1) : Selected(active, r) = active[i]}
           low == IF i = 1 THEN 0 ELSE C[i - 1] + 1
           high == IF i = N THEN C[N] - 1 ELSE C[i]
<1>1. /\ i \in 0..N /\ i - 1 \in 0..N /\ N \in 0..N
      /\ C[i] \in Nat /\ C[i - 1] \in Nat /\ C[N] \in Nat
      /\ C[i - 1] < C[i]
  BY DEF Rises
<1>2. i # N => C[i] < C[N]
  <2>1. \A j, k \in 0..N : j < k => C[j] < C[k]
    BY Rising
  <2>2. QED
    BY <1>1, <2>1
<1>3. R = low..high
  <2>1. ASSUME NEW r \in 0..(C[N] - 1) PROVE r \in R <=> r \in low..high
    <3>1. r \in R <=> r =< C[i] /\ (i = 1 \/ C[i - 1] < r)
      BY <2>1, WhoIsSelected
    <3>2. QED
      BY <1>1, <3>1
  <2>2. low..high \subseteq 0..(C[N] - 1)
    BY <1>1, <1>2
  <2>3. QED
    BY <2>1, <2>2
<1>4. low \in Int /\ high \in Int
  BY <1>1
<1> HIDE DEF R
<1>5. Cardinality(R) = IF low > high THEN 0 ELSE high - low + 1
  <2> HIDE DEF low, high
  <2>1. QED
    BY <1>3, <1>4, FS_Interval
<1>6. i = 1 => C[i - 1] = 0
  OBVIOUS
<1>7. Cardinality(R) - (C[i] - C[i - 1]) \in {-1, 0, 1}
  BY <1>1, <1>5, <1>6
<1>8. QED
  BY <1>7 DEF R

LEMMA WeightedSelection == TypeOK /\ RegistryInv => SelectionIsWeighted
<1> SUFFICES ASSUME TypeOK, RegistryInv, Len(activeValidators) >= MinValidators
             PROVE  \A i \in DOMAIN activeValidators :
                      Cardinality({r \in 0..(cumulativeStake(activeValidators,
                                               Len(activeValidators)) - 1) :
                                     Selected(activeValidators, r)
                                       = activeValidators[i]})
                        - Current(activeValidators[i]).stake \in {-1, 0, 1}
  BY DEF SelectionIsWeighted
<1>1. /\ activeValidators \in Seq(Addresses) /\ Distinct(activeValidators)
      /\ \A i \in DOMAIN activeValidators : Active(activeValidators[i])
  BY ActiveList DEF RegistryInv
<1>2. PICK active \in Seq(Addresses) : active = activeValidators
  BY <1>1
<1>3. Len(active) \in Nat \ {0}
  BY <1>2, ConsensusAssumption
<1>4. PICK N \in Nat \ {0} : N = Len(active)
  BY <1>3
<1>5. \A i \in 1..N : /\ Current(active[i]).stake \in Nat
                      /\ Current(active[i]).stake > 0
  <2>1. ASSUME NEW a \in Addresses, Active(a)
        PROVE  Current(a).stake \in Nat /\ Current(a).stake > 0
    <3>1. validators[a] \in Callers /\ Current(a) \in Records
      BY <2>1 DEF TypeOK, Active, Registered, Current
    <3>2. Current(a).stake >= MinStake
      BY <2>1, <3>1 DEF RegistryInv, StakesSuffice, TypeOK, Active, Current
    <3>3. QED
      BY <3>1, <3>2, ConsensusAssumption DEF Records
  <2>2. \A i \in 1..N : active[i] \in Addresses /\ Active(active[i])
    BY <1>1, <1>2, <1>4
  <2>3. QED
    BY <2>1, <2>2
<1>6. PICK C \in [0..N -> Nat] :
        /\ C[0] = 0
        /\ \A i \in 1..N : C[i] = C[i - 1] + Current(active[i]).stake
        /\ \A i \in 0..N : cumulativeStake(active, i) = C[i]
  BY <1>4, <1>5, CumulativeStakes
<1>7. Rises(C, N)
  <2>1. ASSUME NEW i \in 1..N PROVE C[i - 1] < C[i]
    <3>1. C[i - 1] \in Nat /\ C[i] = C[i - 1] + Current(active[i]).stake
      BY <1>6
    <3>2. QED
      BY <1>5, <3>1
  <2>2. QED
    BY <2>1 DEF Rises
<1>8. ASSUME NEW i \in 1..N
      PROVE  Cardinality({r \in 0..(C[N] - 1) : Selected(active, r) = active[i]})
               - Current(active[i]).stake \in {-1, 0, 1}
  <2>1. C[i] - C[i - 1] = Current(active[i]).stake
    <3>1. i - 1 \in 0..N /\ C[i - 1] \in Nat
      OBVIOUS
    <3>2. QED
      BY <1>5, <1>6, <3>1
  <2>2. Cardinality({r \in 0..(C[N] - 1) : Selected(active, r) = active[i]})
          - (C[i] - C[i - 1]) \in {-1, 0, 1}
    BY <1>1, <1>2, <1>4, <1>6, <1>7, SelectedByItsStake
  <2>3. QED
    BY <2>1, <2>2
<1>9. cumulativeStake(active, N) = C[N] /\ DOMAIN active = 1..N
  BY <1>4, <1>6
<1>10. QED
  BY <1>2, <1>4, <1>8, <1>9

\* Of the random values below the active validators' stakes together, as many
\* choose each of them as its stake, give or take one: the first gets one more
\* and the last one less.
THEOREM SelectionFollowsStake == Spec => []SelectionIsWeighted
<1>1. Init => RegistryInv
  BY DEF Init, RegistryInv, OrderOK, StakesSuffice, Registered, Idle
<1>2. QED
  BY <1>1, ConsensusTypeCorrect, RegistryStep, WeightedSelection, PTL DEF Spec
=============================================================================
