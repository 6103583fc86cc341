----------------------- MODULE ContractEngine_proofs -----------------------
(***************************************************************************)
(* Proofs about ContractEngine, for every set of contracts and executions, *)
(* in place or replacing, and for every order of calls and failures.       *)
(***************************************************************************)
EXTENDS ContractEngine, TLAPS

-----------------------------------------------------------------------------
(* Types.                                                                  *)

\* What a call carries at each of its stops.
LEMMA CallFields ==
  ASSUME NEW c \in Calls
  PROVE  /\ c.at = "verifying" => c.contract \in Addresses
         /\ c.at \in {"running", "returned"} =>
              c \in [at : {"running", "returned"}, contract : Addresses,
                     inPlace : BOOLEAN, success : BOOLEAN, newState : Objects]
BY DEF Calls

LEMMA TypeInit == Init => TypeOK
BY ContractAssumption DEF Init, TypeOK, Calls, Deployed

LEMMA TypeStep == TypeOK /\ [Next]_vars => TypeOK'
<1> SUFFICES ASSUME TypeOK, [Next]_vars PROVE TypeOK'
  OBVIOUS
<1> USE ContractAssumption
<1>k. \A e \in Executions : call[e] \in Calls
  BY DEF TypeOK
<1>1. ASSUME NEW a \in Addresses, NEW code \in Codes, deployContract(a, code)
      PROVE  TypeOK'
  <2> DEFINE c == [code |-> code, totalExecutions |-> 0]
  <2>1. c \in [code : Codes, totalExecutions : Nat] /\ c # None
    OBVIOUS
  <2>2. contracts' = [contracts EXCEPT ![a] = c]
    BY <1>1 DEF deployContract
  <2> HIDE DEF c
  <2>3. \A b \in Addresses : Deployed(b) => Deployed(b)'
    BY <2>1, <2>2 DEF TypeOK, Deployed
  <2>4. QED
    BY <1>1, <2>1, <2>2, <2>3, CallFields, <1>k DEF TypeOK, deployContract, Deployed, Objects
<1>2. ASSUME NEW a \in Addresses, NEW code \in Codes, upgradeContract(a, code)
      PROVE  TypeOK'
  <2> DEFINE c == [contracts[a] EXCEPT !.code = code]
  <2>1. c \in [code : Codes, totalExecutions : Nat] /\ c # None
    BY <1>2 DEF TypeOK, upgradeContract
  <2>2. contracts' = [contracts EXCEPT ![a] = c]
    BY <1>2 DEF upgradeContract
  <2> HIDE DEF c
  <2>3. \A b \in Addresses : Deployed(b)' = Deployed(b)
    BY <1>2, <2>1, <2>2 DEF TypeOK, Deployed, upgradeContract
  <2>4. QED
    BY <1>2, <2>1, <2>2, <2>3, CallFields, <1>k DEF TypeOK, upgradeContract
<1>3. ASSUME NEW e \in Executions, NEW a \in Addresses, executeContract(e, a)
      PROVE  TypeOK'
  <2>1. [at |-> "verifying", contract |-> a] \in Calls
    BY DEF Calls
  <2>2. QED
    BY <1>3, <2>1 DEF TypeOK, executeContract, Become, Deployed
<1>4. ASSUME NEW e \in Executions, RejectCall(e) PROVE TypeOK'
  <2>1. [at |-> "rejected"] \in Calls
    BY DEF Calls
  <2>2. QED
    BY <1>4, <2>1 DEF TypeOK, RejectCall, Become, Deployed
<1>5. ASSUME NEW e \in Executions, RunContract(e) PROVE TypeOK'
  <2> DEFINE a == call[e].contract
  <2>1. a \in Addresses /\ Deployed(a)
    BY <1>5, <1>k, CallFields DEF RunContract, TypeOK
  <2>2. PICK inPlace \in BOOLEAN, updated \in BOOLEAN, success \in BOOLEAN :
          /\ updates' = IF updated
               THEN [updates EXCEPT ![Updated(e, a, inPlace)] =
                      updates[contractStates[a]] \cup {e}]
               ELSE updates
          /\ Become(e, [at |-> "running", contract |-> a, inPlace |-> inPlace,
                        success |-> success, newState |-> Updated(e, a, inPlace)])
    BY <1>5 DEF RunContract
  <2>3. Updated(e, a, inPlace) \in Objects /\ contractStates[a] \in Objects
    BY <2>1 DEF Updated, Objects, TypeOK
  <2>4. updates' \in [Objects -> SUBSET Executions]
    BY <2>2, <2>3 DEF TypeOK
  <2>5. [at |-> "running", contract |-> a, inPlace |-> inPlace,
         success |-> success, newState |-> Updated(e, a, inPlace)] \in Calls
    BY <2>1, <2>3 DEF Calls
  <2>6. QED
    BY <1>5, <2>1, <2>2, <2>4, <2>5 DEF TypeOK, RunContract, Become, Deployed
<1>6. ASSUME NEW e \in Executions, Return(e) PROVE TypeOK'
  <2> DEFINE a == call[e].contract
             c == [call[e] EXCEPT !.at = "returned"]
  <2>1. call[e] \in [at : {"running", "returned"}, contract : Addresses,
                     inPlace : BOOLEAN, success : BOOLEAN, newState : Objects]
    BY <1>6, <1>k, CallFields DEF Return
  <2>2. c \in Calls /\ c.contract = a
    BY <2>1 DEF Calls
  <2>3. Deployed(a)
    BY <1>6 DEF Return, TypeOK
  <2> DEFINE d == [contracts[a] EXCEPT !.totalExecutions = @ + 1]
  <2>4. d \in [code : Codes, totalExecutions : Nat] /\ d # None
    BY <2>1, <2>3 DEF TypeOK, Deployed
  <2>5. \/ UNCHANGED <<contractStates, contracts>>
        \/ /\ contractStates' = [contractStates EXCEPT ![a] = call[e].newState]
           /\ contracts' = [contracts EXCEPT ![a] = d]
    BY <1>6 DEF Return
  <2>6. call' = [call EXCEPT ![e] = c] /\ UNCHANGED <<updates, overlapped>>
    BY <1>6 DEF Return, Become
  <2> HIDE DEF c, d
  <2>7. \A b \in Addresses : Deployed(b)' = Deployed(b)
    BY <2>1, <2>3, <2>4, <2>5 DEF TypeOK, Deployed
  <2>8. QED
    <3>1. contracts' \in [Addresses -> [code : Codes, totalExecutions : Nat] \cup {None}]
      BY <2>4, <2>5 DEF TypeOK
    <3>2. /\ contractStates' \in [Addresses -> Objects \cup {None}]
          /\ \A b \in Addresses : Deployed(b) => contractStates'[b] \in Objects
      BY <2>1, <2>5 DEF TypeOK
    <3>3. \A o \in Executions : call'[o].at \in {"verifying", "running", "returned"} =>
            Deployed(call'[o].contract)
      BY <2>2, <2>3, <2>6 DEF TypeOK
    <3>4. call' \in [Executions -> Calls]
      BY <2>2, <2>6 DEF TypeOK
    <3>5. \A o \in Executions : call'[o].at \in {"verifying", "running", "returned"} =>
            contracts'[call'[o].contract] # None
      <4>1. \A o \in Executions : call'[o].at \in {"verifying", "running", "returned"} =>
              call'[o].contract \in Addresses
        BY <3>4, CallFields
      <4>2. QED
        BY <4>1, <3>3, <2>7 DEF Deployed
    <3>6. QED
      BY <3>1, <3>2, <3>4, <3>5, <2>6, <2>7 DEF TypeOK, Deployed
<1>7. CASE UNCHANGED vars
  BY <1>7 DEF TypeOK, vars, Deployed
<1>8. QED
  BY <1>1, <1>2, <1>3, <1>4, <1>5, <1>6, <1>7 DEF Next

\* The state is well-formed: whatever executes on a contract finds it deployed
\* and with a state object.
THEOREM EngineTypeCorrect == Spec => []TypeOK
<1>1. QED
  BY TypeInit, TypeStep, PTL DEF Spec

-----------------------------------------------------------------------------
(* What the steps do to the executions and objects of a contract.          *)

\* The objects that can only ever be a state of contract a.
Owned(a) == {a} \cup Ran(a)

LEMMA OwnedApart ==
  ASSUME NEW a \in Addresses, NEW b \in Addresses, a # b
  PROVE  Owned(a) \cap Owned(b) = {}
BY ContractAssumption DEF Owned, Ran

\* Execution e ran on contract a, on object r.
Runs(e, a, inPlace, updated, success, r) ==
  /\ call' = [call EXCEPT ![e] =
       [at |-> "running", contract |-> a, inPlace |-> inPlace,
        success |-> success, newState |-> r]]
  /\ r = Updated(e, a, inPlace)
  /\ success => updated
  /\ updates' = IF updated
       THEN [updates EXCEPT ![r] = updates[contractStates[a]] \cup {e}] ELSE updates

\* And what that means for every contract.
RanOn(e, a) ==
  /\ Deployed(a) /\ contractStates[a] \in Objects
  /\ \A b \in Addresses : e \notin Ran(b)
  /\ \A b \in Addresses :
       /\ Ran(b)' = IF b = a THEN Ran(b) \cup {e} ELSE Ran(b)
       /\ Running(b)' = IF b = a THEN Running(b) \cup {e} ELSE Running(b)
       /\ Succeeded(b)' = Succeeded(b)
  /\ \A o \in Executions \ {e} : call'[o] = call[o]
  /\ UNCHANGED <<contracts, contractStates>>
  /\ overlapped' = IF Running(a) = {} THEN overlapped ELSE overlapped \cup {a}

LEMMA RunEffect ==
  ASSUME TypeOK, NEW e \in Executions, RunContract(e)
  PROVE  \E a \in Addresses, inPlace, updated, success \in BOOLEAN, r \in Objects :
           Runs(e, a, inPlace, updated, success, r) /\ RanOn(e, a)
<1> DEFINE a == call[e].contract
<1>1. a \in Addresses /\ Deployed(a)
  BY CallFields DEF RunContract, TypeOK
<1>2. PICK inPlace \in BOOLEAN, updated \in BOOLEAN, success \in BOOLEAN :
        Runs(e, a, inPlace, updated, success, Updated(e, a, inPlace))
  BY DEF RunContract, Runs, Become
<1> DEFINE r == Updated(e, a, inPlace)
<1>3. r \in Objects /\ contractStates[a] \in Objects
  BY <1>1 DEF Updated, Objects, TypeOK
<1>4. \A b \in Addresses : e \notin Ran(b) /\ e \notin Succeeded(b) /\ e \notin Running(b)
  BY DEF RunContract, Ran, Succeeded, Running
<1>5. /\ \A o \in Executions \ {e} : call'[o] = call[o]
      /\ call'[e].at = "running" /\ call'[e].contract = a
  BY <1>2 DEF Runs, TypeOK
<1> HIDE DEF a
<1>6. \A b \in Addresses :
        /\ Ran(b)' = IF b = a THEN Ran(b) \cup {e} ELSE Ran(b)
        /\ Running(b)' = IF b = a THEN Running(b) \cup {e} ELSE Running(b)
        /\ Succeeded(b)' = Succeeded(b)
  BY <1>4, <1>5 DEF Ran, Running, Succeeded
<1>7. /\ UNCHANGED <<contracts, contractStates>>
      /\ overlapped' = IF Running(a) = {} THEN overlapped ELSE overlapped \cup {a}
  BY DEF RunContract, a
<1>8. RanOn(e, a)
  BY <1>1, <1>3, <1>4, <1>5, <1>6, <1>7 DEF RanOn
<1>9. QED
  BY <1>1, <1>2, <1>3, <1>8

\* Execution e returned from contract a.
ReturnedFrom(e, a) ==
  /\ Deployed(a) /\ e \in Running(a) /\ e \in Ran(a)
  /\ \A b \in Addresses :
       /\ Deployed(b)' = Deployed(b)
       /\ Ran(b)' = Ran(b)
       /\ Running(b)' = Running(b) \ {e}
       /\ b # a => Succeeded(b)' = Succeeded(b)
       /\ b # a => contractStates'[b] = contractStates[b]
  /\ Succeeded(a)' = IF call[e].success THEN Succeeded(a) \cup {e} ELSE Succeeded(a)
  /\ contractStates'[a] = IF call[e].success THEN call[e].newState ELSE contractStates[a]
  /\ \A o \in Executions : /\ call'[o].success = call[o].success
                           /\ call'[o].inPlace = call[o].inPlace
                           /\ call'[o].newState = call[o].newState
  /\ UNCHANGED <<updates, overlapped>>

LEMMA ReturnEffect ==
  ASSUME TypeOK, NEW e \in Executions, Return(e)
  PROVE  \E a \in Addresses : ReturnedFrom(e, a)
<1> DEFINE a == call[e].contract
           c == [call[e] EXCEPT !.at = "returned"]
<1>1. call[e] \in [at : {"running", "returned"}, contract : Addresses,
                   inPlace : BOOLEAN, success : BOOLEAN, newState : Objects]
  BY CallFields DEF TypeOK, Return
<1>2. /\ c.at = "returned" /\ c.contract = a /\ c.success = call[e].success
      /\ c.inPlace = call[e].inPlace /\ c.newState = call[e].newState
  BY <1>1
<1>3. a \in Addresses /\ Deployed(a) /\ call[e].at = "running"
  BY <1>1 DEF Return, TypeOK
<1>4. call' = [call EXCEPT ![e] = c] /\ UNCHANGED <<updates, overlapped>>
  BY DEF Return, Become
<1>5. /\ \A o \in Executions \ {e} : call'[o] = call[o]
      /\ call'[e] = c
  BY <1>4 DEF TypeOK
<1>6. /\ contractStates' =
           IF call[e].success THEN [contractStates EXCEPT ![a] = call[e].newState]
           ELSE contractStates
      /\ contracts' =
           IF call[e].success THEN [contracts EXCEPT ![a].totalExecutions = @ + 1]
           ELSE contracts
  BY DEF Return, Writes
<1>7. \A b \in Addresses : Deployed(b)' = Deployed(b)
  BY <1>3, <1>6, ContractAssumption DEF Deployed, TypeOK
<1>8. /\ \A b \in Addresses : b # a => contractStates'[b] = contractStates[b]
      /\ contractStates'[a] =
           IF call[e].success THEN call[e].newState ELSE contractStates[a]
  BY <1>3, <1>6 DEF TypeOK
<1> HIDE DEF a, c
<1>9. e \in Running(a) /\ e \in Ran(a)
  BY <1>3 DEF a, Running, Ran
<1>10. \A b \in Addresses :
         /\ Ran(b)' = Ran(b)
         /\ Running(b)' = Running(b) \ {e}
         /\ b # a => Succeeded(b)' = Succeeded(b)
  BY <1>2, <1>3, <1>5 DEF a, Ran, Running, Succeeded
<1>11. Succeeded(a)' = IF call[e].success THEN Succeeded(a) \cup {e} ELSE Succeeded(a)
  BY <1>2, <1>3, <1>5 DEF a, Succeeded
<1>12. \A o \in Executions : /\ call'[o].success = call[o].success
                             /\ call'[o].inPlace = call[o].inPlace
                             /\ call'[o].newState = call[o].newState
  BY <1>2, <1>5
<1>13. ReturnedFrom(e, a)
  BY <1>3, <1>4, <1>7, <1>8, <1>9, <1>10, <1>11, <1>12 DEF ReturnedFrom
<1>14. QED
  BY <1>3, <1>13

\* The other steps leave what ran, and every object, alone.
Calm ==
  /\ \A a \in Addresses :
       /\ Ran(a)' = Ran(a) /\ Running(a)' = Running(a) /\ Succeeded(a)' = Succeeded(a)
       /\ Deployed(a) => Deployed(a)' /\ contractStates'[a] = contractStates[a]
       /\ Deployed(a)' => Deployed(a) \/ (contractStates'[a] = a /\ Ran(a) = {})
       /\ \A e \in Ran(a) : call'[e] = call[e]
  /\ UNCHANGED <<updates, overlapped>>

LEMMA CalmSteps ==
  ASSUME TypeOK, [Next]_vars,
         ~\E e \in Executions : RunContract(e) \/ Return(e)
  PROVE  Calm
<1> USE ContractAssumption
<1>1. ASSUME NEW a \in Addresses, NEW code \in Codes, deployContract(a, code)
      PROVE  Calm
  <2>1. call' = call /\ UNCHANGED <<updates, overlapped>>
    BY <1>1 DEF deployContract
  <2>2. ~Deployed(a) /\ contractStates'[a] = a
    BY <1>1 DEF deployContract, Deployed, TypeOK
  <2>3. \A b \in Addresses \ {a} :
          Deployed(b)' = Deployed(b) /\ contractStates'[b] = contractStates[b]
    BY <1>1 DEF deployContract, Deployed, TypeOK
  <2>4. Ran(a) = {}
    BY <2>2 DEF Ran, TypeOK
  <2>5. \A b \in Addresses :
          Ran(b)' = Ran(b) /\ Running(b)' = Running(b) /\ Succeeded(b)' = Succeeded(b)
    BY <2>1 DEF Ran, Running, Succeeded
  <2>6. QED
    BY <2>1, <2>2, <2>3, <2>4, <2>5 DEF Calm
<1>2. ASSUME NEW a \in Addresses, NEW code \in Codes, upgradeContract(a, code)
      PROVE  Calm
  <2>1. call' = call /\ UNCHANGED <<contractStates, updates, overlapped>>
    BY <1>2 DEF upgradeContract
  <2>2. \A b \in Addresses : Deployed(b)' = Deployed(b)
    BY <1>2 DEF upgradeContract, Deployed, TypeOK
  <2>3. \A b \in Addresses :
          Ran(b)' = Ran(b) /\ Running(b)' = Running(b) /\ Succeeded(b)' = Succeeded(b)
    BY <2>1 DEF Ran, Running, Succeeded
  <2>4. QED
    BY <2>1, <2>2, <2>3 DEF Calm
<1>3. ASSUME NEW e \in Executions, NEW c, Become(e, c),
             call[e].at \in {"idle", "verifying"}, c.at \in {"verifying", "rejected"},
             UNCHANGED <<contracts, contractStates, updates, overlapped>>
      PROVE  Calm
  <2>1. /\ \A o \in Executions \ {e} : call'[o] = call[o]
        /\ call'[e] = c
    BY <1>3 DEF Become, TypeOK
  <2>2. \A b \in Addresses :
          Ran(b)' = Ran(b) /\ Running(b)' = Running(b) /\ Succeeded(b)' = Succeeded(b)
    BY <1>3, <2>1 DEF Ran, Running, Succeeded
  <2>3. \A b \in Addresses : \A o \in Ran(b) : call'[o] = call[o]
    BY <1>3, <2>1 DEF Ran
  <2>4. QED
    BY <1>3, <2>2, <2>3 DEF Calm, Deployed
<1>4. CASE UNCHANGED vars
  BY <1>4 DEF vars, Calm, Ran, Running, Succeeded, Deployed
<1>5. ASSUME NEW e \in Executions, NEW a \in Addresses, executeContract(e, a) PROVE Calm
  BY <1>3, <1>5 DEF executeContract
<1>6. ASSUME NEW e \in Executions, RejectCall(e) PROVE Calm
  BY <1>3, <1>6 DEF RejectCall
<1>7. QED
  BY <1>1, <1>2, <1>4, <1>5, <1>6 DEF Next

-----------------------------------------------------------------------------
(* Updates. The strengthening has one part per idea: no two contracts have *)
(* an object in common; a successful execution is in the object it brings  *)
(* back; and what that means for contracts of each kind.                   *)

ObjectsOwned ==
  \A a \in Addresses :
    /\ Deployed(a) => contractStates[a] \in Owned(a)
    /\ \A e \in Ran(a) : call[e].newState \in Owned(a)

Updating ==
  \A a \in Addresses : \A e \in Ran(a) :
    call[e].success => e \in updates[call[e].newState]

OneObject ==
  \A a \in Addresses :
    Deployed(a) /\ (\A e \in Ran(a) : call[e].inPlace) =>
      contractStates[a] = a /\ \A e \in Ran(a) : call[e].newState = a

OneAtATime ==
  \A a \in Addresses : Deployed(a) /\ a \notin overlapped =>
    /\ \A e, o \in Running(a) : e = o
    /\ Succeeded(a) \subseteq Held(a)
    /\ \A e \in Running(a) :
         call[e].success => Succeeded(a) \subseteq updates[call[e].newState]

LEMMA OwnedType == \A a \in Addresses : Owned(a) \subseteq Objects
BY DEF Owned, Objects, Ran

\* Running on an object updates it and no other that anyone has.
LEMMA RunObjects ==
  ASSUME TypeOK, ObjectsOwned, NEW e \in Executions, NEW a \in Addresses,
         NEW inPlace \in BOOLEAN, NEW updated \in BOOLEAN, NEW success \in BOOLEAN,
         NEW r \in Objects, Runs(e, a, inPlace, updated, success, r), RanOn(e, a)
  PROVE  /\ \A b \in Addresses \ {a} : \A x \in Owned(b) : updates'[x] = updates[x]
         /\ \A x \in Owned(a) : updates[x] \subseteq updates'[x]
         /\ ~inPlace => \A x \in Owned(a) : updates'[x] = updates[x]
         /\ updated => updates'[r] = updates[contractStates[a]] \cup {e}
         /\ r = IF inPlace THEN contractStates[a] ELSE e
         /\ r \in Owned(a) \cup {e} /\ contractStates[a] \in Owned(a)
<1>1. r = IF inPlace THEN contractStates[a] ELSE e
  BY DEF Runs, Updated
<1>2. contractStates[a] \in Owned(a)
  BY DEF ObjectsOwned, RanOn
<1>3. \A b \in Addresses : e \notin Owned(b)
  BY ContractAssumption DEF Owned, RanOn
<1>4. /\ \A x \in Objects : x # r => updates'[x] = updates[x]
      /\ updated => updates'[r] = updates[contractStates[a]] \cup {e}
      /\ ~updated => updates' = updates
  BY DEF Runs, TypeOK
<1>5. \A b \in Addresses \ {a} : r \notin Owned(b)
  BY <1>1, <1>2, <1>3, OwnedApart
<1>6. QED
  BY <1>1, <1>2, <1>3, <1>4, <1>5, OwnedType

\* The call that ran, and the calls that did not.
LEMMA RunCalls ==
  ASSUME TypeOK, NEW e \in Executions, NEW a \in Addresses,
         NEW inPlace, NEW updated, NEW success, NEW r,
         Runs(e, a, inPlace, updated, success, r), RanOn(e, a)
  PROVE  /\ call'[e].inPlace = inPlace /\ call'[e].success = success
         /\ call'[e].newState = r
         /\ success => updated
         /\ \A b \in Addresses : \A o \in Ran(b) : o # e /\ call'[o] = call[o]
         /\ \A b \in Addresses : /\ Running(b) \subseteq Ran(b)
                                 /\ Succeeded(b) \subseteq Ran(b)
                                 /\ Deployed(b)' = Deployed(b)
                                 /\ contractStates'[b] = contractStates[b]
<1>1. call'[e] = [at |-> "running", contract |-> a, inPlace |-> inPlace,
                  success |-> success, newState |-> r]
  BY DEF Runs, TypeOK
<1>2. \A b \in Addresses : \A o \in Ran(b) : o # e /\ call'[o] = call[o]
  BY DEF RanOn, Ran
<1>3. \A b \in Addresses : Running(b) \subseteq Ran(b) /\ Succeeded(b) \subseteq Ran(b)
  BY DEF Running, Ran, Succeeded
<1>4. success => updated
  BY DEF Runs
<1>5. \A b \in Addresses :
        Deployed(b)' = Deployed(b) /\ contractStates'[b] = contractStates[b]
  BY DEF RanOn, Deployed
<1>6. QED
  BY <1>1, <1>2, <1>3, <1>4, <1>5

LEMMA RunsAndReturns ==
  \A a \in Addresses : Running(a) \subseteq Ran(a) /\ Succeeded(a) \subseteq Ran(a)
BY DEF Running, Ran, Succeeded

KeptInv == ObjectsOwned /\ Updating /\ OneObject /\ OneAtATime

LEMMA KeptStep == TypeOK /\ KeptInv /\ [Next]_vars => KeptInv'
<1> SUFFICES ASSUME TypeOK, KeptInv, [Next]_vars PROVE KeptInv'
  OBVIOUS
<1>0. ObjectsOwned /\ Updating /\ OneObject /\ OneAtATime
  BY DEF KeptInv
<1>1. ASSUME NEW e \in Executions, RunContract(e) PROVE KeptInv'
  <2>1. PICK a \in Addresses, inPlace \in BOOLEAN, updated \in BOOLEAN,
             success \in BOOLEAN, r \in Objects :
          Runs(e, a, inPlace, updated, success, r) /\ RanOn(e, a)
    BY <1>1, RunEffect
  <2>2. /\ \A b \in Addresses \ {a} : \A x \in Owned(b) : updates'[x] = updates[x]
        /\ \A x \in Owned(a) : updates[x] \subseteq updates'[x]
        /\ updated => updates'[r] = updates[contractStates[a]] \cup {e}
        /\ r = IF inPlace THEN contractStates[a] ELSE e
        /\ r \in Owned(a) \cup {e} /\ contractStates[a] \in Owned(a)
    BY <1>0, <2>1, RunObjects
  <2>3. /\ call'[e].inPlace = inPlace /\ call'[e].success = success
        /\ call'[e].newState = r /\ (success => updated)
        /\ \A b \in Addresses : \A o \in Ran(b) : o # e /\ call'[o] = call[o]
        /\ \A b \in Addresses : /\ Running(b) \subseteq Ran(b)
                                /\ Succeeded(b) \subseteq Ran(b)
                                /\ Deployed(b)' = Deployed(b)
                                /\ contractStates'[b] = contractStates[b]
    BY <2>1, RunCalls
  <2>4. \A b \in Addresses :
          /\ Ran(b)' = IF b = a THEN Ran(b) \cup {e} ELSE Ran(b)
          /\ Running(b)' = IF b = a THEN Running(b) \cup {e} ELSE Running(b)
          /\ Succeeded(b)' = Succeeded(b)
    BY <2>1 DEF RanOn
  <2>5. \A b \in Addresses :
          Owned(b)' = IF b = a THEN Owned(b) \cup {e} ELSE Owned(b)
    BY <2>4 DEF Owned
  <2>6. ObjectsOwned'
    BY <1>0, <2>2, <2>3, <2>4, <2>5 DEF ObjectsOwned
  <2>7. \A b \in Addresses : \A x \in Owned(b) : updates[x] \subseteq updates'[x]
    BY <2>2
  <2>8. Updating'
    <3> SUFFICES ASSUME NEW b \in Addresses, NEW o \in Ran(b)', call'[o].success
                 PROVE  o \in updates'[call'[o].newState]
      BY DEF Updating
    <3>1. CASE o = e
      BY <2>2, <2>3, <3>1
    <3>2. CASE o # e
      <4>1. o \in Ran(b) /\ call'[o] = call[o]
        BY <2>3, <2>4, <3>2
      <4>2. call[o].newState \in Owned(b) /\ o \in updates[call[o].newState]
        BY <1>0, <4>1 DEF ObjectsOwned, Updating
      <4>3. QED
        BY <2>7, <4>1, <4>2
    <3>3. QED
      BY <3>1, <3>2
  <2>9. OneObject'
    BY <1>0, <2>2, <2>3, <2>4 DEF OneObject
  <2>10. OneAtATime'
    <3> SUFFICES ASSUME NEW b \in Addresses, Deployed(b), b \notin overlapped'
                 PROVE  /\ \A i, o \in Running(b)' : i = o
                        /\ Succeeded(b) \subseteq updates'[contractStates[b]]
                        /\ \A o \in Running(b)' : call'[o].success =>
                             Succeeded(b) \subseteq updates'[call'[o].newState]
      BY <2>3, <2>4 DEF OneAtATime, Held
    <3>1. overlapped' = IF Running(a) = {} THEN overlapped ELSE overlapped \cup {a}
      BY <2>1 DEF RanOn
    <3>2. b \notin overlapped
      BY <3>1
    <3>3. /\ \A i, o \in Running(b) : i = o
          /\ Succeeded(b) \subseteq updates[contractStates[b]]
          /\ \A o \in Running(b) : call[o].success =>
               Succeeded(b) \subseteq updates[call[o].newState]
      BY <1>0, <3>2 DEF OneAtATime, Held
    <3>4. contractStates[b] \in Owned(b)
      BY <1>0 DEF ObjectsOwned
    <3>5. CASE b = a
      <4>1. Running(a) = {} /\ Running(a)' = {e}
        BY <2>4, <3>1, <3>5
      <4>2. QED
        BY <2>2, <2>3, <2>7, <3>3, <3>4, <3>5, <4>1
    <3>6. CASE b # a
      <4>1. Running(b)' = Running(b)
        BY <2>4, <3>6
      <4>2. \A o \in Running(b) : call'[o] = call[o] /\ call[o].newState \in Owned(b)
        BY <1>0, <2>3 DEF ObjectsOwned
      <4>3. QED
        BY <2>7, <3>3, <3>4, <4>1, <4>2
    <3>7. QED
      BY <3>5, <3>6
  <2>11. QED
    BY <2>6, <2>8, <2>9, <2>10 DEF KeptInv
<1>2. ASSUME NEW e \in Executions, Return(e) PROVE KeptInv'
  <2>1. PICK a \in Addresses : ReturnedFrom(e, a)
    BY <1>2, ReturnEffect
  <2>2. /\ Deployed(a) /\ e \in Running(a) /\ e \in Ran(a)
        /\ \A b \in Addresses :
             /\ Deployed(b)' = Deployed(b)
             /\ Ran(b)' = Ran(b) /\ Owned(b)' = Owned(b)
             /\ Running(b)' = Running(b) \ {e}
             /\ b # a => Succeeded(b)' = Succeeded(b)
             /\ b # a => contractStates'[b] = contractStates[b]
             /\ Ran(b) \subseteq Executions
        /\ Succeeded(a)' = IF call[e].success THEN Succeeded(a) \cup {e} ELSE Succeeded(a)
        /\ contractStates'[a] =
             IF call[e].success THEN call[e].newState ELSE contractStates[a]
    BY <2>1 DEF ReturnedFrom, Owned, Ran
  <2>3. /\ \A o \in Executions : /\ call'[o].success = call[o].success
                                 /\ call'[o].inPlace = call[o].inPlace
                                 /\ call'[o].newState = call[o].newState
        /\ updates' = updates /\ overlapped' = overlapped
    BY <2>1 DEF ReturnedFrom
  <2>4. ObjectsOwned'
    BY <1>0, <2>2, <2>3 DEF ObjectsOwned
  <2>5. Updating'
    BY <1>0, <2>2, <2>3 DEF Updating
  <2>6. OneObject'
    BY <1>0, <2>2, <2>3 DEF OneObject
  <2>7. OneAtATime'
    <3> SUFFICES ASSUME NEW b \in Addresses, Deployed(b), b \notin overlapped
                 PROVE  /\ \A i, o \in Running(b)' : i = o
                        /\ Succeeded(b)' \subseteq updates[contractStates'[b]]
                        /\ \A o \in Running(b)' : call[o].success =>
                             Succeeded(b)' \subseteq updates[call[o].newState]
      BY <2>2, <2>3, RunsAndReturns DEF OneAtATime, Held
    <3>1. /\ \A i, o \in Running(b) : i = o
          /\ Succeeded(b) \subseteq updates[contractStates[b]]
          /\ \A o \in Running(b) : call[o].success =>
               Succeeded(b) \subseteq updates[call[o].newState]
      BY <1>0 DEF OneAtATime, Held
    <3>2. call[e].success => e \in updates[call[e].newState]
      BY <1>0, <2>2 DEF Updating
    <3>3. CASE b = a
      BY <2>2, <3>1, <3>2, <3>3
    <3>4. CASE b # a
      BY <2>2, <3>1, <3>4
    <3>5. QED
      BY <3>3, <3>4
  <2>8. QED
    BY <2>4, <2>5, <2>6, <2>7 DEF KeptInv
<1>3. ASSUME ~\E e \in Executions : RunContract(e) \/ Return(e) PROVE KeptInv'
  <2>1. Calm
    BY <1>3, CalmSteps
  <2>2. \A b \in Addresses : Owned(b)' = Owned(b) /\ b \in Owned(b)
    BY <2>1 DEF Calm, Owned
  <2>3. ObjectsOwned'
    BY <1>0, <2>1, <2>2 DEF ObjectsOwned, Calm
  <2>4. Updating'
    BY <1>0, <2>1 DEF Updating, Calm
  <2>5. OneObject'
    BY <1>0, <2>1 DEF OneObject, Calm
  <2>6. OneAtATime'
    <3> SUFFICES ASSUME NEW b \in Addresses, Deployed(b)', b \notin overlapped'
                 PROVE  /\ \A i, o \in Running(b)' : i = o
                        /\ Succeeded(b)' \subseteq Held(b)'
                        /\ \A o \in Running(b)' : call'[o].success =>
                             Succeeded(b)' \subseteq updates'[call'[o].newState]
      BY DEF OneAtATime
    <3>1. CASE Deployed(b)
      BY <1>0, <2>1, <3>1, RunsAndReturns DEF OneAtATime, Calm, Held
    <3>2. CASE ~Deployed(b)
      BY <2>1, <3>2, RunsAndReturns DEF Calm
    <3>3. QED
      BY <3>1, <3>2
  <2>7. QED
    BY <2>3, <2>4, <2>5, <2>6 DEF KeptInv
<1>4. QED
  BY <1>1, <1>2, <1>3

LEMMA KeptInit == Init => KeptInv
BY DEF Init, KeptInv, ObjectsOwned, Updating, OneObject, OneAtATime, Deployed, Ran

\* An update told of as successful stays: always when executions update in
\* place, and when they replace the state if they did not overlap.
THEOREM SuccessfulUpdatesStay == Spec => []UpdatesKept
<1>1. KeptInv => UpdatesKept
  <2> SUFFICES ASSUME KeptInv, NEW a \in Addresses, Deployed(a),
                      (\A e \in Ran(a) : call[e].inPlace) \/ a \notin overlapped
               PROVE  Succeeded(a) \subseteq Held(a)
    BY DEF UpdatesKept
  <2>1. CASE a \notin overlapped
    BY <2>1 DEF KeptInv, OneAtATime
  <2>2. CASE \A e \in Ran(a) : call[e].inPlace
    <3>1. contractStates[a] = a /\ \A e \in Ran(a) : call[e].newState = a
      BY <2>2 DEF KeptInv, OneObject
    <3>2. \A e \in Succeeded(a) : e \in Ran(a) /\ call[e].success
      BY DEF Succeeded, Ran
    <3>3. QED
      BY <3>1, <3>2 DEF KeptInv, Updating, Held
  <2>3. QED
    BY <2>1, <2>2
<1>2. QED
  BY <1>1, KeptInit, KeptStep, EngineTypeCorrect, PTL DEF Spec

-----------------------------------------------------------------------------
(* Failures.                                                               *)

\* Of contracts whose executions all replace the state: an object nobody has
\* written back holds what succeeded before it, and the execution it is of.
CleanObjects ==
  \A a \in Addresses :
    /\ ~Deployed(a) => updates[a] = {}
    /\ Deployed(a) /\ (\A e \in Ran(a) : ~call[e].inPlace) =>
         /\ Held(a) \subseteq Succeeded(a)
         /\ \A e \in Running(a) :
              call[e].success => updates[call[e].newState] \subseteq Succeeded(a) \cup {e}

LEMMA CleanStep == TypeOK /\ KeptInv /\ CleanObjects /\ [Next]_vars => CleanObjects'
<1> SUFFICES ASSUME TypeOK, KeptInv, CleanObjects, [Next]_vars PROVE CleanObjects'
  OBVIOUS
<1>0. ObjectsOwned
  BY DEF KeptInv
<1>1. ASSUME NEW e \in Executions, RunContract(e) PROVE CleanObjects'
  <2>1. PICK a \in Addresses, inPlace \in BOOLEAN, updated \in BOOLEAN,
             success \in BOOLEAN, r \in Objects :
          Runs(e, a, inPlace, updated, success, r) /\ RanOn(e, a)
    BY <1>1, RunEffect
  <2>2. /\ \A b \in Addresses \ {a} : \A x \in Owned(b) : updates'[x] = updates[x]
        /\ ~inPlace => \A x \in Owned(a) : updates'[x] = updates[x]
        /\ updated => updates'[r] = updates[contractStates[a]] \cup {e}
        /\ contractStates[a] \in Owned(a)
    BY <1>0, <2>1, RunObjects
  <2>3. /\ call'[e].inPlace = inPlace /\ call'[e].success = success
        /\ call'[e].newState = r /\ (success => updated)
        /\ \A b \in Addresses : \A o \in Ran(b) : o # e /\ call'[o] = call[o]
        /\ \A b \in Addresses : /\ Running(b) \subseteq Ran(b)
                                /\ Deployed(b)' = Deployed(b)
                                /\ contractStates'[b] = contractStates[b]
    BY <2>1, RunCalls
  <2>4. \A b \in Addresses :
          /\ Ran(b)' = IF b = a THEN Ran(b) \cup {e} ELSE Ran(b)
          /\ Running(b)' = IF b = a THEN Running(b) \cup {e} ELSE Running(b)
          /\ Succeeded(b)' = Succeeded(b)
    BY <2>1 DEF RanOn
  <2>5. ASSUME NEW b \in Addresses, ~Deployed(b) PROVE updates'[b] = {}
    <3>1. b # a /\ b \in Owned(b)
      BY <2>1, <2>5 DEF RanOn, Owned
    <3>2. QED
      BY <2>2, <2>5, <3>1 DEF CleanObjects
  <2>6. ASSUME NEW b \in Addresses, Deployed(b), \A o \in Ran(b)' : ~call'[o].inPlace
        PROVE  /\ updates'[contractStates[b]] \subseteq Succeeded(b)
               /\ \A o \in Running(b)' : call'[o].success =>
                    updates'[call'[o].newState] \subseteq Succeeded(b) \cup {o}
    <3>1. \A o \in Ran(b) : ~call[o].inPlace
      BY <2>3, <2>4, <2>6
    <3>2. /\ updates[contractStates[b]] \subseteq Succeeded(b)
          /\ \A o \in Running(b) : call[o].success =>
               updates[call[o].newState] \subseteq Succeeded(b) \cup {o}
      BY <2>6, <3>1 DEF CleanObjects, Held
    <3>3. \A x \in Owned(b) : updates'[x] = updates[x]
      BY <2>2, <2>3, <2>4, <2>6
    <3>4. /\ contractStates[b] \in Owned(b)
          /\ \A o \in Running(b) : call'[o] = call[o] /\ call[o].newState \in Owned(b)
      BY <1>0, <2>3, <2>6 DEF ObjectsOwned
    <3>5. \A o \in Running(b) : call'[o].success =>
            updates'[call'[o].newState] \subseteq Succeeded(b) \cup {o}
      BY <3>2, <3>3, <3>4
    <3>6. b = a => (success => updates'[r] \subseteq Succeeded(b) \cup {e})
      BY <2>2, <2>3, <3>2
    <3>7. QED
      BY <2>3, <2>4, <3>2, <3>3, <3>4, <3>5, <3>6
  <2>7. QED
    BY <2>3, <2>4, <2>5, <2>6 DEF CleanObjects, Held
<1>2. ASSUME NEW e \in Executions, Return(e) PROVE CleanObjects'
  <2>1. PICK a \in Addresses : ReturnedFrom(e, a)
    BY <1>2, ReturnEffect
  <2>2. /\ Deployed(a) /\ e \in Running(a)
        /\ \A b \in Addresses :
             /\ Deployed(b)' = Deployed(b)
             /\ Ran(b)' = Ran(b) /\ Ran(b) \subseteq Executions
             /\ Running(b)' = Running(b) \ {e} /\ Running(b) \subseteq Executions
             /\ b # a => Succeeded(b)' = Succeeded(b)
             /\ b # a => contractStates'[b] = contractStates[b]
        /\ Succeeded(a)' = IF call[e].success THEN Succeeded(a) \cup {e} ELSE Succeeded(a)
        /\ contractStates'[a] =
             IF call[e].success THEN call[e].newState ELSE contractStates[a]
    BY <2>1 DEF ReturnedFrom, Ran, Running
  <2>3. /\ \A o \in Executions : /\ call'[o].success = call[o].success
                                 /\ call'[o].inPlace = call[o].inPlace
                                 /\ call'[o].newState = call[o].newState
        /\ updates' = updates
    BY <2>1 DEF ReturnedFrom
  <2>4. ASSUME NEW b \in Addresses, Deployed(b), \A o \in Ran(b) : ~call[o].inPlace
        PROVE  /\ updates[contractStates'[b]] \subseteq Succeeded(b)'
               /\ \A o \in Running(b)' : call[o].success =>
                    updates[call[o].newState] \subseteq Succeeded(b)' \cup {o}
    <3>1. /\ updates[contractStates[b]] \subseteq Succeeded(b)
          /\ \A o \in Running(b) : call[o].success =>
               updates[call[o].newState] \subseteq Succeeded(b) \cup {o}
      BY <2>4 DEF CleanObjects, Held
    <3>2. CASE b = a
      BY <2>2, <3>1, <3>2
    <3>3. CASE b # a
      BY <2>2, <3>1, <3>3
    <3>4. QED
      BY <3>2, <3>3
  <2>5. QED
    BY <2>2, <2>3, <2>4 DEF CleanObjects, Held
<1>3. ASSUME ~\E e \in Executions : RunContract(e) \/ Return(e) PROVE CleanObjects'
  <2>1. Calm
    BY <1>3, CalmSteps
  <2>2. ASSUME NEW b \in Addresses, Deployed(b)', ~Deployed(b)
        PROVE  Held(b)' = {} /\ Running(b)' = {}
    BY <2>1, <2>2, RunsAndReturns DEF Calm, CleanObjects, Held
  <2>3. ASSUME NEW b \in Addresses, Deployed(b), \A o \in Ran(b)' : ~call'[o].inPlace
        PROVE  /\ Held(b)' \subseteq Succeeded(b)'
               /\ \A o \in Running(b)' : call'[o].success =>
                    updates'[call'[o].newState] \subseteq Succeeded(b)' \cup {o}
    <3>1. \A o \in Ran(b) : ~call[o].inPlace
      BY <2>1, <2>3 DEF Calm
    <3>2. QED
      BY <2>1, <2>3, <3>1, RunsAndReturns DEF Calm, CleanObjects, Held
  <2>4. \A b \in Addresses : ~Deployed(b)' => updates'[b] = {}
    BY <2>1 DEF Calm, CleanObjects
  <2>5. QED
    BY <2>2, <2>3, <2>4 DEF CleanObjects
<1>4. QED
  BY <1>1, <1>2, <1>3

\* Where executions replace the state, a failed one leaves nothing in it and
\* one that is running is not seen, however they overlap.
THEOREM FailedUpdatesVanish == Spec => []FailuresLeaveNothing
<1>1. Init => CleanObjects
  BY DEF Init, CleanObjects, Deployed, Objects
<1>2. CleanObjects => FailuresLeaveNothing
  BY DEF CleanObjects, FailuresLeaveNothing
<1>3. QED
  BY <1>1, <1>2, KeptInit, KeptStep, CleanStep, EngineTypeCorrect, PTL DEF Spec
=============================================================================
