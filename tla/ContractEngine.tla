--------------------------- MODULE ContractEngine ---------------------------
(***************************************************************************)
(* src/contracts/ContractEngine.js: contracts, their states, and the       *)
(* executions that read a state, run the contract on it and write it back. *)
(*                                                                         *)
(* What a state holds is abstracted to the executions that updated it. An  *)
(* execution updates the state in place or replaces it by a new object,    *)
(* and does so in one turn: the one in which the engine reads the state.   *)
(* The contract may await whatever it likes after that.                    *)
(*                                                                         *)
(* The proof an address is derived from is external and taken to be fresh, *)
(* so that no two deployments share an address; each brings its own        *)
(* initial state.                                                          *)
(***************************************************************************)
EXTENDS Integers, FiniteSets

CONSTANTS
  Addresses,
  Executions,    \* the calls of executeContract, each made once
  None,
  Codes,
  Safe           \* the codes in which verifyCodeSafety finds nothing

ASSUME ContractAssumption ==
  /\ Safe \subseteq Codes
  /\ Addresses \cap Executions = {}
  /\ None \notin Addresses \cup Executions
  /\ None \notin [code : Codes, totalExecutions : Nat]

\* State objects, named by the contract that was deployed with one or by the
\* execution that made one.
Objects == Addresses \cup Executions

VARIABLES
  contracts,         \* this.contracts, by address
  contractStates,    \* this.contractStates: the object each contract has
  updates,           \* the executions that updated each object
  call,              \* where each execution is, or how it ended
  overlapped         \* history: the contracts two executions ran on at once

vars == <<contracts, contractStates, updates, call, overlapped>>

Init ==
  /\ contracts = [a \in Addresses |-> None]
  /\ contractStates = [a \in Addresses |-> None]
  /\ updates = [r \in Objects |-> {}]
  /\ call = [e \in Executions |-> [at |-> "idle"]]
  /\ overlapped = {}

Become(e, state) == call' = [call EXCEPT ![e] = state]

-----------------------------------------------------------------------------
(* Deployment and upgrade. Both await first, but what they looked at       *)
(* before cannot change, so the turn that ends them stands for all.        *)

deployContract(a, code) ==
  /\ contracts[a] = None
  /\ code \in Safe
  /\ contracts' = [contracts EXCEPT ![a] = [code |-> code, totalExecutions |-> 0]]
  /\ contractStates' = [contractStates EXCEPT ![a] = a]
  /\ UNCHANGED <<updates, call, overlapped>>

upgradeContract(a, code) ==
  /\ contracts[a] # None
  /\ code \in Safe
  /\ contracts' = [contracts EXCEPT ![a].code = code]
  /\ UNCHANGED <<contractStates, updates, call, overlapped>>

-----------------------------------------------------------------------------
(* executeContract.                                                        *)

\* Mutant: the contract is not looked for.
executeContract_Unknown(e, a) ==
  /\ call[e].at = "idle"
  /\ Become(e, [at |-> "verifying", contract |-> a])
  /\ UNCHANGED <<contracts, contractStates, updates, overlapped>>

\* Up to the await of the signature.
executeContract(e, a) ==
  /\ call[e].at = "idle"
  /\ contracts[a] # None
  /\ Become(e, [at |-> "verifying", contract |-> a])
  /\ UNCHANGED <<contracts, contractStates, updates, overlapped>>

\* "Invalid contract call signature".
RejectCall(e) ==
  /\ call[e].at = "verifying"
  /\ Become(e, [at |-> "rejected"])
  /\ UNCHANGED <<contracts, contractStates, updates, overlapped>>

Running(a) == {e \in Executions : call[e].at = "running" /\ call[e].contract = a}

\* Mutant: the contract is given a copy of its state.
Updated_Copy(e, a, inPlace) == e

\* The object that running e on contract a updates.
Updated(e, a, inPlace) == IF inPlace THEN contractStates[a] ELSE e

\* executeInSandbox in the turn that reads the state: the contract updates
\* it, or fails, be it before the update or after; an error in counting its
\* gas is a failure too.
RunContract(e) ==
  /\ call[e].at = "verifying"
  /\ LET a == call[e].contract
     IN /\ \E inPlace, updated, success \in BOOLEAN :
             LET r == Updated(e, a, inPlace)
             IN /\ success => updated
                /\ updates' = IF updated
                     THEN [updates EXCEPT ![r] = updates[contractStates[a]] \cup {e}]
                     ELSE updates
                /\ Become(e, [at |-> "running", contract |-> a, inPlace |-> inPlace,
                              success |-> success, newState |-> r])
        /\ overlapped' = IF Running(a) = {} THEN overlapped ELSE overlapped \cup {a}
  /\ UNCHANGED <<contracts, contractStates>>

\* Mutant: a failed execution's state is written too.
Writes_Always(e) == TRUE

Writes(e) == call[e].success

\* The contract has settled: the state is written back, or the failure told.
Return(e) ==
  /\ call[e].at = "running"
  /\ LET a == call[e].contract
     IN IF Writes(e)
        THEN /\ contractStates' = [contractStates EXCEPT ![a] = call[e].newState]
             /\ contracts' = [contracts EXCEPT ![a].totalExecutions = @ + 1]
        ELSE UNCHANGED <<contractStates, contracts>>
  /\ Become(e, [call[e] EXCEPT !.at = "returned"])
  /\ UNCHANGED <<updates, overlapped>>

-----------------------------------------------------------------------------

Next ==
  \/ \E a \in Addresses, code \in Codes : deployContract(a, code) \/ upgradeContract(a, code)
  \/ \E e \in Executions :
       \/ \E a \in Addresses : executeContract(e, a)
       \/ RejectCall(e)
       \/ RunContract(e)
       \/ Return(e)

Spec == Init /\ [][Next]_vars

-----------------------------------------------------------------------------
(* Properties.                                                             *)

Calls ==
  [at : {"idle", "rejected"}]
  \cup [at : {"verifying"}, contract : Addresses]
  \cup [at : {"running", "returned"}, contract : Addresses, inPlace : BOOLEAN,
        success : BOOLEAN, newState : Objects]

Deployed(a) == contracts[a] # None

\* The state is well-formed; a deployed contract has an object for its state,
\* and calls are about deployed contracts.
TypeOK ==
  /\ contracts \in [Addresses -> [code : Codes, totalExecutions : Nat] \cup {None}]
  /\ contractStates \in [Addresses -> Objects \cup {None}]
  /\ updates \in [Objects -> SUBSET Executions]
  /\ call \in [Executions -> Calls]
  /\ overlapped \subseteq Addresses
  /\ \A a \in Addresses : Deployed(a) => contractStates[a] \in Objects
  /\ \A e \in Executions :
       call[e].at \in {"verifying", "running", "returned"} => Deployed(call[e].contract)

\* The executions of a that were told of success.
Succeeded(a) ==
  {e \in Executions :
     call[e].at = "returned" /\ call[e].contract = a /\ call[e].success}

Held(a) == updates[contractStates[a]]

Ran(a) ==
  {e \in Executions : call[e].at \in {"running", "returned"} /\ call[e].contract = a}

\* An update whose caller was told of success is in the state for good, if
\* the contract's executions all update it in place, however they overlap; or
\* if they never overlapped, whatever they do.
UpdatesKept ==
  \A a \in Addresses :
    Deployed(a) /\ ((\A e \in Ran(a) : call[e].inPlace) \/ a \notin overlapped) =>
      Succeeded(a) \subseteq Held(a)

\* The state of a contract whose executions all replace it holds successful
\* executions of this contract and nothing else: no failed one, none running.
FailuresLeaveNothing ==
  \A a \in Addresses :
    Deployed(a) /\ (\A e \in Ran(a) : ~call[e].inPlace) => Held(a) \subseteq Succeeded(a)
=============================================================================
