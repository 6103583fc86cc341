------------------------------- MODULE Mempool -------------------------------
(***************************************************************************)
(* src/mempool/Mempool.js: the pool of transactions that wait for a block, *)
(* each with the time at which it was added. All methods run in one turn   *)
(* of the event loop. The clock does not go back here.                     *)
(*                                                                         *)
(* Left out: the queries, which change nothing. prioritizeTransactions is  *)
(* one of them: it divides a fee no Transaction has, compares NaN with     *)
(* NaN, and returns the transactions in the order of their arrival.        *)
(***************************************************************************)
EXTENDS Integers, FiniteSets, Functions

CONSTANTS
  Payments,             \* senders, recipients and amounts
  maxSize,
  maxTransactionAge,
  MaxTime               \* bound: the clock stops here

ASSUME MempoolAssumption ==
  /\ maxSize \in Nat
  /\ maxTransactionAge \in Nat
  /\ MaxTime \in Nat

\* A transaction is a payment and the moment it was made at: the hash is
\* taken of these and of a nonce that is always 0.
Transactions == [payment : Payments, timestamp : Nat]

VARIABLES
  transactions,   \* this.transactions: by transaction, the time of its arrival
  withdrawn,      \* history: transactions that were taken out since they came
  now             \* Date.now()

poolVars == <<transactions, withdrawn, now>>

PoolInit ==
  /\ transactions = [tx \in {} |-> 0]
  /\ withdrawn = {}
  /\ now = 0

hasTransaction(tx) == tx \in DOMAIN transactions

Without(gone) == Restrict(transactions, DOMAIN transactions \ gone)

\* Mutant: a transaction of just the maximal age is old.
Old_Inclusive ==
  {tx \in DOMAIN transactions : now - transactions[tx] >= maxTransactionAge}

\* The transactions that removeOldTransactions removes.
Old == {tx \in DOMAIN transactions : now - transactions[tx] > maxTransactionAge}

\* Mutant: nothing is evicted before the limit is passed.
Full_Late == Cardinality(DOMAIN transactions) > maxSize

Full == Cardinality(DOMAIN transactions) >= maxSize

\* addTransaction: a full pool is rid of what is old, and takes the
\* transaction whether or not that made room.
addTransaction(tx) ==
  LET room == IF Full THEN Without(Old) ELSE transactions
  IN /\ transactions' =
          [h \in DOMAIN room \cup {tx} |-> IF h \in DOMAIN room THEN room[h] ELSE now]
     /\ withdrawn' = withdrawn \ {tx}
     /\ UNCHANGED now

removeOldTransactions ==
  /\ transactions' = Without(Old)
  /\ UNCHANGED <<withdrawn, now>>

\* removeTransaction, removeConfirmedTransactions and clear, for one, some
\* and all of them.
removeConfirmedTransactions(confirmed) ==
  /\ transactions' = Without(confirmed)
  /\ withdrawn' = withdrawn \cup (confirmed \cap DOMAIN transactions)
  /\ UNCHANGED now

\* The signature's promise is true, and a balance that is a promise is
\* smaller than no amount: neither refuses a transaction. The blockchain has
\* no hasTransaction; inChain is what it would say.
validateTransaction(tx, inChain) == ~hasTransaction(tx) /\ ~inChain

\* cleanMempool asks of the pool's own transactions whether they are valid.
cleanMempool(inChain) ==
  LET invalid == {tx \in DOMAIN transactions : ~validateTransaction(tx, tx \in inChain)}
  IN removeConfirmedTransactions(invalid)

Tick ==
  /\ now < MaxTime
  /\ now' = now + 1
  /\ UNCHANGED <<transactions, withdrawn>>

-----------------------------------------------------------------------------
(* Properties.                                                             *)

PoolTypeOK ==
  /\ transactions \in [DOMAIN transactions -> 0..now]
  /\ DOMAIN transactions \subseteq Transactions
  /\ withdrawn \subseteq Transactions
  /\ now \in 0..MaxTime

\* The limit on the size is soft (addTransaction does not look again after
\* evicting), but it is what a rate allows: a pool above its limit holds
\* only transactions that arrived within one maximal age of each other.
OverflowIsYoung ==
  Cardinality(DOMAIN transactions) > maxSize =>
    \A tx, other \in DOMAIN transactions :
      transactions[tx] - transactions[other] =< maxTransactionAge
=============================================================================
