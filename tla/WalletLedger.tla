---------------------------- MODULE WalletLedger ----------------------------
(***************************************************************************)
(* What the wallet service promises of its three tables, with every        *)
(* request a single step: a deposit credits an active wallet, a withdrawal *)
(* moves money from the available to the locked balance at most once per   *)
(* idempotency key, and each leaves one ledger entry.  Wallet.tla, where a *)
(* request is a database transaction of many statements interleaved with   *)
(* those of other requests, is shown to implement this module.             *)
(***************************************************************************)
EXTENDS Integers, Sequences

CONSTANTS Users,        \* wallet owners; wallets.user_id is unique
          Keys,         \* idempotency keys clients choose
          TxIds,        \* identities of wallet transactions
          MaxBalance,   \* the largest DECIMAL(30,8)
          Opening,      \* available balance a wallet is provisioned with
          Null          \* a SQL NULL

VARIABLES wallet,       \* the wallets table: one row per user
          keyRow,       \* the idempotency_keys table
          ledger        \* wallet_transactions per wallet, in commit order

tables == <<wallet, keyRow, ledger>>

Operations == {"DEPOSIT", "WITHDRAW"}
Statuses   == {"ACTIVE", "FROZEN", "CLOSED"}
NoKeyRow   == [exists |-> FALSE, body |-> Null]

Init ==
  /\ wallet = [u \in Users |-> [available |-> Opening, locked |-> 0, status |-> "ACTIVE"]]
  /\ keyRow = [slot \in Users \X Keys \X Operations |-> NoKeyRow]
  /\ ledger = [u \in Users |-> << >>]

\* A deposit of amount: COMPLETED at once, no idempotency record.
Deposit(u, k, id, amount) ==
  /\ wallet[u].status = "ACTIVE"
  /\ wallet[u].available + amount <= MaxBalance
  /\ wallet' = [wallet EXCEPT ![u].available = @ + amount]
  /\ ledger' = [ledger EXCEPT ![u] = Append(@,
        [id |-> id, type |-> "DEPOSIT", status |-> "COMPLETED", amount |-> amount,
         before |-> wallet[u].available, after |-> wallet[u].available + amount, ref |-> k])]
  /\ UNCHANGED keyRow

\* A withdrawal of amount: PENDING, the amount locked, the key used up.
Withdraw(u, k, id, amount) ==
  /\ ~ keyRow[<<u, k, "WITHDRAW">>].exists
  /\ wallet[u].status = "ACTIVE"
  /\ amount <= wallet[u].available
  /\ wallet[u].locked + amount <= MaxBalance
  /\ wallet' = [wallet EXCEPT ![u].available = @ - amount, ![u].locked = @ + amount]
  /\ ledger' = [ledger EXCEPT ![u] = Append(@,
        [id |-> id, type |-> "WITHDRAWAL", status |-> "PENDING", amount |-> amount,
         before |-> wallet[u].available, after |-> wallet[u].available - amount, ref |-> k])]
  /\ keyRow' = [keyRow EXCEPT ![<<u, k, "WITHDRAW">>] = [exists |-> TRUE, body |-> id]]

\* An operator freezes, closes or reactivates a wallet.
SetStatus(u, s) ==
  /\ wallet' = [wallet EXCEPT ![u].status = s]
  /\ UNCHANGED <<keyRow, ledger>>

Next == \E u \in Users :
  \/ \E k \in Keys, id \in TxIds, amount \in 1..MaxBalance :
        Deposit(u, k, id, amount) \/ Withdraw(u, k, id, amount)
  \/ \E s \in Statuses : SetStatus(u, s)

Spec == Init /\ [][Next]_tables
=============================================================================
