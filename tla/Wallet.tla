------------------------------- MODULE Wallet -------------------------------
(***************************************************************************)
(* Deposits and withdrawals of the wallet service at the grain of their    *)
(* SQL statements.  A deposit runs at READ COMMITTED, a withdrawal at      *)
(* SERIALIZABLE; both take the wallet's row lock with SELECT ... FOR       *)
(* UPDATE, and a withdrawal first inserts its idempotency key under a      *)
(* unique index.  What Postgres and Prisma do between the statements       *)
(* (locks, snapshots, roll-backs at any moment, answers lost after the     *)
(* commit) is modelled from how the code uses them.                        *)
(***************************************************************************)
EXTENDS Integers, Sequences

CONSTANTS Users,        \* wallet owners
          Keys,         \* idempotency keys
          Requests,     \* HTTP requests; each runs in a connection of its own
          Currencies,   \* currencies a request may name
          Amounts,      \* amounts a request may carry, 0 included
          Forms,        \* what clients ask for, of all that RequestForm allows
          MaxBalance,   \* the largest DECIMAL(30,8)
          Opening,      \* available balance a wallet is provisioned with
          DbTypes,      \* names of the enum types the database has
          Null          \* a SQL NULL, an absent value

TxIds      == Requests  \* a wallet transaction is named after the request that creates it
Operations == {"DEPOSIT", "WITHDRAW"}
Statuses   == {"ACTIVE", "FROZEN", "CLOSED"}

\* Rows of wallets, wallet_transactions and idempotency_keys, and the ones a
\* transaction has written but not committed.
RowVersion  == [available : Int, locked : Int, status : Statuses]
EntryRecord == [id : TxIds, type : {"DEPOSIT", "WITHDRAWAL"}, status : {"COMPLETED", "PENDING"},
                amount : Amounts, before : Int, after : Int, ref : Keys]
KeyVersion  == [exists : BOOLEAN, body : TxIds \cup {Null}]
WriteSet    == [row : RowVersion \cup {Null}, entry : EntryRecord \cup {Null},
                key : KeyVersion \cup {Null}]

\* What a client asks for, and what a withdrawal's snapshot shows it.
RequestForm == [op : Operations, user : Users, key : Keys \cup {Null},
                currency : Currencies, amount : Amounts]
Snapshot    == [row : RowVersion, key : KeyVersion, posted : Seq(EntryRecord)]

ASSUME WalletConstants ==
  /\ Amounts \subseteq Nat
  /\ Forms \subseteq RequestForm
  /\ MaxBalance \in Nat
  /\ Opening \in 0..MaxBalance
  /\ Null \notin Requests /\ Null \notin Keys
  /\ Null \notin KeyVersion /\ Null \notin Snapshot

VARIABLES wallet, keyRow, ledger,  \* the committed tables, as in WalletLedger
          rowLock,    \* per wallet row: the request whose transaction locked it
          keyLock,    \* per key slot: the request with an uncommitted insert
          req,        \* what each request asks for
          pc,         \* the statement its handler executes next
          snap,       \* what its SERIALIZABLE snapshot holds of the tables
          stale,      \* its wallet row was updated and committed after snap
          before,     \* wallet.availableBalance as SELECT ... FOR UPDATE read it
          writes,     \* the uncommitted row versions of its transaction
          outcome,    \* what the client knows
          answer      \* the wallet transaction the client was answered with

tables == <<wallet, keyRow, ledger>>
locks  == <<rowLock, keyLock>>
local  == <<snap, stale, before, writes>>
client == <<req, outcome, answer>>
vars   == <<tables, locks, pc, local, client>>

Ledger == INSTANCE WalletLedger

WalletCurrency == "USD"
NoWrites       == [row |-> Null, entry |-> Null, key |-> Null]

User(r) == req[r].user
Slot(r) == <<req[r].user, req[r].key, req[r].op>>
-----------------------------------------------------------------------------
(* The tables and the connections before any request. *)
Init ==
  /\ Ledger!Init
  /\ rowLock = [u \in Users |-> Null]
  /\ keyLock = [slot \in Users \X Keys \X Operations |-> Null]
  /\ req     = [r \in Requests |-> Null]
  /\ pc      = [r \in Requests |-> "idle"]
  /\ snap    = [r \in Requests |-> Null]
  /\ stale   = [r \in Requests |-> FALSE]
  /\ before  = [r \in Requests |-> Null]
  /\ writes  = [r \in Requests |-> NoWrites]
  /\ outcome = [r \in Requests |-> "none"]
  /\ answer  = [r \in Requests |-> Null]

Goto(r, label) == pc' = [pc EXCEPT ![r] = label]

Unlocked(lock, r) == [x \in DOMAIN lock |-> IF lock[x] = r THEN Null ELSE lock[x]]

\* Mutant: the inserted key stays locked.
LeakKeyLock(r) ==
  /\ rowLock' = Unlocked(rowLock, r)
  /\ snap'    = [snap EXCEPT ![r] = Null]
  /\ before'  = [before EXCEPT ![r] = Null]
  /\ writes'  = [writes EXCEPT ![r] = NoWrites]
  /\ UNCHANGED keyLock

\* The transaction of r is over: its locks, snapshot and row versions go.
EndTransaction(r) ==
  /\ rowLock' = Unlocked(rowLock, r)
  /\ keyLock' = Unlocked(keyLock, r)
  /\ snap'    = [snap EXCEPT ![r] = Null]
  /\ before'  = [before EXCEPT ![r] = Null]
  /\ writes'  = [writes EXCEPT ![r] = NoWrites]

\* The handler of r ends without a commit and the client learns verdict.
Rollback(r, verdict) ==
  /\ EndTransaction(r)
  /\ stale' = [stale EXCEPT ![r] = FALSE]
  /\ Goto(r, "done")
  /\ outcome' = [outcome EXCEPT ![r] = verdict]
  /\ UNCHANGED <<tables, req, answer>>

\* A statement of r that only prepares row versions of its own transaction.
Write(r, label, w) ==
  /\ writes' = [writes EXCEPT ![r] = w]
  /\ Goto(r, label)
  /\ UNCHANGED <<tables, locks, snap, stale, before, client>>
-----------------------------------------------------------------------------
(* The client. *)

\* A client sends a request.  One that sends it again, after an error or after a
\* timeout of its own while the first one still runs, is a request with the same
\* form: the service tells them apart by nothing but their key.
Send(r) ==
  /\ pc[r] = "idle"
  /\ \E form \in Forms : req' = [req EXCEPT ![r] = form]
  /\ Goto(r, "start")
  /\ UNCHANGED <<tables, locks, local, outcome, answer>>

\* validateAmount and validateIdempotencyKey; the format is abstracted.
Valid(r) == req[r].amount > 0 /\ req[r].key # Null

RejectInvalid(r) ==
  /\ pc[r] = "start" /\ ~ Valid(r)
  /\ Rollback(r, "rejected")
-----------------------------------------------------------------------------
(* Statements both repositories issue. *)

\* The FOR UPDATE query casts its parameters to enum types; one that the
\* database does not have is an error of the statement (code 42704).
CastTypes(r) == IF req[r].op = "DEPOSIT" THEN {"Currency"} ELSE {"Currency", "WalletStatus"}
CastFails(r) == ~ CastTypes(r) \subseteq DbTypes

\* Mutant: AND status = 'ACTIVE' forgotten.
MatchesAnyStatus(r, row) == req[r].currency = WalletCurrency

\* The WHERE clause of the FOR UPDATE query on a version of the wallet row.
Matches(r, row) == req[r].currency = WalletCurrency /\ row.status = "ACTIVE"

\* No other transaction has locked the row, or inserted the key, of r.
RowFree(r) == rowLock[User(r)] \in {Null, r}
KeyFree(r) == keyLock[Slot(r)] \in {Null, r}

\* Mutant: a plain SELECT.
SelectWithoutLock(r, row, label) ==
  /\ before' = [before EXCEPT ![r] = row.available]
  /\ Goto(r, label)
  /\ UNCHANGED <<tables, locks, snap, stale, writes, client>>

\* SELECT ... FOR UPDATE gets the lock and returns row to the handler.
LockRow(r, row, label) ==
  /\ RowFree(r)
  /\ rowLock' = [rowLock EXCEPT ![User(r)] = r]
  /\ before' = [before EXCEPT ![r] = row.available]
  /\ Goto(r, label)
  /\ UNCHANGED <<tables, keyLock, snap, stale, writes, client>>

\* wallet.update: the increments apply to the newest row; DECIMAL(30,8) overflows.
UpdateRow(r, row, label) ==
  /\ RowFree(r)
  /\ IF stale[r] \/ row.available > MaxBalance \/ row.locked > MaxBalance
     THEN Rollback(r, "error")
     ELSE /\ rowLock' = [rowLock EXCEPT ![User(r)] = r]
          /\ writes' = [writes EXCEPT ![r].row = row]
          /\ Goto(r, label)
          /\ UNCHANGED <<tables, keyLock, snap, stale, before, client>>

\* walletTransaction.create: balanceAfter is the updated row's balance.
Entry(r, type, status) ==
  [id |-> r, type |-> type, status |-> status, amount |-> req[r].amount,
   before |-> before[r], after |-> writes[r].row.available, ref |-> req[r].key]

\* COMMIT publishes the row versions and releases the locks; snapshots that
\* hold an older version of the wallet row become stale.
Commit(r) ==
  /\ pc[r] = "commit"
  /\ wallet' = [wallet EXCEPT ![User(r)] = writes[r].row]
  /\ ledger' = [ledger EXCEPT ![User(r)] = Append(@, writes[r].entry)]
  /\ keyRow' = IF writes[r].key = Null THEN keyRow
               ELSE [keyRow EXCEPT ![Slot(r)] = writes[r].key]
  /\ EndTransaction(r)
  /\ stale' = [q \in Requests |-> /\ q # r
                                  /\ stale[q] \/ (snap[q] # Null /\ User(q) = User(r))]
  /\ answer' = [answer EXCEPT ![r] = r]
  /\ Goto(r, "reply")
  /\ UNCHANGED <<req, outcome>>

\* Mutant: an idempotent answer carries a new transaction, not the stored one.
ReturnNew(r, id) ==
  /\ EndTransaction(r)
  /\ stale' = [stale EXCEPT ![r] = FALSE]
  /\ answer' = [answer EXCEPT ![r] = r]
  /\ Goto(r, "reply")
  /\ UNCHANGED <<tables, req, outcome>>

\* The handler returns a transaction it found instead of creating one.
ReturnFound(r, id) ==
  /\ EndTransaction(r)
  /\ stale' = [stale EXCEPT ![r] = FALSE]
  /\ answer' = [answer EXCEPT ![r] = id]
  /\ Goto(r, "reply")
  /\ UNCHANGED <<tables, req, outcome>>

\* The 2xx answer reaches the client.
Reply(r) ==
  /\ pc[r] = "reply"
  /\ outcome' = [outcome EXCEPT ![r] = "ok"]
  /\ Goto(r, "done")
  /\ UNCHANGED <<tables, locks, local, req, answer>>

\* The answer is lost: the connection breaks or the service dies.
LoseAnswer(r) ==
  /\ pc[r] = "reply"
  /\ outcome' = [outcome EXCEPT ![r] = "error"]
  /\ answer' = [answer EXCEPT ![r] = Null]
  /\ Goto(r, "done")
  /\ UNCHANGED <<tables, locks, local, req>>

\* The service dies, Prisma's transaction times out, or Postgres cancels it.
Fail(r) ==
  /\ pc[r] \notin {"idle", "reply", "done"}
  /\ Rollback(r, "error")
-----------------------------------------------------------------------------
(* The statements of createDeposit and executeDeposit. *)

\* idempotencyRepository.find, before the transaction.
DepositFindKey(r) ==
  /\ pc[r] = "start" /\ req[r].op = "DEPOSIT" /\ Valid(r)
  /\ IF ~ keyRow[Slot(r)].exists
     THEN Goto(r, "lock") /\ UNCHANGED <<tables, locks, local, client>>
     ELSE IF keyRow[Slot(r)].body # Null THEN ReturnFound(r, keyRow[Slot(r)].body)
                                         ELSE Rollback(r, "rejected")

\* READ COMMITTED: the lock waits, then the newest row is matched and read.
DepositLock(r) ==
  /\ pc[r] = "lock" /\ req[r].op = "DEPOSIT"
  /\ IF CastFails(r) THEN Rollback(r, "error")
     ELSE IF ~ Matches(r, wallet[User(r)]) THEN Rollback(r, "rejected")
     ELSE LockRow(r, wallet[User(r)], "update")

DepositUpdate(r) ==
  /\ pc[r] = "update" /\ req[r].op = "DEPOSIT"
  /\ UpdateRow(r, [wallet[User(r)] EXCEPT !.available = @ + req[r].amount], "record")

DepositRecord(r) ==
  /\ pc[r] = "record" /\ req[r].op = "DEPOSIT"
  /\ Write(r, "commit", [writes[r] EXCEPT !.entry = Entry(r, "DEPOSIT", "COMPLETED")])

DepositStep(r) == DepositFindKey(r) \/ DepositLock(r) \/ DepositUpdate(r) \/ DepositRecord(r)
-----------------------------------------------------------------------------
(* The statements of executeWithdrawal. *)

\* idempotencyKey.findUnique, the first statement: it takes the snapshot.
WithdrawFindKey(r) ==
  /\ pc[r] = "start" /\ req[r].op = "WITHDRAW" /\ Valid(r)
  /\ IF keyRow[Slot(r)].exists /\ keyRow[Slot(r)].body = Null
     THEN Rollback(r, "rejected")
     ELSE /\ snap' = [snap EXCEPT ![r] = [row |-> wallet[User(r)],
                                          key |-> keyRow[Slot(r)],
                                          posted |-> ledger[User(r)]]]
          /\ Goto(r, IF keyRow[Slot(r)].exists THEN "findTx" ELSE "insertKey")
          /\ UNCHANGED <<tables, locks, stale, before, writes, client>>

\* walletTransaction.findUnique, by the id in the key's response body.
WithdrawFindTransaction(r) ==
  /\ pc[r] = "findTx"
  /\ IF \E i \in DOMAIN snap[r].posted : snap[r].posted[i].id = snap[r].key.body
     THEN ReturnFound(r, snap[r].key.body)
     ELSE Rollback(r, "rejected")

\* Mutant: the wallet row may be locked before the key is inserted.
InsertKeyUnordered(r) ==
  /\ pc[r] = "insertKey"
  /\ \/ /\ RowFree(r)
        /\ rowLock' = [rowLock EXCEPT ![User(r)] = r]
        /\ UNCHANGED <<tables, keyLock, pc, local, client>>
     \/ /\ KeyFree(r) /\ ~ keyRow[Slot(r)].exists
        /\ keyLock' = [keyLock EXCEPT ![Slot(r)] = r]
        /\ Goto(r, "lock")
        /\ UNCHANGED <<tables, rowLock, local, client>>

\* idempotencyKey.create: the unique index makes it wait for an uncommitted
\* insert of the same key, and fail on a committed one.
WithdrawInsertKey(r) ==
  /\ pc[r] = "insertKey" /\ KeyFree(r)
  /\ IF keyRow[Slot(r)].exists
     THEN Rollback(r, "error")
     ELSE /\ keyLock' = [keyLock EXCEPT ![Slot(r)] = r]
          /\ writes' = [writes EXCEPT ![r].key = [exists |-> TRUE, body |-> Null]]
          /\ Goto(r, "lock")
          /\ UNCHANGED <<tables, rowLock, snap, stale, before, client>>

\* SERIALIZABLE: the snapshot's row is matched; once the lock is free, a row
\* updated since is a serialization failure.
WithdrawLock(r) ==
  /\ pc[r] = "lock" /\ req[r].op = "WITHDRAW"
  /\ IF CastFails(r) THEN Rollback(r, "error")
     ELSE IF ~ Matches(r, snap[r].row) THEN Rollback(r, "rejected")
     ELSE IF RowFree(r) /\ stale[r] THEN Rollback(r, "error")
     ELSE LockRow(r, snap[r].row, "check")

\* Mutant: the balance is not checked.
WithdrawUnchecked(r) ==
  /\ pc[r] = "check"
  /\ Goto(r, "update") /\ UNCHANGED <<tables, locks, local, client>>

\* CAST(amount AS NUMERIC) <= available_balance, in the snapshot.
WithdrawCheck(r) ==
  /\ pc[r] = "check"
  /\ IF req[r].amount <= snap[r].row.available
     THEN Goto(r, "update") /\ UNCHANGED <<tables, locks, local, client>>
     ELSE Rollback(r, "rejected")

\* Mutant: lockedBalance is not incremented.
WithdrawForgetLocked(r) ==
  /\ pc[r] = "update" /\ req[r].op = "WITHDRAW"
  /\ UpdateRow(r, [wallet[User(r)] EXCEPT !.available = @ - req[r].amount], "record")

WithdrawUpdate(r) ==
  /\ pc[r] = "update" /\ req[r].op = "WITHDRAW"
  /\ UpdateRow(r, [wallet[User(r)] EXCEPT !.available = @ - req[r].amount,
                                          !.locked = @ + req[r].amount], "record")

WithdrawRecord(r) ==
  /\ pc[r] = "record" /\ req[r].op = "WITHDRAW"
  /\ Write(r, "finishKey", [writes[r] EXCEPT !.entry = Entry(r, "WITHDRAWAL", "PENDING")])

\* Mutant: the key row is committed without its response.
WithdrawKeepKeyOpen(r) == pc[r] = "finishKey" /\ Write(r, "commit", writes[r])

\* Mutant: the key row is deleted once the withdrawal is recorded.
WithdrawDropKey(r) == pc[r] = "finishKey" /\ Write(r, "commit", [writes[r] EXCEPT !.key = Null])

\* Mutant: the whole transaction is stored where its id belongs.
WithdrawStoreEntry(r) ==
  /\ pc[r] = "finishKey"
  /\ Write(r, "commit", [writes[r] EXCEPT !.key = [exists |-> TRUE, body |-> writes[r].entry]])

\* idempotencyKey.update stores the transaction's id as the response.
WithdrawFinishKey(r) ==
  /\ pc[r] = "finishKey"
  /\ Write(r, "commit", [writes[r] EXCEPT !.key = [exists |-> TRUE, body |-> writes[r].entry.id]])

WithdrawStep(r) ==
  \/ WithdrawFindKey(r) \/ WithdrawFindTransaction(r) \/ WithdrawInsertKey(r)
  \/ WithdrawLock(r) \/ WithdrawCheck(r) \/ WithdrawUpdate(r)
  \/ WithdrawRecord(r) \/ WithdrawFinishKey(r)
-----------------------------------------------------------------------------
\* An operator changes a wallet's status, in a transaction of its own.
SetStatus(u, s) ==
  /\ rowLock[u] = Null /\ wallet[u].status # s
  /\ wallet' = [wallet EXCEPT ![u].status = s]
  /\ stale' = [q \in Requests |-> stale[q] \/ (snap[q] # Null /\ User(q) = u)]
  /\ UNCHANGED <<keyRow, ledger, locks, pc, snap, before, writes, client>>

\* What the service does for r on its own once the request is sent.
Serve(r) ==
  \/ RejectInvalid(r) \/ DepositStep(r) \/ WithdrawStep(r)
  \/ Commit(r) \/ Reply(r)

Next ==
  \/ \E r \in Requests : Send(r) \/ Serve(r) \/ Fail(r) \/ LoseAnswer(r)
  \/ \E u \in Users, s \in Statuses : SetStatus(u, s)

Spec == Init /\ [][Next]_vars

\* The event loop and the database keep executing a request's statements.
FairSpec == Spec /\ \A r \in Requests : WF_vars(Serve(r))
-----------------------------------------------------------------------------
(* Properties. *)

Labels == {"idle", "start", "findTx", "insertKey", "lock", "check", "update",
           "record", "finishKey", "commit", "reply", "done"}

\* Every variable has its type (the rows of schema.prisma, the handlers' locals).
TypeOK ==
  /\ wallet \in [Users -> RowVersion]
  /\ keyRow \in [Users \X Keys \X Operations -> KeyVersion]
  /\ ledger \in [Users -> Seq(EntryRecord)]
  /\ rowLock \in [Users -> Requests \cup {Null}]
  /\ keyLock \in [Users \X Keys \X Operations -> Requests \cup {Null}]
  /\ req \in [Requests -> RequestForm \cup {Null}]
  /\ pc \in [Requests -> Labels]
  /\ snap \in [Requests -> Snapshot \cup {Null}]
  /\ stale \in [Requests -> BOOLEAN]
  /\ before \in [Requests -> Int \cup {Null}]
  /\ writes \in [Requests -> WriteSet]
  /\ outcome \in [Requests -> {"none", "ok", "rejected", "error"}]
  /\ answer \in [Requests -> TxIds \cup {Null}]

Signed(e) == IF e.type = "DEPOSIT" THEN e.amount ELSE - e.amount
Held(e)   == IF e.type = "WITHDRAWAL" /\ e.status = "PENDING" THEN e.amount ELSE 0

\* The balance the first i entries of a wallet leave.
Left(u, i) == IF i = 0 THEN Opening ELSE ledger[u][i].after

\* The balances of every entry follow those of the entry before it, and the
\* wallet's available balance is what the last entry left: no concurrent
\* deposit or withdrawal was overwritten or recorded against a stale balance.
LedgerChain == \A u \in Users :
  /\ \A i \in DOMAIN ledger[u] : /\ ledger[u][i].before = Left(u, i - 1)
                                 /\ ledger[u][i].after = Left(u, i - 1) + Signed(ledger[u][i])
  /\ wallet[u].available = Left(u, Len(ledger[u]))

\* The sum of a sequence of numbers, and what each of some entries adds to the
\* available and to the locked balance.
Total(s)         == LET sum[n \in 0..Len(s)] == IF n = 0 THEN 0 ELSE sum[n - 1] + s[n] IN sum[Len(s)]
Moved(entries)   == [i \in DOMAIN entries |-> Signed(entries[i])]
Pending(entries) == [i \in DOMAIN entries |-> Held(entries[i])]

\* Money is conserved: what a wallet holds, available and locked, is what was
\* deposited, and the locked part is exactly its pending withdrawals.
BooksBalance == \A u \in Users :
  /\ wallet[u].available = Opening + Total(Moved(ledger[u]))
  /\ wallet[u].locked = Total(Pending(ledger[u]))

\* No sequence of concurrent withdrawals takes out more than there is.
NoOverdraft == \A u \in Users : wallet[u].available >= 0

PostedOnce(type) == \A u \in Users : \A i, j \in DOMAIN ledger[u] :
  /\ ledger[u][i].type = type /\ ledger[u][j].type = type
  /\ ledger[u][i].ref = ledger[u][j].ref
  => i = j

\* One idempotency key withdraws once, however often and concurrently it is sent.
WithdrawOnce == PostedOnce("WITHDRAWAL")

\* One idempotency key deposits once (the claim of deposit.service.ts:81).
DepositOnce == PostedOnce("DEPOSIT")

\* A committed idempotency record is never half written: it names a posted
\* withdrawal of its user and key, so the "already being processed" and "was not
\* found" conflicts of executeWithdrawal never lock a client out of its key.
KeyRecordsResolve == \A u \in Users, k \in Keys :
  keyRow[<<u, k, "WITHDRAW">>].exists =>
    \E i \in DOMAIN ledger[u] : /\ ledger[u][i].id = keyRow[<<u, k, "WITHDRAW">>].body
                                /\ ledger[u][i].type = "WITHDRAWAL"
                                /\ ledger[u][i].ref = k

\* A client told "ok" was told of a transaction that is on the ledger under the
\* user and the key it sent: no answer precedes or survives without its commit.
AnswersArePosted == \A r \in Requests : outcome[r] = "ok" =>
  \E i \in DOMAIN ledger[User(r)] : /\ ledger[User(r)][i].id = answer[r]
                                    /\ ledger[User(r)][i].ref = req[r].key

\* No withdrawal is posted under the key of r.
Unposted(r) == \A i \in DOMAIN ledger[User(r)] :
  ledger[User(r)][i].type = "WITHDRAWAL" => ledger[User(r)][i].ref # req[r].key

\* A withdrawal is refused only while none is posted under its key: a client that
\* is told "insufficient balance" was not debited by an attempt whose answer was
\* lost.  (An attempt that is still under way may yet be.)
RefusalsAreTrue == [][\A r \in Requests :
  /\ outcome[r] = "none" /\ outcome'[r] = "rejected"
  /\ req[r].op = "WITHDRAW" /\ Valid(r)
  => Unposted(r)]_vars

WaitsFor(r, q) ==
  \/ pc[r] = "insertKey" /\ ~ KeyFree(r) /\ q = keyLock[Slot(r)]
  \/ pc[r] = "lock" /\ ~ RowFree(r) /\ q = rowLock[User(r)]

\* Key locks and row locks are taken in one order: no set of transactions waits
\* for each other.
NoLockCycle == \A S \in SUBSET Requests : S # {} =>
  \E r \in S : \A q \in S : ~ WaitsFor(r, q)

\* Money moves only in a wallet that is ACTIVE at that moment, whatever an
\* operator does between the FOR UPDATE query and the commit.
OnlyActiveWalletsMove == [][\A u \in Users :
  ledger'[u] # ledger[u] => wallet[u].status = "ACTIVE" /\ wallet'[u].status = "ACTIVE"]_vars

\* Every commit is one step of the ledger that serves requests one at a time.
ImplementsLedger == Ledger!Spec

\* Every request that is sent is answered or fails: no lock is held for ever.
Served == \A r \in Requests : pc[r] = "start" ~> outcome[r] # "none"

\* The types the raw SQL casts to exist in the database the migrations create.
CastsResolve == \A r \in Requests : pc[r] = "lock" => ~ CastFails(r)
-----------------------------------------------------------------------------
(* The inductive invariant behind the theorems of WalletProofs: what each    *)
(* statement may rely on because of the statements before it.                *)

InTransaction == {"findTx", "insertKey", "lock", "check", "update", "record", "finishKey", "commit"}
RowHeld       == {"check", "update", "record", "finishKey", "commit"}
RowWritten    == {"record", "finishKey", "commit"}
KeyHeld       == {"lock"} \cup RowHeld
SnapHeld      == {"findTx", "insertKey"} \cup KeyHeld

\* The row the handler's update leaves, from the row as it is committed.
UpdatedRow(r) ==
  IF req[r].op = "DEPOSIT"
  THEN [wallet[User(r)] EXCEPT !.available = @ + req[r].amount]
  ELSE [wallet[User(r)] EXCEPT !.available = @ - req[r].amount, !.locked = @ + req[r].amount]

\* Requests reach a statement only with valid arguments, on their own branch.
RequestInv(r) ==
  /\ pc[r] # "idle" => req[r] \in RequestForm
  /\ pc[r] \in InTransaction => Valid(r)
  /\ pc[r] \in {"findTx", "insertKey", "check", "finishKey"} => req[r].op = "WITHDRAW"

\* From the FOR UPDATE query to the end the row is locked, active and as read.
RowInv(r) ==
  /\ pc[r] \in RowHeld => /\ rowLock[User(r)] = r
                          /\ wallet[User(r)].status = "ACTIVE"
                          /\ before[r] = wallet[User(r)].available
  /\ pc[r] \in RowWritten => /\ writes[r].row = UpdatedRow(r)
                             /\ writes[r].row.available <= MaxBalance
                             /\ writes[r].row.locked <= MaxBalance

\* A withdrawal's snapshot, while not stale, is the committed row.
SnapInv(r) ==
  pc[r] \in SnapHeld /\ req[r].op = "WITHDRAW" =>
    /\ snap[r] # Null /\ (~ stale[r] => snap[r].row = wallet[User(r)])
    /\ pc[r] \in RowHeld => ~ stale[r]
    /\ pc[r] \in RowHeld \ {"check"} => req[r].amount <= wallet[User(r)].available

\* A withdrawal that inserted its key is the only one that will commit it.
KeyInv(r) ==
  /\ pc[r] \notin InTransaction => writes[r] = NoWrites
  /\ pc[r] \in KeyHeld /\ req[r].op = "WITHDRAW" =>
       keyLock[Slot(r)] = r /\ ~ keyRow[Slot(r)].exists
  /\ pc[r] \in InTransaction /\ req[r].op = "DEPOSIT" => writes[r].key = Null
  /\ pc[r] = "commit" /\ req[r].op = "WITHDRAW" =>
       writes[r].key = [exists |-> TRUE, body |-> r]

EntryInv(r) ==
  pc[r] \in {"finishKey", "commit"} =>
    writes[r].entry = IF req[r].op = "DEPOSIT" THEN Entry(r, "DEPOSIT", "COMPLETED")
                                               ELSE Entry(r, "WITHDRAWAL", "PENDING")

LocalInv(r) == RequestInv(r) /\ RowInv(r) /\ SnapInv(r) /\ KeyInv(r) /\ EntryInv(r)

\* No transaction writes a row with a negative balance, and every statement
\* finds the locks, snapshot and row versions the earlier ones left.
IInv ==
  /\ \A u \in Users : wallet[u].available >= 0 /\ wallet[u].locked >= 0
  /\ \A r \in Requests : LocalInv(r)

\* A posted withdrawal has used up its key: with LedgerChain, KeyRecordsResolve
\* and WithdrawOnce, what the tables alone carry from commit to commit.
PostedUsesKey == \A u \in Users : \A i \in DOMAIN ledger[u] :
  ledger[u][i].type = "WITHDRAWAL" => keyRow[<<u, ledger[u][i].ref, "WITHDRAW">>].exists

TablesInv == LedgerChain /\ KeyRecordsResolve /\ WithdrawOnce /\ PostedUsesKey

\* Only a transaction past the statement that takes a lock holds it: row locks
\* belong to requests that wait for nothing any more, key locks to requests that
\* wait at most for a row.
LockInv ==
  /\ \A u \in Users : rowLock[u] # Null => pc[rowLock[u]] \in RowHeld
  /\ \A slot \in DOMAIN keyLock : keyLock[slot] # Null => pc[keyLock[slot]] \in KeyHeld

\* Entry e of the wallet of u is what the request that posted it asks for.
AskedFor(e, u) == LET r == e.id IN
  /\ r \in Requests /\ pc[r] # "idle" /\ Valid(r)
  /\ req[r].user = u /\ req[r].key = e.ref
  /\ e.type = "WITHDRAWAL" <=> req[r].op = "WITHDRAW"

Posted(r, id) == \E i \in DOMAIN ledger[User(r)] : /\ ledger[User(r)][i].id = id
                                                  /\ ledger[User(r)][i].ref = req[r].key

\* What a request has answered, or is about to, is true of the ledger; a key
\* record its snapshot shows is still the one of the table.
AnswerInv(r) ==
  /\ outcome[r] # "none" => pc[r] = "done"
  /\ pc[r] = "findTx" =>
       /\ snap[r].key = keyRow[Slot(r)] /\ keyRow[Slot(r)].exists
       /\ \E i \in DOMAIN snap[r].posted : snap[r].posted[i].id = snap[r].key.body
  /\ pc[r] = "reply" \/ outcome[r] = "ok" => Posted(r, answer[r])

\* What answers rest on: the ledger holds what requests asked for, and no deposit
\* has left a key record.
HistoryInv ==
  /\ \A slot \in DOMAIN keyRow : slot[3] = "DEPOSIT" => ~ keyRow[slot].exists
  /\ \A u \in Users : \A i \in DOMAIN ledger[u] : AskedFor(ledger[u][i], u)
  /\ \A r \in Requests : AnswerInv(r)
=============================================================================
