---------------------------- MODULE WalletProofs ----------------------------
(***************************************************************************)
(* Theorems about Wallet for any number of users, keys, requests, retries  *)
(* and any amounts: the inductive invariant IInv, and from it that every   *)
(* behaviour implements the ledger of WalletLedger.                        *)
(***************************************************************************)
EXTENDS Wallet, FiniteSetTheorems, TLAPS

USE WalletConstants

LEMMA InitInv == Init => TypeOK /\ IInv
<1>1. Init => TypeOK
  BY DEF Init, TypeOK, Ledger!Init, Ledger!NoKeyRow, Ledger!Operations,
     RowVersion, KeyVersion, Statuses, Operations, NoWrites, WriteSet, Labels
<1>2. Init => IInv
  BY DEF Init, IInv, LocalInv, Ledger!Init, RequestInv, RowInv, SnapInv, KeyInv, EntryInv,
     InTransaction, RowHeld, RowWritten, KeyHeld, SnapHeld
<1> QED BY <1>1, <1>2

Slots == Users \X Keys \X Operations

\* A request inside its transaction names a wallet and a key.
LEMMA SlotType ==
  ASSUME NEW r \in Requests, RequestInv(r)
  PROVE  /\ pc[r] # "idle" => User(r) \in Users
         /\ pc[r] \in InTransaction => Slot(r) \in Slots
BY DEF RequestInv, RequestForm, Valid, User, Slot, Slots, InTransaction

\* What a step must leave alone for the invariant of a request q to carry over.
Frame(q) ==
  /\ UNCHANGED tables
  /\ pc'[q] = pc[q] /\ req'[q] = req[q]
  /\ snap'[q] = snap[q] /\ stale'[q] = stale[q]
  /\ before'[q] = before[q] /\ writes'[q] = writes[q]
  /\ \A u \in Users : rowLock[u] = q => rowLock'[u] = q
  /\ \A slot \in Slots : keyLock[slot] = q => keyLock'[slot] = q

LEMMA FrameInv ==
  ASSUME NEW q \in Requests, LocalInv(q), Frame(q)
  PROVE  LocalInv(q)'
<1>1. RequestInv(q)'
  BY DEF LocalInv, RequestInv, Frame, Valid
<1>2. RowInv(q)'
  <2>1. User(q)' = User(q) /\ UpdatedRow(q)' = UpdatedRow(q) /\ UNCHANGED wallet
    BY DEF Frame, User, UpdatedRow, tables
  <2>2. pc[q] # "idle" /\ rowLock[User(q)] = q => rowLock'[User(q)] = q
    BY SlotType DEF LocalInv, Frame
  <2> QED BY <2>1, <2>2 DEF LocalInv, RowInv, Frame, RowHeld, RowWritten
<1>3. SnapInv(q)'
  BY DEF LocalInv, SnapInv, Frame, User, tables
<1>4. KeyInv(q)'
  <2>1. Slot(q)' = Slot(q) /\ UNCHANGED keyRow
    BY DEF Frame, Slot, tables
  <2>2. pc[q] \in InTransaction /\ keyLock[Slot(q)] = q => keyLock'[Slot(q)] = q
    BY SlotType DEF LocalInv, Frame
  <2> QED BY <2>1, <2>2 DEF LocalInv, KeyInv, Frame, InTransaction, KeyHeld, RowHeld
<1>5. EntryInv(q)'
  BY DEF LocalInv, EntryInv, Frame, Entry
<1> QED BY <1>1, <1>2, <1>3, <1>4, <1>5 DEF LocalInv

\* Outside a transaction only the arguments matter.
LEMMA DoneInv ==
  ASSUME NEW r \in Requests, pc'[r] \in {"start", "reply", "done"}, RequestInv(r)',
         writes'[r] = NoWrites
  PROVE  LocalInv(r)'
BY DEF LocalInv, RowInv, SnapInv, KeyInv, EntryInv, InTransaction, RowHeld, RowWritten,
   KeyHeld, SnapHeld

\* Replacing one row version of a transaction keeps its type.
LEMMA WriteFields ==
  ASSUME NEW w \in WriteSet
  PROVE  /\ \A row \in RowVersion : [w EXCEPT !.row = row] \in WriteSet
         /\ \A entry \in EntryRecord : [w EXCEPT !.entry = entry] \in WriteSet
         /\ \A key \in KeyVersion : [w EXCEPT !.key = key] \in WriteSet
BY DEF WriteSet

\* A step of r that leaves the tables and every other request alone.
Isolated(r) == UNCHANGED tables /\ \A q \in Requests \ {r} : Frame(q)

LEMMA IsolatedInv ==
  ASSUME IInv, NEW r \in Requests, Isolated(r), LocalInv(r)'
  PROVE  IInv'
<1>1. ASSUME NEW q \in Requests, q # r
      PROVE  LocalInv(q)'
  BY <1>1, FrameInv DEF IInv, Isolated
<1>2. \A u \in Users : wallet'[u].available >= 0 /\ wallet'[u].locked >= 0
  BY DEF IInv, Isolated, tables
<1> QED BY <1>1, <1>2 DEF IInv

LEMMA RollbackInv ==
  ASSUME TypeOK, IInv, NEW r \in Requests, pc[r] # "idle",
         NEW verdict \in {"rejected", "error"}, Rollback(r, verdict)
  PROVE  TypeOK' /\ IInv'
<1>1. TypeOK'
  BY DEF TypeOK, Rollback, EndTransaction, Unlocked, Goto, NoWrites, WriteSet, Labels, tables
<1>2. Isolated(r)
  BY DEF TypeOK, Isolated, Frame, Rollback, EndTransaction, Unlocked, Goto, Slots, tables
<1>3. pc'[r] = "done" /\ req'[r] = req[r] /\ writes'[r] = NoWrites
  BY DEF TypeOK, EndTransaction, Rollback, Goto
<1>4. RequestInv(r)'
  BY <1>3 DEF IInv, LocalInv, RequestInv, InTransaction, Valid
<1> QED BY <1>1, <1>2, <1>3, <1>4, DoneInv, IsolatedInv

LEMMA ReturnFoundInv ==
  ASSUME TypeOK, IInv, NEW r \in Requests, pc[r] # "idle",
         NEW id \in TxIds, ReturnFound(r, id)
  PROVE  TypeOK' /\ IInv'
<1>1. TypeOK'
  BY DEF TypeOK, ReturnFound, EndTransaction, Unlocked, Goto, NoWrites, WriteSet, Labels, tables
<1>2. Isolated(r)
  BY DEF TypeOK, Isolated, Frame, ReturnFound, EndTransaction, Unlocked, Goto, Slots, tables
<1>3. pc'[r] = "reply" /\ req'[r] = req[r] /\ writes'[r] = NoWrites
  BY DEF TypeOK, EndTransaction, ReturnFound, Goto
<1>4. RequestInv(r)'
  BY <1>3 DEF IInv, LocalInv, RequestInv, InTransaction, Valid
<1> QED BY <1>1, <1>2, <1>3, <1>4, DoneInv, IsolatedInv

LEMMA ClientInv ==
  ASSUME TypeOK, IInv, NEW r \in Requests, Send(r) \/ Reply(r) \/ LoseAnswer(r)
  PROVE  TypeOK' /\ IInv'
<1>1. TypeOK'
  <2>1. CASE Send(r)
    BY <2>1 DEF TypeOK, Send, Goto, RequestForm, Labels, tables, locks, local
  <2>3. CASE Reply(r)
    BY <2>3 DEF TypeOK, Reply, Goto, Labels, tables, locks, local
  <2>4. CASE LoseAnswer(r)
    BY <2>4 DEF TypeOK, LoseAnswer, Goto, Labels, tables, locks, local
  <2> QED BY <2>1, <2>3, <2>4
<1>2. Isolated(r)
  BY DEF TypeOK, Isolated, Frame, Send, Reply, LoseAnswer, Goto, Slots, tables, locks, local
<1>3. writes'[r] = NoWrites
  BY DEF IInv, LocalInv, KeyInv, InTransaction, Send, Reply, LoseAnswer, local
<1>4. pc'[r] \in {"start", "done"} /\ RequestInv(r)'
  <2>1. CASE Send(r)
    BY <2>1 DEF TypeOK, Send, Goto, RequestInv, RequestForm, InTransaction
  <2>3. CASE Reply(r) \/ LoseAnswer(r)
    BY <2>3 DEF TypeOK, IInv, LocalInv, Reply, LoseAnswer, Goto, RequestInv, InTransaction
  <2> QED BY <2>1, <2>3
<1> QED BY <1>1, <1>2, <1>3, <1>4, DoneInv, IsolatedInv

LEMMA FindKeyInv ==
  ASSUME TypeOK, IInv, NEW r \in Requests,
         RejectInvalid(r) \/ DepositFindKey(r) \/ WithdrawFindKey(r)
  PROVE  TypeOK' /\ IInv'
<1> DEFINE row == keyRow[Slot(r)]
<1>1. pc[r] = "start" /\ RequestInv(r) /\ User(r) \in Users
  BY SlotType DEF RejectInvalid, DepositFindKey, WithdrawFindKey, IInv, LocalInv
<1>2. CASE RejectInvalid(r)
  BY <1>1, <1>2, RollbackInv DEF RejectInvalid
<1>3. Valid(r) => Slot(r) \in Slots /\ row \in KeyVersion
  BY <1>1 DEF TypeOK, Valid, RequestInv, RequestForm, Slot, Slots
<1>4. CASE DepositFindKey(r)
  <2>1. CASE row.exists /\ row.body # Null
    <3>1. row.body \in TxIds /\ ReturnFound(r, row.body)
      BY <1>3, <1>4, <2>1 DEF DepositFindKey, KeyVersion
    <3> QED BY <3>1, <1>1, ReturnFoundInv
  <2>2. CASE row.exists /\ row.body = Null
    <3>1. Rollback(r, "rejected")
      BY <1>4, <2>2 DEF DepositFindKey
    <3> QED BY <3>1, <1>1, RollbackInv
  <2>3. CASE ~ row.exists
    <3>0. Goto(r, "lock") /\ UNCHANGED <<tables, locks, local, client>>
      BY <1>4, <2>3 DEF DepositFindKey
    <3>1. TypeOK'
      BY <3>0 DEF TypeOK, Goto, Labels, tables, locks, local, client
    <3>2. Isolated(r)
      BY <3>0 DEF TypeOK, Isolated, Frame, Goto, tables, locks, local, client
    <3>3. LocalInv(r)'
      <4>1. pc'[r] = "lock" /\ UNCHANGED <<req, writes>> /\ req[r].op = "DEPOSIT"
        BY <1>4, <3>0 DEF TypeOK, DepositFindKey, Goto, local, client
      <4>2. Valid(r)' /\ writes[r] = NoWrites
        BY <1>1, <1>4, <4>1 DEF DepositFindKey, Valid, IInv, LocalInv, KeyInv, InTransaction
      <4> QED
        BY <1>1, <4>1, <4>2 DEF LocalInv, RequestInv, RowInv, SnapInv, KeyInv, EntryInv,
           NoWrites, InTransaction, RowHeld, RowWritten, KeyHeld, SnapHeld
    <3> QED BY <3>1, <3>2, <3>3, IsolatedInv
  <2> QED BY <1>3, <2>1, <2>2, <2>3 DEF KeyVersion
<1>5. CASE WithdrawFindKey(r)
  <2>1. CASE row.exists /\ row.body = Null
    <3>1. Rollback(r, "rejected")
      BY <1>5, <2>1 DEF WithdrawFindKey
    <3> QED BY <3>1, <1>1, RollbackInv
  <2>2. CASE ~ (row.exists /\ row.body = Null)
    <3> DEFINE s == [row |-> wallet[User(r)], key |-> row, posted |-> ledger[User(r)]]
    <3>0. /\ snap' = [snap EXCEPT ![r] = s]
          /\ Goto(r, IF row.exists THEN "findTx" ELSE "insertKey")
          /\ UNCHANGED <<tables, locks, stale, before, writes, client>>
      BY <1>5, <2>2 DEF WithdrawFindKey
    <3>1. s \in Snapshot
      BY <1>1, <1>3, <1>5 DEF WithdrawFindKey, TypeOK, Snapshot
    <3>2. TypeOK'
      BY <3>0, <3>1 DEF TypeOK, Goto, Labels, tables, locks, client
    <3>3. Isolated(r)
      BY <3>0 DEF TypeOK, Isolated, Frame, Goto, tables, locks, client
    <3>4. LocalInv(r)'
      <4>1. /\ pc'[r] \in {"findTx", "insertKey"} /\ UNCHANGED <<wallet, req, writes>>
            /\ req[r].op = "WITHDRAW" /\ snap'[r] # Null /\ snap'[r].row = wallet[User(r)]
        BY <1>5, <3>0, <3>1, WalletConstants DEF TypeOK, WithdrawFindKey, Goto, tables, client
      <4>2. Valid(r)' /\ User(r)' = User(r)
        BY <1>5, <4>1 DEF WithdrawFindKey, Valid, User
      <4> QED
        BY <1>1, <4>1, <4>2 DEF LocalInv, RequestInv, RowInv, SnapInv, KeyInv, EntryInv,
           InTransaction, RowHeld, RowWritten, KeyHeld, SnapHeld
    <3> QED BY <3>2, <3>3, <3>4, IsolatedInv
  <2> QED BY <2>1, <2>2
<1> QED BY <1>2, <1>4, <1>5

LEMMA FindTransactionInv ==
  ASSUME TypeOK, IInv, NEW r \in Requests, WithdrawFindTransaction(r)
  PROVE  TypeOK' /\ IInv'
<1>1. snap[r] \in Snapshot /\ pc[r] = "findTx"
  BY DEF TypeOK, IInv, LocalInv, SnapInv, RequestInv, SnapHeld, WithdrawFindTransaction
<1>2. CASE \E i \in DOMAIN snap[r].posted : snap[r].posted[i].id = snap[r].key.body
  <2>0. PICK i \in DOMAIN snap[r].posted : snap[r].posted[i].id = snap[r].key.body
    BY <1>2
  <2>1. snap[r].key.body \in TxIds
    <3>1. snap[r].posted \in Seq(EntryRecord)
      BY <1>1 DEF Snapshot
    <3>2. snap[r].posted[i] \in EntryRecord
      BY <3>1, <2>0
    <3> QED BY <3>2, <2>0 DEF EntryRecord
  <2> QED BY <1>1, <1>2, <2>1, ReturnFoundInv DEF WithdrawFindTransaction
<1>3. CASE ~ \E i \in DOMAIN snap[r].posted : snap[r].posted[i].id = snap[r].key.body
  BY <1>1, <1>3, RollbackInv DEF WithdrawFindTransaction
<1> QED BY <1>2, <1>3

LEMMA InsertKeyInv ==
  ASSUME TypeOK, IInv, NEW r \in Requests, WithdrawInsertKey(r)
  PROVE  TypeOK' /\ IInv'
<1>1. pc[r] = "insertKey" /\ LocalInv(r) /\ Slot(r) \in Slots /\ req[r].op = "WITHDRAW"
  BY SlotType DEF IInv, LocalInv, RequestInv, InTransaction, WithdrawInsertKey
<1>2. CASE keyRow[Slot(r)].exists
  BY <1>1, <1>2, RollbackInv DEF WithdrawInsertKey
<1>3. CASE ~ keyRow[Slot(r)].exists
  <2>0. /\ keyLock' = [keyLock EXCEPT ![Slot(r)] = r]
        /\ writes' = [writes EXCEPT ![r].key = [exists |-> TRUE, body |-> Null]]
        /\ Goto(r, "lock") /\ keyLock[Slot(r)] \in {Null, r}
        /\ UNCHANGED <<tables, rowLock, snap, stale, before, client>>
    BY <1>3 DEF WithdrawInsertKey, KeyFree
  <2>1. TypeOK'
    <3>1. keyLock' \in [Slots -> Requests \cup {Null}]
      BY <1>1, <2>0 DEF TypeOK, Slots
    <3>2. writes' \in [Requests -> WriteSet]
      <4>1. [exists |-> TRUE, body |-> Null] \in KeyVersion
        BY DEF KeyVersion
      <4>3. writes \in [Requests -> WriteSet]
        BY DEF TypeOK
      <4>4. writes' = [writes EXCEPT ![r] = [writes[r] EXCEPT !.key = [exists |-> TRUE, body |-> Null]]]
        BY <2>0
      <4> QED BY <4>1, <4>3, <4>4, WriteFields
    <3>3. pc' \in [Requests -> Labels]
      BY <2>0 DEF TypeOK, Goto, Labels
    <3> QED BY <2>0, <3>1, <3>2, <3>3 DEF TypeOK, Slots, tables, client
  <2>2. Isolated(r)
    BY <1>1, <2>0, WalletConstants DEF TypeOK, Isolated, Frame, Goto, Slots, tables, client
  <2>3. LocalInv(r)'
    <3>1. /\ pc'[r] = "lock" /\ UNCHANGED <<wallet, keyRow, req, stale, snap>>
          /\ keyLock'[Slot(r)] = r /\ writes'[r].key = [exists |-> TRUE, body |-> Null]
      BY <1>1, <2>0 DEF TypeOK, WriteSet, Goto, Slots, tables, client
    <3>2. Valid(r)' /\ Slot(r)' = Slot(r) /\ User(r)' = User(r)
      BY <1>1, <3>1 DEF Valid, Slot, User, LocalInv, RequestInv, InTransaction
    <3> QED
      BY <1>1, <1>3, <3>1, <3>2 DEF LocalInv, RequestInv, RowInv, SnapInv, KeyInv, EntryInv,
         InTransaction, RowHeld, RowWritten, KeyHeld, SnapHeld
  <2> QED BY <2>1, <2>2, <2>3, IsolatedInv
<1> QED BY <1>2, <1>3

LEMMA LockRowInv ==
  ASSUME TypeOK, IInv, NEW r \in Requests, DepositLock(r) \/ WithdrawLock(r)
  PROVE  TypeOK' /\ IInv'
<1> DEFINE label == IF req[r].op = "DEPOSIT" THEN "update" ELSE "check"
<1>1. /\ pc[r] = "lock" /\ LocalInv(r) /\ User(r) \in Users
      /\ req[r].op \in Operations
  BY SlotType DEF IInv, LocalInv, RequestInv, RequestForm, DepositLock, WithdrawLock
<1>2. CASE \E verdict \in {"rejected", "error"} : Rollback(r, verdict)
  BY <1>1, <1>2, RollbackInv
<1>3. ASSUME LockRow(r, wallet[User(r)], label), wallet[User(r)].status = "ACTIVE",
             req[r].op = "WITHDRAW" => ~ stale[r]
      PROVE  TypeOK' /\ IInv'
  <2>1. TypeOK'
    <3>1. wallet[User(r)].available \in Int
      BY <1>1 DEF TypeOK, RowVersion
    <3> QED BY <3>1, <1>1, <1>3 DEF TypeOK, LockRow, Goto, Labels, tables, client
  <2>2. Isolated(r)
    BY <1>3, WalletConstants DEF TypeOK, Isolated, Frame, LockRow, RowFree, Goto, tables, client
  <2>3. LocalInv(r)'
    <3>1. /\ pc'[r] = label /\ UNCHANGED <<wallet, keyRow, keyLock, req, snap, stale, writes>>
          /\ rowLock'[User(r)] = r /\ before'[r] = wallet[User(r)].available
      BY <1>1, <1>3 DEF TypeOK, LockRow, Goto, tables, client
    <3>2. Valid(r)' /\ User(r)' = User(r) /\ Slot(r)' = Slot(r)
      BY <1>1, <3>1 DEF Valid, User, Slot, LocalInv, RequestInv, InTransaction
    <3> QED
      BY <1>1, <1>3, <3>1, <3>2 DEF LocalInv, RequestInv, RowInv, SnapInv, KeyInv, EntryInv,
         Operations, InTransaction, RowHeld, RowWritten, KeyHeld, SnapHeld
  <2> QED BY <2>1, <2>2, <2>3, IsolatedInv
<1>4. CASE DepositLock(r)
  BY <1>2, <1>3, <1>4 DEF DepositLock, Matches
<1>5. CASE WithdrawLock(r)
  <2>1. ~ stale[r] => snap[r].row = wallet[User(r)]
    BY <1>1, <1>5 DEF WithdrawLock, LocalInv, SnapInv, SnapHeld, KeyHeld
  <2> QED BY <1>2, <1>3, <1>5, <2>1 DEF WithdrawLock, Matches, LockRow
<1> QED BY <1>4, <1>5

LEMMA CheckInv ==
  ASSUME TypeOK, IInv, NEW r \in Requests, WithdrawCheck(r)
  PROVE  TypeOK' /\ IInv'
<1>1. pc[r] = "check" /\ LocalInv(r) /\ req[r].op = "WITHDRAW"
  BY DEF IInv, LocalInv, RequestInv, WithdrawCheck
<1>2. CASE ~ req[r].amount <= snap[r].row.available
  BY <1>1, <1>2, RollbackInv DEF WithdrawCheck
<1>3. CASE req[r].amount <= snap[r].row.available
  <2>0. Goto(r, "update") /\ UNCHANGED <<tables, locks, local, client>>
    BY <1>3 DEF WithdrawCheck
  <2>1. TypeOK'
    BY <2>0 DEF TypeOK, Goto, Labels, tables, locks, local, client
  <2>2. Isolated(r)
    BY <2>0 DEF TypeOK, Isolated, Frame, Goto, tables, locks, local, client
  <2>3. LocalInv(r)'
    <3>1. /\ pc'[r] = "update" /\ UNCHANGED <<wallet, keyRow, rowLock, keyLock, before, req>>
          /\ UNCHANGED <<snap, stale, writes>>
      BY <2>0 DEF TypeOK, Goto, tables, locks, local, client
    <3>2. Valid(r)' /\ User(r)' = User(r) /\ Slot(r)' = Slot(r)
      BY <1>1, <3>1 DEF Valid, User, Slot, LocalInv, RequestInv, InTransaction
    <3>3. req[r].amount <= wallet[User(r)].available
      BY <1>1, <1>3 DEF LocalInv, SnapInv, SnapHeld, KeyHeld, RowHeld
    <3> QED
      BY <1>1, <3>1, <3>2, <3>3 DEF LocalInv, RequestInv, RowInv, SnapInv, KeyInv, EntryInv,
         InTransaction, RowHeld, RowWritten, KeyHeld, SnapHeld
  <2> QED BY <2>1, <2>2, <2>3, IsolatedInv
<1> QED BY <1>2, <1>3

\* The row an update leaves is well typed and, unless it overflows, in range.
LEMMA UpdatedRowType ==
  ASSUME TypeOK, IInv, NEW r \in Requests, pc[r] \in RowHeld \ {"check"}
  PROVE  /\ UpdatedRow(r) \in RowVersion
         /\ UpdatedRow(r).available >= 0 /\ UpdatedRow(r).locked >= 0
<1>1. /\ LocalInv(r) /\ User(r) \in Users /\ wallet[User(r)] \in RowVersion
      /\ req[r].op \in Operations /\ req[r].amount \in Nat
      /\ wallet[User(r)].available >= 0 /\ wallet[User(r)].locked >= 0
  BY SlotType, WalletConstants DEF TypeOK, IInv, LocalInv, RequestInv, RequestForm, RowHeld
<1> DEFINE w == wallet[User(r)]
           a == req[r].amount
<1>2. CASE req[r].op = "DEPOSIT"
  <2>1. UpdatedRow(r) = [available |-> w.available + a, locked |-> w.locked, status |-> w.status]
    BY <1>1, <1>2 DEF UpdatedRow, RowVersion
  <2> QED BY <1>1, <2>1 DEF RowVersion
<1>3. CASE req[r].op = "WITHDRAW"
  <2>1. req[r].amount <= wallet[User(r)].available
    BY <1>1, <1>3 DEF LocalInv, SnapInv, SnapHeld, KeyHeld, RowHeld
  <2>2. UpdatedRow(r) = [available |-> w.available - a, locked |-> w.locked + a,
                         status |-> w.status]
    BY <1>1, <1>3 DEF UpdatedRow, RowVersion
  <2> QED BY <1>1, <2>1, <2>2 DEF RowVersion
<1> QED BY <1>1, <1>2, <1>3 DEF Operations

LEMMA UpdateRowInv ==
  ASSUME TypeOK, IInv, NEW r \in Requests, DepositUpdate(r) \/ WithdrawUpdate(r)
  PROVE  TypeOK' /\ IInv'
<1>1. pc[r] = "update" /\ LocalInv(r) /\ User(r) \in Users
  BY SlotType DEF IInv, LocalInv, DepositUpdate, WithdrawUpdate
<1>2. UpdateRow(r, UpdatedRow(r), "record")
  BY DEF DepositUpdate, WithdrawUpdate, UpdatedRow
<1>3. CASE Rollback(r, "error")
  BY <1>1, <1>3, RollbackInv
<1>4. CASE ~ Rollback(r, "error")
  <2>0. /\ UpdatedRow(r).available <= MaxBalance /\ UpdatedRow(r).locked <= MaxBalance
        /\ rowLock' = [rowLock EXCEPT ![User(r)] = r]
        /\ writes' = [writes EXCEPT ![r] = [writes[r] EXCEPT !.row = UpdatedRow(r)]]
        /\ Goto(r, "record")
        /\ UNCHANGED <<tables, keyLock, snap, stale, before, client>>
    <3>1. UpdatedRow(r).available \in Int /\ UpdatedRow(r).locked \in Int
      BY <1>1, UpdatedRowType DEF RowVersion, RowHeld
    <3> QED BY <1>2, <1>4, <3>1, WalletConstants DEF UpdateRow
  <2>1. TypeOK'
    <3>1. writes' \in [Requests -> WriteSet]
      BY <1>1, <2>0, UpdatedRowType, WriteFields DEF TypeOK, RowHeld
    <3>2. pc' \in [Requests -> Labels] /\ rowLock' \in [Users -> Requests \cup {Null}]
      BY <1>1, <2>0 DEF TypeOK, Goto, Labels
    <3> QED BY <2>0, <3>1, <3>2 DEF TypeOK, tables, client
  <2>2. Isolated(r)
    <3>1. rowLock[User(r)] = r
      BY <1>1 DEF LocalInv, RowInv, RowHeld
    <3> QED BY <2>0, <3>1 DEF TypeOK, Isolated, Frame, Goto, tables, client
  <2>3. LocalInv(r)'
    <3>1. /\ pc'[r] = "record" /\ rowLock'[User(r)] = r
          /\ UNCHANGED <<wallet, keyRow, keyLock, before, req, snap, stale>>
      BY <1>1, <2>0 DEF TypeOK, Goto, tables, client
    <3>2. /\ Valid(r)' /\ User(r)' = User(r) /\ Slot(r)' = Slot(r)
          /\ UpdatedRow(r)' = UpdatedRow(r)
      BY <1>1, <3>1 DEF Valid, User, Slot, UpdatedRow, LocalInv, RequestInv, InTransaction
    <3>3. writes'[r].row = UpdatedRow(r) /\ writes'[r].key = writes[r].key
      BY <2>0 DEF TypeOK, WriteSet
    <3> QED
      BY <1>1, <2>0, <3>1, <3>2, <3>3 DEF LocalInv, RequestInv, RowInv, SnapInv, KeyInv, EntryInv,
         InTransaction, RowHeld, RowWritten, KeyHeld, SnapHeld
  <2> QED BY <2>1, <2>2, <2>3, IsolatedInv
<1> QED BY <1>3, <1>4

\* The ledger entry a handler creates is well typed.
LEMMA EntryType ==
  ASSUME TypeOK, IInv, NEW r \in Requests, pc[r] \in RowWritten,
         NEW type \in {"DEPOSIT", "WITHDRAWAL"}, NEW status \in {"COMPLETED", "PENDING"}
  PROVE  Entry(r, type, status) \in EntryRecord
<1>1. LocalInv(r) /\ User(r) \in Users /\ req[r] \in RequestForm /\ r \in TxIds
  BY SlotType DEF IInv, LocalInv, RequestInv, RowWritten, TxIds
<1>2. wallet[User(r)] \in RowVersion /\ req[r].amount \in Amounts /\ req[r].amount \in Nat
  BY <1>1, WalletConstants DEF TypeOK, RequestForm
<1>3. req[r].key \in Keys
  BY <1>1 DEF LocalInv, RequestInv, RequestForm, Valid, RowWritten, InTransaction
<1>4. before[r] \in Int /\ writes[r].row.available \in Int
  <2>1. before[r] = wallet[User(r)].available /\ writes[r].row = UpdatedRow(r)
    BY <1>1 DEF LocalInv, RowInv, RowHeld, RowWritten
  <2>2. UpdatedRow(r).available \in Int
    BY <1>2 DEF UpdatedRow, RowVersion
  <2> QED BY <1>2, <2>1, <2>2 DEF RowVersion
<1> QED BY <1>1, <1>2, <1>3, <1>4 DEF Entry, EntryRecord

LEMMA RecordInv ==
  ASSUME TypeOK, IInv, NEW r \in Requests,
         DepositRecord(r) \/ WithdrawRecord(r) \/ WithdrawFinishKey(r)
  PROVE  TypeOK' /\ IInv'
<1>1. LocalInv(r) /\ req[r].op \in Operations /\ r \in TxIds
  BY DEF IInv, LocalInv, RequestInv, RequestForm, TxIds,
     DepositRecord, WithdrawRecord, WithdrawFinishKey
<1>2. PICK label \in {"commit", "finishKey"}, w \in WriteSet :
        /\ Write(r, label, w)
        /\ w.row = writes[r].row
        /\ w.entry = IF req[r].op = "DEPOSIT" THEN Entry(r, "DEPOSIT", "COMPLETED")
                                              ELSE Entry(r, "WITHDRAWAL", "PENDING")
        /\ label = "finishKey" => req[r].op = "WITHDRAW"
        /\ req[r].op = "DEPOSIT" \/ label = "finishKey" => w.key = writes[r].key
        /\ label = "commit" /\ req[r].op = "WITHDRAW" => w.key = [exists |-> TRUE, body |-> r]
        /\ pc[r] \in RowWritten \ {"commit"}
  <2>1. CASE DepositRecord(r)
    <3>1. Entry(r, "DEPOSIT", "COMPLETED") \in EntryRecord
      BY <2>1, EntryType DEF DepositRecord, RowWritten
    <3> QED BY <2>1, <3>1, WriteFields DEF TypeOK, DepositRecord, WriteSet, RowWritten
  <2>2. CASE WithdrawRecord(r)
    <3>1. Entry(r, "WITHDRAWAL", "PENDING") \in EntryRecord
      BY <2>2, EntryType DEF WithdrawRecord, RowWritten
    <3> QED BY <2>2, <3>1, WriteFields DEF TypeOK, WithdrawRecord, WriteSet, RowWritten
  <2>3. CASE WithdrawFinishKey(r)
    <3> DEFINE w == [writes[r] EXCEPT !.key = [exists |-> TRUE, body |-> r]]
    <3>1. /\ pc[r] = "finishKey" /\ req[r].op = "WITHDRAW"
          /\ writes[r].entry = Entry(r, "WITHDRAWAL", "PENDING")
      BY <1>1, <2>3 DEF WithdrawFinishKey, LocalInv, RequestInv, EntryInv
    <3>2. Write(r, "commit", w)
      <4>1. writes[r].entry.id = r
        BY <3>1 DEF Entry
      <4> QED BY <2>3, <4>1 DEF WithdrawFinishKey
    <3>3. [exists |-> TRUE, body |-> r] \in KeyVersion
      BY <1>1 DEF KeyVersion
    <3>4. w \in WriteSet
      BY <3>3, WriteFields DEF TypeOK
    <3>5. w.row = writes[r].row /\ w.entry = writes[r].entry /\ w.key = [exists |-> TRUE, body |-> r]
      BY DEF TypeOK, WriteSet
    <3> HIDE DEF w
    <3> QED BY <3>1, <3>2, <3>4, <3>5 DEF RowWritten
  <2> QED BY <2>1, <2>2, <2>3
<1>3. TypeOK'
  BY <1>2 DEF TypeOK, Write, Goto, Labels, tables, locks, client
<1>4. Isolated(r)
  BY <1>2 DEF TypeOK, Isolated, Frame, Write, Goto, tables, locks, client
<1>5. LocalInv(r)'
  <2>1. /\ pc'[r] = label /\ writes'[r] = w
        /\ UNCHANGED <<wallet, keyRow, locks, before, req, snap, stale>>
    BY <1>2 DEF TypeOK, Write, Goto, tables, client
  <2>2. /\ Valid(r)' /\ User(r)' = User(r) /\ Slot(r)' = Slot(r)
        /\ UpdatedRow(r)' = UpdatedRow(r)
    BY <1>1, <1>2, <2>1 DEF Valid, User, Slot, UpdatedRow, LocalInv, RequestInv,
       InTransaction, RowWritten
  <2>3. \A type, status : Entry(r, type, status)' = Entry(r, type, status)
    BY <1>2, <2>1, <2>2 DEF Entry
  <2>4. RequestInv(r)' /\ RowInv(r)' /\ SnapInv(r)'
    BY <1>1, <1>2, <2>1, <2>2 DEF LocalInv, RequestInv, RowInv, SnapInv, locks,
       InTransaction, RowHeld, RowWritten, KeyHeld, SnapHeld
  <2>5. KeyInv(r)'
    BY <1>1, <1>2, <2>1, <2>2 DEF LocalInv, KeyInv, locks, InTransaction, RowHeld, RowWritten, KeyHeld
  <2>6. EntryInv(r)'
    BY <1>2, <2>1, <2>3 DEF EntryInv
  <2> QED BY <2>4, <2>5, <2>6 DEF LocalInv
<1> QED BY <1>3, <1>4, <1>5, IsolatedInv

\* What a request about to commit has written, against the committed tables.
LEMMA CommitReady ==
  ASSUME TypeOK, IInv, NEW r \in Requests, pc[r] = "commit"
  PROVE  /\ User(r) \in Users /\ Slot(r) \in Slots /\ r \in TxIds
         /\ req[r].op \in Operations /\ req[r].key \in Keys
         /\ req[r].amount \in Nat /\ req[r].amount > 0
         /\ rowLock[User(r)] = r /\ wallet[User(r)].status = "ACTIVE"
         /\ wallet[User(r)] \in RowVersion
         /\ wallet[User(r)].available >= 0 /\ wallet[User(r)].locked >= 0
         /\ writes[r].row = UpdatedRow(r) /\ UpdatedRow(r) \in RowVersion
         /\ UpdatedRow(r).available \in 0..MaxBalance /\ UpdatedRow(r).locked \in 0..MaxBalance
         /\ before[r] = wallet[User(r)].available
         /\ writes[r].entry \in EntryRecord
         /\ req[r].op = "DEPOSIT" => /\ writes[r].key = Null
                                     /\ writes[r].entry = Entry(r, "DEPOSIT", "COMPLETED")
         /\ req[r].op = "WITHDRAW" =>
              /\ writes[r].key = [exists |-> TRUE, body |-> r]
              /\ writes[r].entry = Entry(r, "WITHDRAWAL", "PENDING")
              /\ keyLock[Slot(r)] = r /\ ~ keyRow[Slot(r)].exists
              /\ req[r].amount <= wallet[User(r)].available
<1>1. LocalInv(r) /\ User(r) \in Users /\ Slot(r) \in Slots
  BY SlotType DEF IInv, LocalInv, InTransaction
<1>2. /\ r \in TxIds /\ req[r].op \in Operations /\ req[r].key \in Keys
      /\ req[r].amount \in Nat /\ req[r].amount > 0
  BY <1>1, WalletConstants DEF LocalInv, RequestInv, RequestForm, Valid, TxIds, InTransaction
<1>3. /\ rowLock[User(r)] = r /\ wallet[User(r)].status = "ACTIVE"
      /\ before[r] = wallet[User(r)].available
      /\ writes[r].row = UpdatedRow(r)
      /\ UpdatedRow(r).available <= MaxBalance /\ UpdatedRow(r).locked <= MaxBalance
  BY <1>1 DEF LocalInv, RowInv, RowHeld, RowWritten
<1>4. /\ wallet[User(r)] \in RowVersion
      /\ wallet[User(r)].available >= 0 /\ wallet[User(r)].locked >= 0
  BY <1>1 DEF TypeOK, IInv
<1>5. /\ UpdatedRow(r) \in RowVersion
      /\ UpdatedRow(r).available \in 0..MaxBalance /\ UpdatedRow(r).locked \in 0..MaxBalance
  <2>1. UpdatedRow(r).available \in Int /\ UpdatedRow(r).locked \in Int
    BY UpdatedRowType DEF RowVersion, RowHeld
  <2> QED BY <1>3, <2>1, UpdatedRowType, WalletConstants DEF RowHeld
<1>6. writes[r].entry = IF req[r].op = "DEPOSIT" THEN Entry(r, "DEPOSIT", "COMPLETED")
                                                ELSE Entry(r, "WITHDRAWAL", "PENDING")
  BY <1>1 DEF LocalInv, EntryInv
<1>7. writes[r].entry \in EntryRecord
  BY <1>6, EntryType DEF RowWritten
<1>8. req[r].op = "WITHDRAW" =>
        /\ writes[r].key = [exists |-> TRUE, body |-> r]
        /\ keyLock[Slot(r)] = r /\ ~ keyRow[Slot(r)].exists
        /\ req[r].amount <= wallet[User(r)].available
  BY <1>1 DEF LocalInv, KeyInv, SnapInv, KeyHeld, SnapHeld, RowHeld
<1>9. req[r].op = "DEPOSIT" => writes[r].key = Null
  BY <1>1 DEF LocalInv, KeyInv, InTransaction
<1> QED BY <1>1, <1>2, <1>3, <1>4, <1>5, <1>6, <1>7, <1>8, <1>9

\* A step that replaces rows no other transaction holds, and tells every
\* transaction that has a snapshot of them.
LEMMA TablesStepInv ==
  ASSUME TypeOK, IInv, NEW q \in Requests, NEW u \in Users,
         \A x \in Users \ {u} : wallet'[x] = wallet[x],
         rowLock[u] # q,
         \A slot \in Slots : keyLock[slot] = q => keyRow'[slot] = keyRow[slot],
         pc'[q] = pc[q], req'[q] = req[q],
         snap'[q] = snap[q], before'[q] = before[q], writes'[q] = writes[q],
         stale'[q] = (stale[q] \/ (snap[q] # Null /\ User(q) = u)),
         \A x \in Users : rowLock[x] = q => rowLock'[x] = q,
         \A slot \in Slots : keyLock[slot] = q => keyLock'[slot] = q
  PROVE  LocalInv(q)'
<1>1. /\ LocalInv(q)
      /\ User(q)' = User(q) /\ Slot(q)' = Slot(q)
  BY DEF IInv, User, Slot
<1>2. RequestInv(q)'
  BY <1>1 DEF LocalInv, RequestInv, Valid
<1>3. pc[q] # "idle" => User(q) \in Users
  BY <1>1, SlotType DEF LocalInv
<1>4. pc[q] \in RowHeld => /\ User(q) # u /\ wallet'[User(q)] = wallet[User(q)]
                           /\ UpdatedRow(q)' = UpdatedRow(q)
  BY <1>1, <1>3 DEF LocalInv, RowInv, RowHeld, UpdatedRow, User
<1>5. RowInv(q)'
  BY <1>1, <1>3, <1>4 DEF LocalInv, RowInv, RowHeld, RowWritten
<1>6. SnapInv(q)'
  <2>1. pc[q] \in SnapHeld /\ ~ stale'[q] /\ snap[q] # Null =>
          ~ stale[q] /\ wallet'[User(q)] = wallet[User(q)]
    BY <1>3 DEF SnapHeld, KeyHeld, RowHeld
  <2>2. pc[q] \in RowHeld => stale'[q] = stale[q]
    BY <1>4 DEF TypeOK
  <2> QED BY <1>1, <1>4, <2>1, <2>2 DEF LocalInv, SnapInv, SnapHeld, KeyHeld, RowHeld
<1>7. KeyInv(q)'
  <2>1. pc[q] \in KeyHeld => Slot(q) \in Slots
    BY <1>1, SlotType DEF LocalInv, KeyHeld, RowHeld, InTransaction
  <2> QED BY <1>1, <2>1 DEF LocalInv, KeyInv
<1>8. EntryInv(q)'
  BY <1>1 DEF LocalInv, EntryInv, Entry
<1> QED BY <1>2, <1>5, <1>6, <1>7, <1>8 DEF LocalInv

LEMMA CommitInv ==
  ASSUME TypeOK, IInv, NEW r \in Requests, Commit(r)
  PROVE  TypeOK' /\ IInv'
<1>1. pc[r] = "commit"
  BY DEF Commit
<1>a. /\ User(r) \in Users /\ Slot(r) \in Slots /\ rowLock[User(r)] = r
      /\ writes[r].row \in RowVersion /\ writes[r].entry \in EntryRecord
      /\ writes[r].row.available >= 0 /\ writes[r].row.locked >= 0
  <2>1. /\ UpdatedRow(r).available \in 0..MaxBalance /\ UpdatedRow(r).locked \in 0..MaxBalance
        /\ writes[r].row = UpdatedRow(r)
    BY <1>1, CommitReady
  <2>2. UpdatedRow(r).available >= 0 /\ UpdatedRow(r).locked >= 0
    BY <2>1, WalletConstants
  <2>3. /\ User(r) \in Users /\ Slot(r) \in Slots /\ rowLock[User(r)] = r
        /\ UpdatedRow(r) \in RowVersion /\ writes[r].entry \in EntryRecord
    BY <1>1, CommitReady
  <2> QED BY <2>1, <2>2, <2>3
<1>b. writes[r].key # Null => writes[r].key \in KeyVersion /\ keyLock[Slot(r)] = r
  <2>1. req[r].op \in {"DEPOSIT", "WITHDRAW"} /\ r \in TxIds
    BY <1>1, CommitReady DEF Operations
  <2>2. CASE req[r].op = "DEPOSIT"
    BY <1>1, <2>2, CommitReady
  <2>3. CASE req[r].op = "WITHDRAW"
    <3>1. writes[r].key = [exists |-> TRUE, body |-> r] /\ keyLock[Slot(r)] = r
      BY <1>1, <2>3, CommitReady
    <3> QED BY <2>1, <3>1 DEF KeyVersion
  <2> QED BY <2>1, <2>2, <2>3
<1>2. wallet' \in [Users -> RowVersion]
  BY <1>a DEF TypeOK, Commit
<1>3. ledger' \in [Users -> Seq(EntryRecord)]
  <2>1. ledger \in [Users -> Seq(EntryRecord)]
    BY DEF TypeOK
  <2>2. Append(ledger[User(r)], writes[r].entry) \in Seq(EntryRecord)
    BY <1>a, <2>1
  <2> QED BY <2>1, <2>2 DEF Commit
<1>4. keyRow' \in [Slots -> KeyVersion]
  BY <1>a, <1>b DEF TypeOK, Commit, Slots
<1>5. TypeOK'
  <2>1. r \in TxIds
    BY <1>1, CommitReady
  <2> QED BY <1>2, <1>3, <1>4, <2>1 DEF TypeOK, Commit, EndTransaction, Unlocked, Goto, NoWrites,
      WriteSet, Labels, Slots
<1>6. ASSUME NEW q \in Requests, q # r
      PROVE  LocalInv(q)'
  <2>1. \A x \in Users \ {User(r)} : wallet'[x] = wallet[x]
    BY DEF TypeOK, Commit
  <2>2. User(r) \in Users /\ rowLock[User(r)] # q
    BY <1>1, <1>6, CommitReady
  <2>3. \A slot \in Slots : keyLock[slot] = q => keyRow'[slot] = keyRow[slot]
    BY <1>6, <1>b DEF TypeOK, Commit, Slots
  <2>4. /\ pc'[q] = pc[q] /\ req'[q] = req[q]
        /\ snap'[q] = snap[q] /\ before'[q] = before[q] /\ writes'[q] = writes[q]
        /\ stale'[q] = (stale[q] \/ (snap[q] # Null /\ User(q) = User(r)))
    BY <1>6 DEF TypeOK, Commit, EndTransaction, Goto
  <2>5. /\ \A x \in Users : rowLock[x] = q => rowLock'[x] = q
        /\ \A slot \in Slots : keyLock[slot] = q => keyLock'[slot] = q
    BY <1>6 DEF TypeOK, Commit, EndTransaction, Unlocked, Slots
  <2> QED BY <2>1, <2>2, <2>3, <2>4, <2>5, TablesStepInv
<1>7. LocalInv(r)'
  <2>1. /\ pc'[r] = "reply" /\ req'[r] = req[r]
        /\ writes'[r] = NoWrites
    BY DEF TypeOK, Commit, EndTransaction, Goto
  <2>2. RequestInv(r)'
    BY <1>1, <2>1 DEF IInv, LocalInv, RequestInv, InTransaction, Valid
  <2> QED BY <2>1, <2>2, DoneInv
<1>8. \A u \in Users : wallet'[u].available >= 0 /\ wallet'[u].locked >= 0
  BY <1>a DEF TypeOK, IInv, Commit
<1> QED BY <1>5, <1>6, <1>7, <1>8 DEF IInv

LEMMA SetStatusInv ==
  ASSUME TypeOK, IInv, NEW u \in Users, NEW s \in Statuses, SetStatus(u, s)
  PROVE  TypeOK' /\ IInv'
<1>1. TypeOK'
  <2>1. wallet' \in [Users -> RowVersion]
    <3>1. [wallet[u] EXCEPT !.status = s] \in RowVersion
      <4>1. wallet[u] \in RowVersion
        BY DEF TypeOK
      <4> QED BY <4>1 DEF RowVersion
    <3>2. wallet' = [wallet EXCEPT ![u] = [wallet[u] EXCEPT !.status = s]]
      BY DEF SetStatus
    <3> QED BY <3>1, <3>2 DEF TypeOK
  <2> QED BY <2>1 DEF TypeOK, SetStatus, locks, client
<1>2. ASSUME NEW q \in Requests
      PROVE  LocalInv(q)'
  <2>1. rowLock[u] # q /\ \A x \in Users \ {u} : wallet'[x] = wallet[x]
    BY WalletConstants DEF TypeOK, SetStatus
  <2>2. /\ pc'[q] = pc[q] /\ req'[q] = req[q]
        /\ snap'[q] = snap[q] /\ before'[q] = before[q] /\ writes'[q] = writes[q]
        /\ stale'[q] = (stale[q] \/ (snap[q] # Null /\ User(q) = u))
        /\ UNCHANGED <<keyRow, rowLock, keyLock>>
    BY DEF TypeOK, SetStatus, locks, client
  <2> QED BY <2>1, <2>2, TablesStepInv
<1>3. \A x \in Users : wallet'[x].available >= 0 /\ wallet'[x].locked >= 0
  BY DEF TypeOK, IInv, SetStatus, RowVersion
<1> QED BY <1>1, <1>2, <1>3 DEF IInv

LEMMA StutterInv == ASSUME TypeOK, IInv, UNCHANGED vars PROVE TypeOK' /\ IInv'
<1>1. UNCHANGED <<wallet, keyRow, ledger, rowLock, keyLock, req, pc, snap, stale,
                  before, writes, outcome, answer>>
  BY DEF vars, tables, locks, local, client
<1>2. TypeOK'
  BY <1>1 DEF TypeOK
<1>3. \A q \in Requests : Frame(q)
  BY <1>1 DEF Frame, tables
<1>4. \A q \in Requests : LocalInv(q)'
  BY <1>3, FrameInv DEF IInv
<1> QED BY <1>1, <1>2, <1>4 DEF IInv

\* Every step of the service, its clients and its operator preserves the invariant.
LEMMA StepInv == TypeOK /\ IInv /\ [Next]_vars => TypeOK' /\ IInv'
<1> SUFFICES ASSUME TypeOK, IInv, [Next]_vars PROVE TypeOK' /\ IInv'
  OBVIOUS
<1>1. CASE UNCHANGED vars
  BY <1>1, StutterInv
<1>2. ASSUME NEW r \in Requests, Send(r) \/ Serve(r) \/ Fail(r) \/ LoseAnswer(r)
      PROVE  TypeOK' /\ IInv'
  <2>1. CASE Fail(r)
    BY <2>1, RollbackInv DEF Fail
  <2>2. CASE Send(r) \/ Reply(r) \/ LoseAnswer(r)
    BY <2>2, ClientInv
  <2>3. CASE DepositStep(r)
    BY <2>3, FindKeyInv, LockRowInv, UpdateRowInv, RecordInv DEF DepositStep
  <2>4. CASE WithdrawStep(r)
    BY <2>4, FindKeyInv, FindTransactionInv, InsertKeyInv, LockRowInv, CheckInv, UpdateRowInv,
       RecordInv DEF WithdrawStep
  <2>5. CASE Commit(r) \/ RejectInvalid(r)
    BY <2>5, CommitInv, FindKeyInv
  <2> QED BY <1>2, <2>1, <2>2, <2>3, <2>4, <2>5 DEF Serve
<1>3. ASSUME NEW u \in Users, NEW s \in Statuses, SetStatus(u, s)
      PROVE  TypeOK' /\ IInv'
  BY <1>3, SetStatusInv
<1> QED BY <1>1, <1>2, <1>3 DEF Next

\* TypeOK and IInv hold in every reachable state of the wallet service: rows,
\* locks, snapshots and uncommitted versions keep their types and agree.
THEOREM Invariance == Spec => [](TypeOK /\ IInv)
<1>1. Init => TypeOK /\ IInv
  BY InitInv
<1>2. TypeOK /\ IInv /\ [Next]_vars => (TypeOK /\ IInv)'
  BY StepInv
<1> QED BY <1>1, <1>2, PTL DEF Spec

\* The balance check of executeWithdrawal is never outrun: no interleaving of
\* deposits, withdrawals, failures and retries makes a balance negative.
THEOREM NeverOverdrawn == Spec => []NoOverdraft
<1>1. IInv => NoOverdraft
  BY DEF IInv, NoOverdraft
<1> QED BY <1>1, Invariance, PTL
-----------------------------------------------------------------------------
(* Refinement: only commits and status changes touch the tables, and each is *)
(* a step of WalletLedger.                                                   *)

LEMMA CommitIsLedgerStep ==
  ASSUME TypeOK, IInv, NEW r \in Requests, Commit(r)
  PROVE  Ledger!Next
<1> DEFINE u == User(r)
           k == req[r].key
           a == req[r].amount
<1>1. pc[r] = "commit"
  BY DEF Commit
<1>2. /\ u \in Users /\ k \in Keys /\ r \in TxIds /\ a \in Nat /\ a > 0
      /\ wallet[u].status = "ACTIVE" /\ wallet[u] \in RowVersion
      /\ wallet[u].available >= 0 /\ wallet[u].locked >= 0
  BY <1>1, CommitReady
<1>3. /\ wallet' = [wallet EXCEPT ![u] = UpdatedRow(r)]
      /\ ledger' = [ledger EXCEPT ![u] = Append(ledger[u], writes[r].entry)]
      /\ keyRow' = IF writes[r].key = Null THEN keyRow
                   ELSE [keyRow EXCEPT ![Slot(r)] = writes[r].key]
      /\ before[r] = wallet[u].available /\ writes[r].row = UpdatedRow(r)
  <2>1. before[r] = wallet[u].available /\ writes[r].row = UpdatedRow(r)
    BY <1>1, CommitReady
  <2> QED BY <2>1 DEF Commit
<1>4. CASE req[r].op = "DEPOSIT"
  <2>1. /\ writes[r].key = Null /\ writes[r].entry = Entry(r, "DEPOSIT", "COMPLETED")
        /\ UpdatedRow(r).available \in 0..MaxBalance
    BY <1>1, <1>4, CommitReady
  <2>2. UpdatedRow(r) = [wallet[u] EXCEPT !.available = @ + a]
    BY <1>4 DEF UpdatedRow
  <2>3. UpdatedRow(r).available = wallet[u].available + a
    BY <1>2, <2>2 DEF RowVersion
  <2>4. a \in 1..MaxBalance /\ wallet[u].available + a <= MaxBalance
    <3>1. wallet[u].available \in Int
      BY <1>2 DEF RowVersion
    <3> QED BY <1>2, <2>1, <2>3, <3>1, WalletConstants
  <2>5. wallet' = [wallet EXCEPT ![u].available = @ + a]
    BY <1>3, <2>2
  <2>6. writes[r].entry =
          [id |-> r, type |-> "DEPOSIT", status |-> "COMPLETED", amount |-> a,
           before |-> wallet[u].available, after |-> wallet[u].available + a, ref |-> k]
    BY <1>3, <2>1, <2>3 DEF Entry
  <2>7. Ledger!Deposit(u, k, r, a)
    BY <1>2, <1>3, <2>1, <2>4, <2>5, <2>6 DEF Ledger!Deposit
  <2> QED BY <1>2, <2>4, <2>7 DEF Ledger!Next
<1>5. CASE req[r].op = "WITHDRAW"
  <2>1. /\ writes[r].key = [exists |-> TRUE, body |-> r]
        /\ writes[r].entry = Entry(r, "WITHDRAWAL", "PENDING")
        /\ ~ keyRow[Slot(r)].exists /\ a <= wallet[u].available
        /\ UpdatedRow(r).locked \in 0..MaxBalance
    BY <1>1, <1>5, CommitReady
  <2>2. UpdatedRow(r) = [wallet[u] EXCEPT !.available = @ - a, !.locked = @ + a]
    BY <1>5 DEF UpdatedRow
  <2>3. /\ UpdatedRow(r).available = wallet[u].available - a
        /\ UpdatedRow(r).locked = wallet[u].locked + a
    BY <1>2, <2>2 DEF RowVersion
  <2>4. a \in 1..MaxBalance /\ wallet[u].locked + a <= MaxBalance
    <3>1. wallet[u].locked \in Int
      BY <1>2 DEF RowVersion
    <3> QED BY <1>2, <2>1, <2>3, <3>1, WalletConstants
  <2>5. wallet' = [wallet EXCEPT ![u].available = @ - a, ![u].locked = @ + a]
    BY <1>2, <1>3, <2>2 DEF TypeOK
  <2>6. writes[r].entry =
          [id |-> r, type |-> "WITHDRAWAL", status |-> "PENDING", amount |-> a,
           before |-> wallet[u].available, after |-> wallet[u].available - a, ref |-> k]
    BY <1>3, <2>1, <2>3 DEF Entry
  <2>7. Slot(r) = <<u, k, "WITHDRAW">>
    BY <1>5 DEF Slot, User
  <2>8. keyRow' = [keyRow EXCEPT ![Slot(r)] = [exists |-> TRUE, body |-> r]]
    <3>1. [exists |-> TRUE, body |-> r] \in KeyVersion
      BY <1>2 DEF KeyVersion
    <3> QED BY <1>3, <2>1, <3>1, WalletConstants
  <2>9. Ledger!Withdraw(u, k, r, a)
    BY <1>2, <1>3, <2>1, <2>4, <2>5, <2>6, <2>7, <2>8 DEF Ledger!Withdraw
  <2> QED BY <1>2, <2>4, <2>9 DEF Ledger!Next
<1> QED BY <1>1, <1>4, <1>5, CommitReady DEF Operations

LEMMA OtherStepsKeepTables ==
  ASSUME NEW r \in Requests,
         Send(r) \/ Fail(r) \/ LoseAnswer(r) \/ RejectInvalid(r)
         \/ DepositStep(r) \/ WithdrawStep(r) \/ Reply(r)
  PROVE  UNCHANGED tables
<1>1. CASE Send(r) \/ Fail(r) \/ LoseAnswer(r) \/ RejectInvalid(r) \/ Reply(r)
  BY <1>1 DEF Send, Fail, LoseAnswer, RejectInvalid, Reply, Rollback
<1>2. CASE DepositStep(r)
  BY <1>2 DEF DepositStep, DepositFindKey, DepositLock, DepositUpdate, DepositRecord,
     Rollback, ReturnFound, LockRow, UpdateRow, Write
<1>3. CASE WithdrawStep(r)
  BY <1>3 DEF WithdrawStep, WithdrawFindKey, WithdrawFindTransaction, WithdrawInsertKey,
     WithdrawLock, WithdrawCheck, WithdrawUpdate, WithdrawRecord, WithdrawFinishKey,
     Rollback, ReturnFound, LockRow, UpdateRow, Write
<1> QED BY <1>1, <1>2, <1>3

\* Every step of the service is a step of the ledger or leaves the tables alone.
LEMMA StepIsLedgerStep ==
  ASSUME TypeOK, IInv, [Next]_vars
  PROVE  Ledger!Next \/ UNCHANGED tables
<1>1. CASE UNCHANGED vars
  BY <1>1 DEF vars
<1>2. ASSUME NEW r \in Requests, Send(r) \/ Serve(r) \/ Fail(r) \/ LoseAnswer(r)
      PROVE  Ledger!Next \/ UNCHANGED tables
  BY <1>2, CommitIsLedgerStep, OtherStepsKeepTables DEF Serve
<1>3. ASSUME NEW u \in Users, NEW s \in Statuses, SetStatus(u, s)
      PROVE  Ledger!Next \/ UNCHANGED tables
  BY <1>3 DEF SetStatus, Ledger!SetStatus, Ledger!Next, Statuses, Ledger!Statuses
<1> QED BY <1>1, <1>2, <1>3 DEF Next

\* The interleaved SQL transactions implement the ledger that serves requests
\* one at a time: credits only to active wallets, withdrawals covered by the
\* balance, once per key, each with exactly one entry that carries the balances.
THEOREM Refinement == Spec => ImplementsLedger
<1>1. Init => Ledger!Init
  BY DEF Init
<1>2. TypeOK /\ IInv /\ [Next]_vars => [Ledger!Next]_Ledger!tables
  BY StepIsLedgerStep DEF tables, Ledger!tables
<1> QED BY <1>1, <1>2, Invariance, PTL DEF Spec, ImplementsLedger, Ledger!Spec
-----------------------------------------------------------------------------
(* What follows for the tables from being written only by ledger steps.      *)

\* Posting: a new entry at the end of one wallet's ledger.
LEMMA AppendEntry ==
  ASSUME TypeOK, NEW u \in Users, NEW e,
         ledger' = [ledger EXCEPT ![u] = Append(ledger[u], e)]
  PROVE  /\ \A v \in Users \ {u} : ledger'[v] = ledger[v]
         /\ Len(ledger[u]) \in Nat /\ Len(ledger'[u]) = Len(ledger[u]) + 1
         /\ \A i \in 1..Len(ledger[u]) : ledger'[u][i] = ledger[u][i]
         /\ ledger'[u][Len(ledger[u]) + 1] = e
         /\ DOMAIN ledger[u] = 1..Len(ledger[u])
         /\ DOMAIN ledger'[u] = 1..(Len(ledger[u]) + 1)
<1>1. ledger \in [Users -> Seq(EntryRecord)] /\ ledger[u] \in Seq(EntryRecord)
  BY DEF TypeOK
<1>2. ledger'[u] = Append(ledger[u], e) /\ \A v \in Users \ {u} : ledger'[v] = ledger[v]
  BY <1>1
<1> QED BY <1>1, <1>2

LEMMA PostInv ==
  ASSUME TypeOK, TablesInv, NEW u \in Users, NEW e,
         ledger' = [ledger EXCEPT ![u] = Append(ledger[u], e)],
         e.before = wallet[u].available, e.after = e.before + Signed(e),
         wallet'[u].available = e.after,
         \A v \in Users \ {u} : wallet'[v].available = wallet[v].available,
         \/ e.type = "DEPOSIT" /\ keyRow' = keyRow
         \/ /\ e.type = "WITHDRAWAL" /\ e.ref \in Keys
            /\ ~ keyRow[<<u, e.ref, "WITHDRAW">>].exists
            /\ keyRow' = [keyRow EXCEPT ![<<u, e.ref, "WITHDRAW">>] = [exists |-> TRUE, body |-> e.id]]
  PROVE  TablesInv'
<1>0. Len(ledger[u]) \in Nat
  BY AppendEntry
<1> SUFFICES ASSUME NEW n \in Nat, n = Len(ledger[u]) PROVE TablesInv'
  BY <1>0
<1>1. /\ \A v \in Users \ {u} : ledger'[v] = ledger[v]
      /\ Len(ledger'[u]) = n + 1
      /\ \A i \in 1..n : ledger'[u][i] = ledger[u][i]
      /\ ledger'[u][n + 1] = e
      /\ DOMAIN ledger[u] = 1..n
      /\ DOMAIN ledger'[u] = 1..(n + 1)
  <2> DEFINE m == Len(ledger[u])
  <2>1. /\ \A v \in Users \ {u} : ledger'[v] = ledger[v]
        /\ Len(ledger'[u]) = m + 1
        /\ \A i \in 1..m : ledger'[u][i] = ledger[u][i]
        /\ ledger'[u][m + 1] = e
        /\ DOMAIN ledger[u] = 1..m
        /\ DOMAIN ledger'[u] = 1..(m + 1)
    BY AppendEntry
  <2>2. m = n
    OBVIOUS
  <2> HIDE DEF m
  <2> QED BY <2>1, <2>2
<1>2. ASSUME NEW v \in Users, NEW k \in Keys
      PROVE  /\ keyRow[<<v, k, "WITHDRAW">>].exists =>
                  keyRow'[<<v, k, "WITHDRAW">>] = keyRow[<<v, k, "WITHDRAW">>]
             /\ e.type = "WITHDRAWAL" /\ v = u /\ k = e.ref =>
                  keyRow'[<<v, k, "WITHDRAW">>] = [exists |-> TRUE, body |-> e.id]
             /\ ~ (e.type = "WITHDRAWAL" /\ v = u /\ k = e.ref) =>
                  keyRow'[<<v, k, "WITHDRAW">>] = keyRow[<<v, k, "WITHDRAW">>]
  <2>1. CASE e.type = "DEPOSIT" /\ keyRow' = keyRow
    BY <2>1
  <2>2. CASE /\ e.type = "WITHDRAWAL" /\ e.ref \in Keys
             /\ ~ keyRow[<<u, e.ref, "WITHDRAW">>].exists
             /\ keyRow' = [keyRow EXCEPT ![<<u, e.ref, "WITHDRAW">>] = [exists |-> TRUE, body |-> e.id]]
    <3> DEFINE slot == <<v, k, "WITHDRAW">>
    <3>1. keyRow'[slot] = IF v = u /\ k = e.ref THEN [exists |-> TRUE, body |-> e.id]
                                                ELSE keyRow[slot]
      <4>1. slot \in DOMAIN keyRow
        BY DEF TypeOK, Operations
      <4>2. slot = <<u, e.ref, "WITHDRAW">> <=> v = u /\ k = e.ref
        OBVIOUS
      <4> HIDE DEF slot
      <4> QED BY <2>2, <4>1, <4>2
    <3> QED BY <2>2, <3>1
  <2> QED BY <2>1, <2>2
<1>3. LedgerChain'
  <2>1. ASSUME NEW v \in Users, v # u
        PROVE  /\ \A i \in DOMAIN ledger'[v] :
                    /\ ledger'[v][i].before = Left(v, i - 1)'
                    /\ ledger'[v][i].after = Left(v, i - 1)' + Signed(ledger'[v][i])
               /\ wallet'[v].available = Left(v, Len(ledger[v]))'
    BY <1>1, <2>1 DEF TablesInv, LedgerChain, Left
  <2>2. \A i \in 0..n : Left(u, i)' = Left(u, i)
    BY <1>1 DEF Left
  <2>3. Left(u, n) = wallet[u].available
    BY DEF TablesInv, LedgerChain
  <2>4. ASSUME NEW i \in 1..n
        PROVE  /\ ledger'[u][i].before = Left(u, i - 1)'
               /\ ledger'[u][i].after = Left(u, i - 1)' + Signed(ledger'[u][i])
    BY <1>1, <2>2 DEF TablesInv, LedgerChain
  <2>5. Left(u, n)' = e.before
    BY <2>2, <2>3
  <2>6. Left(u, n + 1)' = e.after
    BY <1>1 DEF Left
  <2>7. ASSUME NEW i \in DOMAIN ledger'[u]
        PROVE  /\ ledger'[u][i].before = Left(u, i - 1)'
               /\ ledger'[u][i].after = Left(u, i - 1)' + Signed(ledger'[u][i])
    <3>1. CASE i \in 1..n
      BY <3>1, <2>4
    <3>2. CASE i = n + 1
      <4>1. i - 1 = n
        BY <3>2
      <4> QED BY <1>1, <2>5, <3>2, <4>1
    <3> QED BY <1>1, <3>1, <3>2
  <2>8. wallet'[u].available = Left(u, Len(ledger[u]))'
    BY <1>1, <2>6
  <2> QED BY <2>1, <2>7, <2>8 DEF LedgerChain
<1>4. KeyRecordsResolve'
  <2> SUFFICES ASSUME NEW v \in Users, NEW k \in Keys, keyRow'[<<v, k, "WITHDRAW">>].exists
               PROVE  \E i \in DOMAIN ledger'[v] :
                        /\ ledger'[v][i].id = keyRow'[<<v, k, "WITHDRAW">>].body
                        /\ ledger'[v][i].type = "WITHDRAWAL" /\ ledger'[v][i].ref = k
    BY DEF KeyRecordsResolve
  <2>1. CASE e.type = "WITHDRAWAL" /\ v = u /\ k = e.ref
    <3>1. keyRow'[<<v, k, "WITHDRAW">>].body = e.id
      BY <1>2, <2>1
    <3>2. n + 1 \in DOMAIN ledger'[v] /\ ledger'[v][n + 1] = e
      BY <1>1, <2>1
    <3> QED BY <2>1, <3>1, <3>2
  <2>2. CASE ~ (e.type = "WITHDRAWAL" /\ v = u /\ k = e.ref)
    <3>1. keyRow'[<<v, k, "WITHDRAW">>] = keyRow[<<v, k, "WITHDRAW">>]
      BY <1>2, <2>2
    <3>2. PICK i \in DOMAIN ledger[v] : /\ ledger[v][i].id = keyRow[<<v, k, "WITHDRAW">>].body
                                        /\ ledger[v][i].type = "WITHDRAWAL"
                                        /\ ledger[v][i].ref = k
      BY <3>1 DEF TablesInv, KeyRecordsResolve
    <3>3. i \in DOMAIN ledger'[v] /\ ledger'[v][i] = ledger[v][i]
      BY <1>1, <3>2
    <3> QED BY <3>1, <3>2, <3>3
  <2> QED BY <2>1, <2>2
<1>5. PostedUsesKey'
  <2> SUFFICES ASSUME NEW v \in Users, NEW i \in DOMAIN ledger'[v],
                      ledger'[v][i].type = "WITHDRAWAL"
               PROVE  keyRow'[<<v, ledger'[v][i].ref, "WITHDRAW">>].exists
    BY DEF PostedUsesKey
  <2>1. CASE v = u /\ i = n + 1
    BY <1>1, <1>2, <2>1
  <2>2. CASE ~ (v = u /\ i = n + 1)
    <3>1. i \in DOMAIN ledger[v] /\ ledger'[v][i] = ledger[v][i]
      BY <1>1, <2>2
    <3>2. ledger[v][i].ref \in Keys
      <4>1. ledger[v] \in Seq(EntryRecord)
        BY DEF TypeOK
      <4>2. ledger[v][i] \in EntryRecord
        BY <3>1, <4>1
      <4> QED BY <4>2 DEF EntryRecord
    <3>3. keyRow[<<v, ledger[v][i].ref, "WITHDRAW">>].exists
      BY <3>1 DEF TablesInv, PostedUsesKey
    <3> QED BY <1>2, <3>1, <3>2, <3>3
  <2> QED BY <2>1, <2>2
<1>6. WithdrawOnce'
  <2> SUFFICES ASSUME NEW v \in Users, NEW i \in DOMAIN ledger'[v], NEW j \in DOMAIN ledger'[v],
                      ledger'[v][i].type = "WITHDRAWAL", ledger'[v][j].type = "WITHDRAWAL",
                      ledger'[v][i].ref = ledger'[v][j].ref, i # j
               PROVE  FALSE
    BY DEF WithdrawOnce, PostedOnce
  <2>1. \A m \in DOMAIN ledger'[v] : ~ (v = u /\ m = n + 1) =>
           m \in DOMAIN ledger[v] /\ ledger'[v][m] = ledger[v][m]
    BY <1>1
  <2>2. CASE v = u /\ n + 1 \in {i, j}
    <3>1. PICK m \in DOMAIN ledger[u] : /\ ledger[u][m].type = "WITHDRAWAL"
                                        /\ ledger[u][m].ref = e.ref /\ e.type = "WITHDRAWAL"
      BY <1>1, <2>1, <2>2
    <3>2. keyRow[<<u, e.ref, "WITHDRAW">>].exists
      BY <3>1 DEF TablesInv, PostedUsesKey
    <3> QED BY <3>1, <3>2
  <2>3. CASE ~ (v = u /\ n + 1 \in {i, j})
    BY <2>1, <2>3 DEF TablesInv, WithdrawOnce, PostedOnce
  <2> QED BY <2>2, <2>3
<1> QED BY <1>3, <1>4, <1>5, <1>6 DEF TablesInv

LEMMA LedgerStepInv ==
  ASSUME TypeOK, TablesInv, Ledger!Next
  PROVE  TablesInv'
<1>1. \A v \in Users : wallet[v] \in RowVersion
  BY DEF TypeOK
<1>2. ASSUME NEW u \in Users, NEW k \in Keys, NEW id \in TxIds, NEW a \in 1..MaxBalance,
             Ledger!Deposit(u, k, id, a)
      PROVE  TablesInv'
  <2> DEFINE e == [id |-> id, type |-> "DEPOSIT", status |-> "COMPLETED", amount |-> a,
                   before |-> wallet[u].available, after |-> wallet[u].available + a, ref |-> k]
  <2>1. /\ ledger' = [ledger EXCEPT ![u] = Append(ledger[u], e)] /\ keyRow' = keyRow
        /\ wallet' = [wallet EXCEPT ![u] = [wallet[u] EXCEPT !.available = wallet[u].available + a]]
    BY <1>2 DEF Ledger!Deposit
  <2>2. /\ wallet'[u].available = e.after
        /\ \A v \in Users \ {u} : wallet'[v].available = wallet[v].available
    BY <1>1, <2>1 DEF TypeOK, RowVersion
  <2>3. e.type = "DEPOSIT" /\ e.before = wallet[u].available /\ e.after = e.before + Signed(e)
    BY DEF Signed
  <2> HIDE DEF e
  <2> QED BY <2>1, <2>2, <2>3, PostInv
<1>3. ASSUME NEW u \in Users, NEW k \in Keys, NEW id \in TxIds, NEW a \in 1..MaxBalance,
             Ledger!Withdraw(u, k, id, a)
      PROVE  TablesInv'
  <2> DEFINE e == [id |-> id, type |-> "WITHDRAWAL", status |-> "PENDING", amount |-> a,
                   before |-> wallet[u].available, after |-> wallet[u].available - a, ref |-> k]
  <2>1. /\ ledger' = [ledger EXCEPT ![u] = Append(ledger[u], e)]
        /\ ~ keyRow[<<u, k, "WITHDRAW">>].exists
        /\ keyRow' = [keyRow EXCEPT ![<<u, k, "WITHDRAW">>] = [exists |-> TRUE, body |-> id]]
        /\ wallet' = [wallet EXCEPT ![u] = [wallet[u] EXCEPT !.available = wallet[u].available - a,
                                                             !.locked = wallet[u].locked + a]]
    BY <1>1, <1>3 DEF Ledger!Withdraw, TypeOK
  <2>2. /\ wallet'[u].available = e.after
        /\ \A v \in Users \ {u} : wallet'[v].available = wallet[v].available
    BY <1>1, <2>1 DEF TypeOK, RowVersion
  <2>3. /\ e.type = "WITHDRAWAL" /\ e.ref = k /\ e.id = id
        /\ e.before = wallet[u].available /\ e.after = e.before + Signed(e)
    BY <1>1 DEF Signed, RowVersion
  <2> HIDE DEF e
  <2> QED BY <2>1, <2>2, <2>3, PostInv
<1>4. ASSUME NEW u \in Users, NEW s \in Ledger!Statuses, Ledger!SetStatus(u, s)
      PROVE  TablesInv'
  <2>1. /\ keyRow' = keyRow /\ ledger' = ledger
        /\ \A v \in Users : wallet'[v].available = wallet[v].available
    BY <1>1, <1>4 DEF Ledger!SetStatus, TypeOK, RowVersion
  <2> QED BY <2>1 DEF TablesInv, LedgerChain, Left, KeyRecordsResolve, WithdrawOnce, PostedOnce,
          PostedUsesKey
<1> QED BY <1>2, <1>3, <1>4 DEF Ledger!Next

\* What the tables carry from commit to commit, for every number of requests.
THEOREM TablesConsistent == Spec => []TablesInv
<1>1. Init => TablesInv
  BY DEF Init, Ledger!Init, Ledger!NoKeyRow, TablesInv, LedgerChain, Left, KeyRecordsResolve,
         WithdrawOnce, PostedOnce, PostedUsesKey, Operations, Ledger!Operations
<1>2. TypeOK /\ IInv /\ TablesInv /\ [Next]_vars => TablesInv'
  <2> SUFFICES ASSUME TypeOK, IInv, TablesInv, [Next]_vars PROVE TablesInv'
    OBVIOUS
  <2>1. CASE UNCHANGED tables
    <3>1. wallet' = wallet /\ keyRow' = keyRow /\ ledger' = ledger
      BY <2>1 DEF tables
    <3>2. LedgerChain' /\ KeyRecordsResolve'
      BY <3>1 DEF TablesInv, LedgerChain, Left, KeyRecordsResolve
    <3>3. WithdrawOnce' /\ PostedUsesKey'
      BY <3>1 DEF TablesInv, WithdrawOnce, PostedOnce, PostedUsesKey
    <3> QED BY <3>2, <3>3 DEF TablesInv
  <2> QED BY <2>1, StepIsLedgerStep, LedgerStepInv
<1> QED BY <1>1, <1>2, Invariance, PTL DEF Spec

\* No update is lost: every entry's balances follow those of the entry before
\* it, and the wallet row holds what the last entry left.
THEOREM NothingLost == Spec => []LedgerChain
BY TablesConsistent, PTL DEF TablesInv

\* One idempotency key withdraws once.
THEOREM WithdrawnOnce == Spec => []WithdrawOnce
BY TablesConsistent, PTL DEF TablesInv

\* A committed idempotency record names a posted withdrawal.
THEOREM KeysResolve == Spec => []KeyRecordsResolve
BY TablesConsistent, PTL DEF TablesInv

\* Money moves only in active wallets, whatever status changes race with it.
THEOREM ActiveWalletsOnly == Spec => OnlyActiveWalletsMove
<1>1. TypeOK /\ IInv /\ [Next]_vars =>
        [\A u \in Users : ledger'[u] # ledger[u] =>
           wallet[u].status = "ACTIVE" /\ wallet'[u].status = "ACTIVE"]_vars
  <2> SUFFICES ASSUME TypeOK, IInv, [Next]_vars, NEW u \in Users, ledger'[u] # ledger[u]
               PROVE  wallet[u].status = "ACTIVE" /\ wallet'[u].status = "ACTIVE"
    OBVIOUS
  <2>1. wallet \in [Users -> RowVersion] /\ ledger \in [Users -> Seq(EntryRecord)]
    BY DEF TypeOK
  <2>2. ASSUME NEW v \in Users, NEW k \in Keys, NEW id \in TxIds, NEW a \in 1..MaxBalance,
               Ledger!Deposit(v, k, id, a) \/ Ledger!Withdraw(v, k, id, a)
        PROVE  wallet[u].status = "ACTIVE" /\ wallet'[u].status = "ACTIVE"
    <3>1. v = u
      BY <2>1, <2>2 DEF Ledger!Deposit, Ledger!Withdraw
    <3>2. CASE Ledger!Deposit(u, k, id, a)
      BY <2>1, <3>2 DEF Ledger!Deposit, RowVersion
    <3>3. CASE Ledger!Withdraw(u, k, id, a)
      BY <2>1, <3>3 DEF Ledger!Withdraw, RowVersion
    <3> QED BY <2>2, <3>1, <3>2, <3>3
  <2>3. ASSUME NEW v \in Users, NEW s \in Ledger!Statuses, Ledger!SetStatus(v, s)
        PROVE  FALSE
    BY <2>3 DEF Ledger!SetStatus
  <2>4. CASE UNCHANGED tables
    BY <2>4 DEF tables
  <2>5. CASE Ledger!Next
    BY <2>2, <2>3, <2>5 DEF Ledger!Next
  <2> QED BY <2>4, <2>5, StepIsLedgerStep
<1> QED BY <1>1, Invariance, PTL DEF Spec, OnlyActiveWalletsMove
-----------------------------------------------------------------------------
(* The sums of the ledger.                                                   *)

\* A set of natural numbers has a least one.
LEMMA LeastNumber ==
  ASSUME NEW T \in SUBSET Nat, T # {}
  PROVE  \E m \in T : \A k \in T : m <= k
<1> DEFINE R == StrictSubsetOrdering(Nat)
           B == {0..k : k \in T}
<1>1. B \subseteq FiniteSubsetsOf(Nat) /\ B # {}
  <2>1. ASSUME NEW k \in T PROVE 0..k \in FiniteSubsetsOf(Nat)
    <3>1. IsFiniteSet(0..k) /\ 0..k \in SUBSET Nat
      BY FS_Interval
    <3> QED BY <3>1 DEF FiniteSubsetsOf
  <2> QED BY <2>1
<1>2. PICK I \in B : \A J \in B : <<J, I>> \notin R
  <2> HIDE DEF B
  <2> QED BY <1>1, FS_StrictSubsetOrderingWellFounded, WFMin
<1>3. PICK m \in T : I = 0..m
  BY <1>2
<1>4. ASSUME NEW k \in T, k < m PROVE FALSE
  <2>1. 0..k \in B /\ <<0..k, 0..m>> \in R
    <3>1. 0..k \in SUBSET Nat /\ 0..m \in SUBSET Nat /\ 0..k \subseteq 0..m /\ m \in 0..m /\ m \notin 0..k
      BY <1>4
    <3> QED BY <1>4, <3>1 DEF StrictSubsetOrdering
  <2> QED BY <1>2, <1>3, <2>1
<1> QED BY <1>4

\* f has the partial sums of the first n numbers of s.
Sums(f, s, n) == f[0] = 0 /\ \A k \in 1..n : f[k] = f[k - 1] + s[k]

\* Any numbers have partial sums: the shortest prefix without them would follow one
\* that has them.
LEMMA SumsExist ==
  ASSUME NEW s \in Seq(Int)
  PROVE  \E f \in [0..Len(s) -> Int] : Sums(f, s, Len(s))
<1>0. Len(s) \in 0..Len(s)
  OBVIOUS
<1> DEFINE T == {n \in 0..Len(s) : ~ \E f \in [0..n -> Int] : Sums(f, s, n)}
<1>1. SUFFICES ASSUME T # {} PROVE FALSE
  BY <1>0
<1>2. PICK m \in T : \A k \in T : m <= k
  <2>1. T \in SUBSET Nat
    OBVIOUS
  <2> HIDE DEF T
  <2> QED BY <1>1, <2>1, LeastNumber
<1>3. m # 0
  <2>1. [k \in 0..0 |-> 0] \in [0..0 -> Int] /\ Sums([k \in 0..0 |-> 0], s, 0)
    BY DEF Sums
  <2> QED BY <2>1
<1>4. PICK f \in [0..m - 1 -> Int] : Sums(f, s, m - 1)
  <2>1. m - 1 \in 0..Len(s) /\ m - 1 \notin T
    BY <1>2, <1>3
  <2> QED BY <2>1
<1>5. \E g \in [0..m -> Int] : Sums(g, s, m)
  <2>1. m \in 1..Len(s) /\ s[m] \in Int
    BY <1>2, <1>3
  <2>2. m - 1 \in Int /\ f[0] = 0 /\ \A k \in 1..m - 1 : f[k] = f[k - 1] + s[k]
    BY <1>4, <2>1 DEF Sums
  <2> DEFINE g == [k \in 0..m |-> IF k = m THEN f[m - 1] + s[m] ELSE f[k]]
  <2>3. g \in [0..m -> Int] /\ g[0] = 0
    BY <1>3, <2>1, <2>2
  <2>4. \A k \in 1..m : g[k] = g[k - 1] + s[k]
    BY <1>3, <2>1, <2>2
  <2> QED BY <2>3, <2>4 DEF Sums
<1> QED BY <1>2, <1>5

\* Partial sums of the same numbers are the same.
LEMMA SumsUnique ==
  ASSUME NEW n \in Nat, NEW s \in Seq(Int), NEW t \in Seq(Int), NEW f, NEW g, Sums(f, s, n), Sums(g, t, n),
         \A k \in 1..n : s[k] = t[k]
  PROVE  f[n] = g[n]
<1> DEFINE T == {k \in 0..n : f[k] # g[k]}
<1>1. SUFFICES ASSUME T # {} PROVE FALSE
  OBVIOUS
<1>2. PICK k \in T : \A j \in T : k <= j
  <2>1. T \in SUBSET Nat
    OBVIOUS
  <2> HIDE DEF T
  <2> QED BY <1>1, <2>1, LeastNumber
<1>3. k # 0
  BY <1>2 DEF Sums
<1>4. k - 1 \in 0..n /\ k - 1 \notin T /\ k \in 1..n
  BY <1>2, <1>3
<1>5. f[k] = f[k - 1] + s[k] /\ g[k] = g[k - 1] + t[k]
  BY <1>4 DEF Sums
<1> QED BY <1>2, <1>4, <1>5

\* Total computes the last partial sum.
LEMMA TotalIsSum ==
  ASSUME NEW s \in Seq(Int)
  PROVE  Total(s) \in Int /\ \E f : Sums(f, s, Len(s)) /\ Total(s) = f[Len(s)]
<1> DEFINE D(f) == f = [n \in 0..Len(s) |-> IF n = 0 THEN 0 ELSE f[n - 1] + s[n]]
           sum == CHOOSE f : D(f)
<1>1. PICK f \in [0..Len(s) -> Int] : Sums(f, s, Len(s))
  BY SumsExist
<1>2. D(f)
  BY <1>1 DEF Sums
<1>3. D(sum)
  <2> HIDE DEF D
  <2> QED BY <1>2
<1>4. Total(s) = sum[Len(s)]
  BY DEF Total
<1> HIDE DEF sum
<1>5. Len(s) \in Nat /\ Sums(sum, s, Len(s))
  BY <1>3 DEF Sums
<1>6. sum[Len(s)] = f[Len(s)]
  BY <1>1, <1>5, SumsUnique
<1> QED BY <1>1, <1>4, <1>6

\* An empty ledger adds nothing.
LEMMA TotalEmpty == Total(<< >>) = 0
<1>1. << >> \in Seq(Int) /\ Len(<< >>) = 0
  OBVIOUS
<1> QED BY <1>1, TotalIsSum DEF Sums

\* What an entry adds to a total.
LEMMA TotalAppend ==
  ASSUME NEW s \in Seq(Int), NEW x \in Int
  PROVE  Total(s) \in Int /\ Total(Append(s, x)) = Total(s) + x
<1>1. /\ Append(s, x) \in Seq(Int) /\ Len(s) \in Nat
      /\ Len(Append(s, x)) = Len(s) + 1 /\ Append(s, x)[Len(s) + 1] = x
      /\ \A k \in 1..Len(s) : s[k] = Append(s, x)[k]
  OBVIOUS
<1> SUFFICES ASSUME NEW t \in Seq(Int), NEW n \in Nat, Len(s) = n, Len(t) = n + 1, t[n + 1] = x,
                    \A k \in 1..n : s[k] = t[k]
             PROVE  Total(s) \in Int /\ Total(t) = Total(s) + x
  BY <1>1
<1>2. PICK f : Sums(f, s, n) /\ Total(s) = f[n]
  BY TotalIsSum
<1>3. PICK g : Sums(g, t, n + 1) /\ Total(t) = g[n + 1]
  BY TotalIsSum
<1>4. f[n] = g[n]
  <2>1. Sums(g, t, n)
    BY <1>3 DEF Sums
  <2> QED BY <1>2, <2>1, SumsUnique
<1>5. g[n + 1] = g[n] + x
  <2>1. n + 1 \in 1..n + 1 /\ (n + 1) - 1 = n
    OBVIOUS
  <2> QED BY <1>3, <2>1 DEF Sums
<1> QED BY <1>2, <1>3, <1>4, <1>5, TotalIsSum

\* A longer sequence of numbers, place by place.
LEMMA AppendNumber ==
  ASSUME NEW n \in Nat, NEW s \in [1..n -> Int], NEW x \in Int
  PROVE  s \in Seq(Int) /\ Append(s, x) = [i \in 1..n + 1 |-> IF i = n + 1 THEN x ELSE s[i]]
<1>1. s \in Seq(Int) /\ Len(s) = n
  OBVIOUS
<1>2. /\ Append(s, x) \in Seq(Int) /\ Len(Append(s, x)) = n + 1
      /\ Append(s, x)[n + 1] = x /\ \A i \in 1..n : Append(s, x)[i] = s[i]
  BY <1>1
<1> SUFFICES ASSUME NEW t \in Seq(Int), Len(t) = n + 1, t[n + 1] = x, \A i \in 1..n : t[i] = s[i]
             PROVE  t = [i \in 1..n + 1 |-> IF i = n + 1 THEN x ELSE s[i]]
  BY <1>1, <1>2
<1>3. t = [i \in 1..n + 1 |-> t[i]]
  OBVIOUS
<1>4. ASSUME NEW i \in 1..n + 1 PROVE t[i] = IF i = n + 1 THEN x ELSE s[i]
  <2>1. i # n + 1 => i \in 1..n
    OBVIOUS
  <2> QED BY <2>1
<1> QED BY <1>3, <1>4

\* What an entry adds to what is summed.
LEMMA MovedAppend ==
  ASSUME NEW L \in Seq(EntryRecord), NEW e \in EntryRecord
  PROVE  /\ Moved(L) \in Seq(Int) /\ Moved(Append(L, e)) = Append(Moved(L), Signed(e))
         /\ Pending(L) \in Seq(Int) /\ Pending(Append(L, e)) = Append(Pending(L), Held(e))
         /\ Signed(e) \in Int /\ Held(e) \in Int
<1>0. ASSUME NEW d \in EntryRecord PROVE Signed(d) \in Int /\ Held(d) \in Int
  <2>1. d.amount \in Amounts
    BY DEF EntryRecord
  <2>2. \A a \in Amounts : a \in Int
    BY WalletConstants
  <2>3. d.amount \in Int
    BY <2>1, <2>2, Zenon
  <2> QED BY <2>3 DEF Signed, Held
<1>1. /\ Len(L) \in Nat /\ DOMAIN L = 1..Len(L) /\ \A i \in 1..Len(L) : L[i] \in EntryRecord
      /\ DOMAIN Append(L, e) = 1..Len(L) + 1 /\ Append(L, e)[Len(L) + 1] = e
      /\ \A i \in 1..Len(L) : Append(L, e)[i] = L[i]
  OBVIOUS
<1> SUFFICES ASSUME NEW n \in Nat, NEW M,
                    DOMAIN L = 1..n, \A i \in 1..n : L[i] \in EntryRecord,
                    DOMAIN M = 1..n + 1, M[n + 1] = e, \A i \in 1..n : M[i] = L[i]
             PROVE  /\ Moved(L) \in Seq(Int) /\ Moved(M) = Append(Moved(L), Signed(e))
                    /\ Pending(L) \in Seq(Int) /\ Pending(M) = Append(Pending(L), Held(e))
  BY <1>0, <1>1
<1>2. \A i \in 1..n : Signed(L[i]) \in Int /\ Held(L[i]) \in Int
  BY <1>0
<1>3. /\ Moved(L) \in [1..n -> Int] /\ Pending(L) \in [1..n -> Int]
      /\ \A i \in 1..n : Moved(L)[i] = Signed(L[i]) /\ Pending(L)[i] = Held(L[i])
  BY <1>2 DEF Moved, Pending
<1>4. /\ Moved(M) = [i \in 1..n + 1 |-> Signed(M[i])]
      /\ Pending(M) = [i \in 1..n + 1 |-> Held(M[i])]
  BY DEF Moved, Pending
<1>5. \A i \in 1..n + 1 : /\ Signed(M[i]) = IF i = n + 1 THEN Signed(e) ELSE Moved(L)[i]
                          /\ Held(M[i]) = IF i = n + 1 THEN Held(e) ELSE Pending(L)[i]
  <2>1. ASSUME NEW i \in 1..n + 1, i # n + 1 PROVE i \in 1..n
    BY <2>1
  <2> QED BY <1>3, <2>1
<1>6. /\ Moved(M) = [i \in 1..n + 1 |-> IF i = n + 1 THEN Signed(e) ELSE Moved(L)[i]]
      /\ Pending(M) = [i \in 1..n + 1 |-> IF i = n + 1 THEN Held(e) ELSE Pending(L)[i]]
  BY <1>4, <1>5
<1>7. Signed(e) \in Int /\ Held(e) \in Int
  BY <1>0
<1>8. Moved(L) \in Seq(Int) /\ Pending(L) \in Seq(Int)
  BY <1>3
<1>9. Moved(M) = Append(Moved(L), Signed(e))
  BY <1>3, <1>6, <1>7, AppendNumber
<1>10. Pending(M) = Append(Pending(L), Held(e))
  BY <1>3, <1>6, <1>7, AppendNumber
<1> QED BY <1>8, <1>9, <1>10

\* The last entry of a ledger is a record.
LEMMA LastEntry ==
  ASSUME TypeOK, TypeOK', NEW u \in Users, NEW e,
         ledger' = [ledger EXCEPT ![u] = Append(ledger[u], e)]
  PROVE  e \in EntryRecord
<1>1. ledger'[u] \in Seq(EntryRecord)
  BY DEF TypeOK
<1> DEFINE m == Len(ledger[u])
<1>2. m \in Nat /\ DOMAIN ledger'[u] = 1..(m + 1) /\ ledger'[u][m + 1] = e
  BY AppendEntry
<1> HIDE DEF m
<1>3. m + 1 \in DOMAIN ledger'[u]
  BY <1>2
<1> QED BY <1>1, <1>2, <1>3

\* An entry that moves its amount in the wallet it is posted to keeps the books.
LEMMA BooksPost ==
  ASSUME TypeOK, BooksBalance, NEW u \in Users, NEW e \in EntryRecord,
         ledger' = [ledger EXCEPT ![u] = Append(ledger[u], e)],
         wallet'[u].available = wallet[u].available + Signed(e),
         wallet'[u].locked = wallet[u].locked + Held(e),
         \A v \in Users \ {u} : /\ wallet'[v].available = wallet[v].available
                                /\ wallet'[v].locked = wallet[v].locked
  PROVE  BooksBalance'
<1>1. ASSUME NEW v \in Users
      PROVE  /\ wallet[v].available = Opening + Total(Moved(ledger[v]))
             /\ wallet[v].locked = Total(Pending(ledger[v]))
  BY DEF BooksBalance
<1>2. ASSUME NEW v \in Users, v # u
      PROVE  /\ wallet'[v].available = Opening + Total(Moved(ledger'[v]))
             /\ wallet'[v].locked = Total(Pending(ledger'[v]))
  <2>1. ledger'[v] = ledger[v]
    BY <1>2, AppendEntry
  <2> QED BY <1>1, <1>2, <2>1
<1>3. ledger[u] \in Seq(EntryRecord) /\ ledger'[u] = Append(ledger[u], e)
  BY DEF TypeOK
<1>4. /\ Total(Moved(ledger[u])) \in Int
      /\ Total(Moved(ledger'[u])) = Total(Moved(ledger[u])) + Signed(e)
      /\ Total(Pending(ledger[u])) \in Int
      /\ Total(Pending(ledger'[u])) = Total(Pending(ledger[u])) + Held(e)
  <2>1. /\ Moved(ledger[u]) \in Seq(Int) /\ Signed(e) \in Int
        /\ Moved(ledger'[u]) = Append(Moved(ledger[u]), Signed(e))
    BY <1>3, MovedAppend
  <2>2. /\ Pending(ledger[u]) \in Seq(Int) /\ Held(e) \in Int
        /\ Pending(ledger'[u]) = Append(Pending(ledger[u]), Held(e))
    BY <1>3, MovedAppend
  <2>3. /\ Total(Moved(ledger[u])) \in Int
        /\ Total(Moved(ledger'[u])) = Total(Moved(ledger[u])) + Signed(e)
    BY <2>1, TotalAppend
  <2>4. /\ Total(Pending(ledger[u])) \in Int
        /\ Total(Pending(ledger'[u])) = Total(Pending(ledger[u])) + Held(e)
    BY <2>2, TotalAppend
  <2> QED BY <2>3, <2>4
<1>5. /\ wallet'[u].available = Opening + Total(Moved(ledger'[u]))
      /\ wallet'[u].locked = Total(Pending(ledger'[u]))
  <2>1. Signed(e) \in Int /\ Held(e) \in Int /\ Opening \in Int
    BY <1>3, MovedAppend, WalletConstants
  <2> QED BY <1>1, <1>4, <2>1
<1> QED BY <1>2, <1>5 DEF BooksBalance

LEMMA BooksStep ==
  ASSUME TypeOK, BooksBalance, Ledger!Next, TypeOK'
  PROVE  BooksBalance'
<1>1. \A v \in Users : wallet[v] \in RowVersion
  BY DEF TypeOK
<1>2. ASSUME NEW u \in Users, NEW k \in Keys, NEW id \in TxIds, NEW a \in 1..MaxBalance,
             Ledger!Deposit(u, k, id, a)
      PROVE  BooksBalance'
  <2> DEFINE e == [id |-> id, type |-> "DEPOSIT", status |-> "COMPLETED", amount |-> a,
                   before |-> wallet[u].available, after |-> wallet[u].available + a, ref |-> k]
  <2>1. /\ ledger' = [ledger EXCEPT ![u] = Append(ledger[u], e)]
        /\ wallet' = [wallet EXCEPT ![u] = [wallet[u] EXCEPT !.available = wallet[u].available + a]]
    BY <1>2 DEF Ledger!Deposit
  <2>2. Signed(e) = a /\ Held(e) = 0
    BY DEF Signed, Held
  <2>3. /\ wallet'[u].available = wallet[u].available + a
        /\ wallet'[u].locked = wallet[u].locked + 0
        /\ \A v \in Users \ {u} : /\ wallet'[v].available = wallet[v].available
                                  /\ wallet'[v].locked = wallet[v].locked
    BY <1>1, <2>1 DEF TypeOK, RowVersion
  <2> HIDE DEF e
  <2>4. e \in EntryRecord
    BY <2>1, LastEntry
  <2> QED BY <2>1, <2>2, <2>3, <2>4, BooksPost
<1>3. ASSUME NEW u \in Users, NEW k \in Keys, NEW id \in TxIds, NEW a \in 1..MaxBalance,
             Ledger!Withdraw(u, k, id, a)
      PROVE  BooksBalance'
  <2> DEFINE e == [id |-> id, type |-> "WITHDRAWAL", status |-> "PENDING", amount |-> a,
                   before |-> wallet[u].available, after |-> wallet[u].available - a, ref |-> k]
  <2>1. /\ ledger' = [ledger EXCEPT ![u] = Append(ledger[u], e)]
        /\ wallet' = [wallet EXCEPT ![u] = [wallet[u] EXCEPT !.available = wallet[u].available - a,
                                                             !.locked = wallet[u].locked + a]]
    BY <1>1, <1>3 DEF Ledger!Withdraw, TypeOK
  <2>2. Signed(e) = - a /\ Held(e) = a
    BY DEF Signed, Held
  <2>3. /\ wallet'[u].available = wallet[u].available + (- a)
        /\ wallet'[u].locked = wallet[u].locked + a
        /\ \A v \in Users \ {u} : /\ wallet'[v].available = wallet[v].available
                                  /\ wallet'[v].locked = wallet[v].locked
    BY <1>1, <2>1 DEF TypeOK, RowVersion
  <2> HIDE DEF e
  <2>4. e \in EntryRecord
    BY <2>1, LastEntry
  <2> QED BY <2>1, <2>2, <2>3, <2>4, BooksPost
<1>4. ASSUME NEW u \in Users, NEW s \in Ledger!Statuses, Ledger!SetStatus(u, s)
      PROVE  BooksBalance'
  <2>1. /\ ledger' = ledger
        /\ \A v \in Users : wallet'[v].available = wallet[v].available /\ wallet'[v].locked = wallet[v].locked
    BY <1>1, <1>4 DEF Ledger!SetStatus, TypeOK, RowVersion
  <2> QED BY <2>1 DEF BooksBalance
<1> QED BY <1>2, <1>3, <1>4 DEF Ledger!Next

\* The books balance: after any run of deposits, withdrawals, failures and
\* retries a wallet holds what it was opened with and the sum of its entries,
\* and locks the sum of its pending withdrawals.
THEOREM BooksKept == Spec => []BooksBalance
<1>1. Init => BooksBalance
  <2> SUFFICES ASSUME Init PROVE BooksBalance
    OBVIOUS
  <2>1. ASSUME NEW u \in Users
        PROVE  /\ wallet[u].available = Opening /\ wallet[u].locked = 0
               /\ ledger[u] = << >>
    BY DEF Init, Ledger!Init
  <2>2. Moved(<< >>) = << >> /\ Pending(<< >>) = << >>
    BY DEF Moved, Pending
  <2>3. Opening + 0 = Opening
    BY WalletConstants
  <2> QED BY <2>1, <2>2, <2>3, TotalEmpty DEF BooksBalance
<1>2. TypeOK /\ IInv /\ BooksBalance /\ [Next]_vars /\ TypeOK' => BooksBalance'
  <2> SUFFICES ASSUME TypeOK, IInv, BooksBalance, [Next]_vars, TypeOK' PROVE BooksBalance'
    OBVIOUS
  <2>1. CASE UNCHANGED tables
    BY <2>1 DEF tables, BooksBalance
  <2> QED BY <2>1, StepIsLedgerStep, BooksStep
<1> QED BY <1>1, <1>2, Invariance, PTL DEF Spec
-----------------------------------------------------------------------------
(* Deadlock: key locks are taken before row locks, by different requests too. *)

\* Steps that end the transaction of r release what it held.
LEMMA ReleaseLocks ==
  ASSUME TypeOK, LockInv, NEW r \in Requests, EndTransaction(r),
         \A q \in Requests \ {r} : pc'[q] = pc[q]
  PROVE  LockInv'
BY DEF TypeOK, LockInv, EndTransaction, Unlocked

\* A step that takes no lock, of a request that keeps what it held.
LEMMA KeepLocks ==
  ASSUME TypeOK, LockInv, NEW r \in Requests, UNCHANGED locks,
         \A q \in Requests \ {r} : pc'[q] = pc[q],
         pc[r] \in RowHeld => pc'[r] \in RowHeld,
         pc[r] \in KeyHeld => pc'[r] \in KeyHeld
  PROVE  LockInv'
BY DEF TypeOK, LockInv, locks

LEMMA LockStep ==
  ASSUME TypeOK, LockInv, IInv, [Next]_vars
  PROVE  LockInv'
<1>1. CASE UNCHANGED vars
  BY <1>1 DEF vars, locks, LockInv
<1>2. ASSUME NEW u \in Users, NEW s \in Statuses, SetStatus(u, s) PROVE LockInv'
  BY <1>2 DEF SetStatus, locks, LockInv
<1>3. ASSUME NEW r \in Requests, NEW verdict, Rollback(r, verdict) PROVE LockInv'
  BY <1>3, ReleaseLocks DEF TypeOK, Rollback, Goto
<1>4. ASSUME NEW r \in Requests, NEW id, ReturnFound(r, id) PROVE LockInv'
  BY <1>4, ReleaseLocks DEF TypeOK, ReturnFound, Goto
<1>5. ASSUME NEW r \in Requests, Commit(r) PROVE LockInv'
  BY <1>5, ReleaseLocks DEF TypeOK, Commit, Goto
<1>6. ASSUME NEW r \in Requests, Send(r) \/ Reply(r) \/ LoseAnswer(r) PROVE LockInv'
  BY <1>6, KeepLocks DEF TypeOK, Send, Reply, LoseAnswer, Goto, RowHeld, KeyHeld
<1>7. ASSUME NEW r \in Requests, pc[r] = "lock", NEW row, NEW label \in RowHeld, LockRow(r, row, label)
      PROVE  LockInv'
  BY <1>7 DEF TypeOK, LockInv, LockRow, Goto, KeyHeld
<1>8. ASSUME NEW r \in Requests, pc[r] = "update", NEW row, UpdateRow(r, row, "record")
      PROVE  LockInv'
  <2>1. CASE ~ Rollback(r, "error")
    <3>1. /\ rowLock' = [rowLock EXCEPT ![User(r)] = r] /\ keyLock' = keyLock
          /\ pc' = [pc EXCEPT ![r] = "record"]
      BY <1>8, <2>1 DEF UpdateRow, Goto
    <3> QED BY <1>8, <3>1 DEF TypeOK, LockInv, KeyHeld, RowHeld
  <2> QED BY <2>1, <1>3
<1>9. ASSUME NEW r \in Requests, DepositStep(r) PROVE LockInv'
  <2>1. CASE DepositFindKey(r)
    <3>1. CASE Goto(r, "lock") /\ UNCHANGED locks
      BY <2>1, <3>1, KeepLocks DEF TypeOK, DepositFindKey, Goto, RowHeld, KeyHeld
    <3> QED BY <2>1, <3>1, <1>3, <1>4 DEF DepositFindKey
  <2>2. CASE DepositLock(r)
    BY <2>2, <1>3, <1>7 DEF DepositLock, RowHeld
  <2>3. CASE DepositUpdate(r)
    BY <2>3, <1>8 DEF DepositUpdate
  <2>4. CASE DepositRecord(r)
    BY <2>4, KeepLocks DEF TypeOK, DepositRecord, Write, Goto, RowHeld, KeyHeld
  <2> QED BY <1>9, <2>1, <2>2, <2>3, <2>4 DEF DepositStep
<1>10. ASSUME NEW r \in Requests, WithdrawStep(r) PROVE LockInv'
  <2>1. CASE WithdrawFindKey(r)
    <3>1. CASE UNCHANGED locks /\ \E label : Goto(r, label)
      BY <2>1, <3>1, KeepLocks DEF TypeOK, WithdrawFindKey, Goto, RowHeld, KeyHeld
    <3> QED BY <2>1, <3>1, <1>3 DEF WithdrawFindKey
  <2>2. CASE WithdrawFindTransaction(r)
    BY <2>2, <1>3, <1>4 DEF WithdrawFindTransaction
  <2>3. CASE WithdrawInsertKey(r)
    <3>1. CASE ~ Rollback(r, "error")
      <4>1. /\ pc[r] = "insertKey" /\ pc' = [pc EXCEPT ![r] = "lock"]
            /\ keyLock' = [keyLock EXCEPT ![Slot(r)] = r] /\ rowLock' = rowLock
        BY <2>3, <3>1 DEF WithdrawInsertKey, Goto
      <4> QED BY <4>1 DEF TypeOK, LockInv, KeyHeld, RowHeld
    <3> QED BY <3>1, <1>3
  <2>4. CASE WithdrawLock(r)
    BY <2>4, <1>3, <1>7 DEF WithdrawLock, RowHeld
  <2>5. CASE WithdrawCheck(r)
    <3>1. CASE Goto(r, "update") /\ UNCHANGED locks
      BY <2>5, <3>1, KeepLocks DEF TypeOK, WithdrawCheck, Goto, RowHeld, KeyHeld
    <3> QED BY <2>5, <3>1, <1>3 DEF WithdrawCheck
  <2>6. CASE WithdrawUpdate(r)
    BY <2>6, <1>8 DEF WithdrawUpdate
  <2>7. CASE WithdrawRecord(r) \/ WithdrawFinishKey(r)
    BY <2>7, KeepLocks DEF TypeOK, WithdrawRecord, WithdrawFinishKey, Write, Goto, RowHeld, KeyHeld
  <2> QED BY <1>10, <2>1, <2>2, <2>3, <2>4, <2>5, <2>6, <2>7 DEF WithdrawStep
<1> QED BY <1>1, <1>2, <1>3, <1>5, <1>6, <1>9, <1>10 DEF Next, Serve, Fail, RejectInvalid

\* A request that waits for a row waits for one that no longer waits, and one that
\* waits for a key, for one that waits at most for a row.
LEMMA LocksOrdered ==
  ASSUME TypeOK, IInv, LockInv
  PROVE  NoLockCycle
<1> SUFFICES ASSUME NEW S \in SUBSET Requests, S # {},
                    \A r \in S : \E q \in S : WaitsFor(r, q)
             PROVE  FALSE
  BY DEF NoLockCycle
<1>1. \A r, q \in S : WaitsFor(r, q) =>
        \/ pc[r] = "lock" /\ pc[q] \in RowHeld
        \/ pc[r] = "insertKey" /\ pc[q] \in KeyHeld
  <2> SUFFICES ASSUME NEW r \in S, NEW q \in S, WaitsFor(r, q)
               PROVE  \/ pc[r] = "lock" /\ pc[q] \in RowHeld
                      \/ pc[r] = "insertKey" /\ pc[q] \in KeyHeld
    OBVIOUS
  <2>1. pc[r] \in InTransaction => User(r) \in Users /\ Slot(r) \in Slots
    BY SlotType DEF IInv, LocalInv, InTransaction
  <2>2. CASE pc[r] = "lock" /\ ~ RowFree(r) /\ q = rowLock[User(r)]
    BY <2>1, <2>2 DEF LockInv, RowFree, InTransaction
  <2>3. CASE pc[r] = "insertKey" /\ ~ KeyFree(r) /\ q = keyLock[Slot(r)]
    BY <2>1, <2>3 DEF TypeOK, LockInv, KeyFree, InTransaction, Slots
  <2> QED BY <2>2, <2>3 DEF WaitsFor
<1>2. \A r \in S : pc[r] \in {"lock", "insertKey"}
  BY <1>1
<1>3. \A r \in S : pc[r] # "lock"
  BY <1>1, <1>2 DEF RowHeld
<1> QED BY <1>1, <1>2, <1>3 DEF KeyHeld, RowHeld

\* Whatever requests run at once, no set of them waits for each other's locks.
THEOREM NoDeadlock == Spec => []NoLockCycle
<1>1. Init => LockInv
  BY DEF Init, LockInv, Operations
<1>2. TypeOK /\ IInv /\ LockInv /\ [Next]_vars => LockInv'
  BY LockStep
<1>3. TypeOK /\ IInv /\ LockInv => NoLockCycle
  BY LocksOrdered
<1> QED BY <1>1, <1>2, <1>3, Invariance, PTL DEF Spec
-----------------------------------------------------------------------------
(* Answers: what a client is told, and keeps being told, of its request.      *)

\* A step of r that leaves the tables, every other request and the arguments of
\* r alone.
Calm(r) ==
  /\ UNCHANGED tables
  /\ \A q \in Requests \ {r} : /\ pc'[q] = pc[q] /\ req'[q] = req[q] /\ snap'[q] = snap[q]
                               /\ outcome'[q] = outcome[q] /\ answer'[q] = answer[q]
  /\ pc[r] # "idle" => req'[r] = req[r] /\ pc'[r] # "idle"

\* Ids of posted entries name requests.
LEMMA Authors ==
  ASSUME TypeOK, NEW u \in Users, NEW i \in DOMAIN ledger[u]
  PROVE  /\ ledger[u][i] \in EntryRecord /\ ledger[u][i].id \in TxIds
<1>1. ledger[u] \in Seq(EntryRecord)
  BY DEF TypeOK
<1>2. ledger[u][i] \in EntryRecord
  BY <1>1
<1>3. ledger[u][i].id \in TxIds
  BY <1>2 DEF EntryRecord
<1> QED BY <1>2, <1>3 DEF TxIds

LEMMA CalmInv ==
  ASSUME TypeOK, HistoryInv, NEW r \in Requests, Calm(r), AnswerInv(r)'
  PROVE  HistoryInv'
<1>1. UNCHANGED keyRow /\ UNCHANGED ledger
  BY DEF Calm, tables
<1>2. ASSUME NEW u \in Users, NEW i \in DOMAIN ledger[u]
      PROVE  AskedFor(ledger[u][i], u)'
  <2> DEFINE q == ledger[u][i].id
  <2>1. AskedFor(ledger[u][i], u)
    BY DEF HistoryInv
  <2>2. q \in Requests /\ req'[q] = req[q] /\ pc[q] # "idle" /\ pc'[q] # "idle"
    BY <2>1 DEF Calm, AskedFor
  <2> QED BY <1>1, <2>1, <2>2 DEF AskedFor, Valid
<1>3. ASSUME NEW q \in Requests, q # r
      PROVE  AnswerInv(q)'
  <2>1. AnswerInv(q)
    BY DEF HistoryInv
  <2>2. /\ pc'[q] = pc[q] /\ req'[q] = req[q] /\ snap'[q] = snap[q]
        /\ outcome'[q] = outcome[q] /\ answer'[q] = answer[q]
    BY <1>3 DEF Calm
  <2> QED BY <1>1, <2>1, <2>2 DEF AnswerInv, Posted, Slot, User
<1> QED BY <1>1, <1>2, <1>3 DEF HistoryInv

\* Before its last statement a request has answered nothing.
LEMMA StatementInv ==
  ASSUME TypeOK, HistoryInv, NEW r \in Requests, Calm(r),
         outcome'[r] = "none", pc'[r] \notin {"findTx", "reply"}
  PROVE  HistoryInv'
BY CalmInv DEF AnswerInv

LEMMA Unanswered ==
  ASSUME HistoryInv, NEW r \in Requests, pc[r] # "done"
  PROVE  outcome[r] = "none"
BY DEF HistoryInv, AnswerInv

LEMMA RollbackHistory ==
  ASSUME TypeOK, HistoryInv, NEW r \in Requests, pc[r] # "idle",
         NEW verdict \in {"rejected", "error"}, Rollback(r, verdict)
  PROVE  HistoryInv'
<1>1. Calm(r)
  BY DEF TypeOK, Calm, Rollback, EndTransaction, Goto, tables
<1>2. /\ pc'[r] = "done" /\ outcome'[r] = verdict /\ UNCHANGED <<ledger, req>>
  BY DEF TypeOK, Rollback, Goto, tables
<1>3. AnswerInv(r)'
  BY <1>2 DEF AnswerInv
<1> QED BY <1>1, <1>3, CalmInv

LEMMA ReturnHistory ==
  ASSUME TypeOK, HistoryInv, NEW r \in Requests, pc[r] \notin {"idle", "done"},
         NEW id, ReturnFound(r, id), Posted(r, id)
  PROVE  HistoryInv'
<1>1. Calm(r)
  BY DEF TypeOK, Calm, ReturnFound, EndTransaction, Goto, tables
<1>2. /\ pc'[r] = "reply" /\ outcome'[r] = "none" /\ answer'[r] = id /\ UNCHANGED <<ledger, req>>
  BY Unanswered DEF TypeOK, ReturnFound, Goto, tables
<1>3. AnswerInv(r)'
  BY <1>2 DEF AnswerInv, Posted, User
<1> QED BY <1>1, <1>3, CalmInv

\* A withdrawal whose key has no record has not been posted.
LEMMA KeyUnused ==
  ASSUME TypeOK, IInv, TablesInv, NEW r \in Requests,
         pc[r] # "idle", req[r].op = "WITHDRAW", ~ keyRow[Slot(r)].exists
  PROVE  Unposted(r)
<1>1. User(r) \in Users
  BY SlotType DEF IInv, LocalInv
<1> QED BY <1>1 DEF TablesInv, PostedUsesKey, Slot, User, Unposted

\* The record of a withdrawal's key names a transaction of its user and key.
LEMMA KeyResolved ==
  ASSUME TypeOK, IInv, TablesInv, NEW r \in Requests, pc[r] # "idle", Valid(r),
         req[r].op = "WITHDRAW", keyRow[Slot(r)].exists
  PROVE  /\ Posted(r, keyRow[Slot(r)].body) /\ keyRow[Slot(r)].body \in TxIds
<1>1. User(r) \in Users /\ req[r].key \in Keys
  BY SlotType DEF IInv, LocalInv, RequestInv, RequestForm, Valid
<1>2. PICK i \in DOMAIN ledger[User(r)] :
        ledger[User(r)][i].id = keyRow[Slot(r)].body /\ ledger[User(r)][i].ref = req[r].key
  BY <1>1 DEF TablesInv, KeyRecordsResolve, Slot, User
<1> QED BY <1>1, <1>2, Authors DEF Posted

LEMMA ClientHistory ==
  ASSUME TypeOK, HistoryInv, NEW r \in Requests, Send(r) \/ Reply(r) \/ LoseAnswer(r)
  PROVE  HistoryInv'
<1>1. Calm(r)
  BY DEF TypeOK, Calm, Send, Reply, LoseAnswer, Goto, tables, local
<1>2. CASE Send(r)
  <2>1. outcome'[r] = "none" /\ pc'[r] = "start"
    BY <1>2, Unanswered DEF TypeOK, Send, Goto
  <2> QED BY <1>1, <2>1, StatementInv
<1>3. CASE Reply(r)
  <2>1. /\ pc[r] = "reply" /\ pc'[r] = "done" /\ outcome'[r] = "ok"
        /\ UNCHANGED <<ledger, req, answer>>
    BY <1>3 DEF TypeOK, Reply, Goto, tables
  <2>2. Posted(r, answer[r])
    BY <2>1 DEF HistoryInv, AnswerInv
  <2> QED BY <1>1, <2>1, <2>2, CalmInv DEF AnswerInv, Posted, User
<1>4. CASE LoseAnswer(r)
  BY <1>1, <1>4, CalmInv DEF TypeOK, LoseAnswer, Goto, AnswerInv
<1> QED BY <1>2, <1>3, <1>4

LEMMA DepositHistory ==
  ASSUME TypeOK, IInv, HistoryInv, NEW r \in Requests, DepositStep(r)
  PROVE  HistoryInv'
<1>1. req[r].op = "DEPOSIT" /\ pc[r] \in {"start", "lock", "update", "record"}
  BY DEF DepositStep, DepositFindKey, DepositLock, DepositUpdate, DepositRecord
<1>2. CASE \E verdict \in {"rejected", "error"} : Rollback(r, verdict)
  BY <1>1, <1>2, RollbackHistory
<1>3. ASSUME NEW id, ReturnFound(r, id), DepositFindKey(r) PROVE FALSE
  <2>1. pc'[r] = "reply"
    BY <1>3 DEF TypeOK, ReturnFound, Goto
  <2>2. keyRow[Slot(r)].exists
    BY <1>3, <2>1 DEF TypeOK, DepositFindKey, Goto
  <2>3. RequestInv(r) /\ pc[r] = "start" /\ Valid(r)
    BY <1>3 DEF IInv, LocalInv, DepositFindKey
  <2>4. Slot(r) \in DOMAIN keyRow /\ Slot(r)[3] = "DEPOSIT"
    BY <1>1, <2>3 DEF TypeOK, RequestInv, RequestForm, Valid, Slot
  <2> QED BY <2>2, <2>4 DEF HistoryInv
<1>4. CASE /\ Goto(r, "lock") \/ Goto(r, "update") \/ Goto(r, "record") \/ Goto(r, "commit")
           /\ UNCHANGED <<tables, client, snap>>
  <2>1. Calm(r) /\ outcome'[r] = "none" /\ pc'[r] \notin {"findTx", "reply"}
    BY <1>1, <1>4, Unanswered DEF TypeOK, Calm, Goto, client
  <2> QED BY <2>1, StatementInv
<1> QED BY <1>2, <1>3, <1>4 DEF DepositStep, DepositFindKey, DepositLock, DepositUpdate,
        DepositRecord, LockRow, UpdateRow, Write, local

LEMMA WithdrawHistory ==
  ASSUME TypeOK, IInv, TablesInv, HistoryInv, NEW r \in Requests, WithdrawStep(r)
  PROVE  HistoryInv'
<1>1. /\ pc[r] \in {"start", "findTx", "insertKey", "lock", "check", "update", "record", "finishKey"}
      /\ req[r].op = "WITHDRAW" /\ Valid(r) /\ RequestInv(r)
  BY DEF IInv, LocalInv, RequestInv, InTransaction, WithdrawStep, WithdrawFindKey,
     WithdrawFindTransaction, WithdrawInsertKey, WithdrawLock, WithdrawCheck, WithdrawUpdate,
     WithdrawRecord, WithdrawFinishKey
<1>2. CASE WithdrawFindKey(r)
  <2>1. CASE keyRow[Slot(r)].exists
    <3>1. Posted(r, keyRow[Slot(r)].body) /\ keyRow[Slot(r)].body # Null
      BY <1>1, <2>1, KeyResolved, WalletConstants DEF TxIds
    <3> DEFINE s == [row |-> wallet[User(r)], key |-> keyRow[Slot(r)], posted |-> ledger[User(r)]]
    <3>2. /\ snap' = [snap EXCEPT ![r] = s] /\ Goto(r, "findTx")
          /\ UNCHANGED <<tables, locks, stale, before, writes, client>>
      BY <1>2, <2>1, <3>1 DEF WithdrawFindKey
    <3>3. Calm(r)
      BY <1>1, <3>2 DEF TypeOK, Calm, Goto, client
    <3>4. /\ pc'[r] = "findTx" /\ outcome'[r] = "none" /\ snap'[r] = s
          /\ UNCHANGED <<ledger, keyRow, req>>
      BY <1>1, <3>2, Unanswered DEF TypeOK, Goto, tables, client
    <3>5. \E i \in DOMAIN s.posted : s.posted[i].id = s.key.body
      BY <3>1 DEF Posted
    <3>6. s.key = keyRow[Slot(r)]
      OBVIOUS
    <3> HIDE DEF s
    <3>7. Slot(r)' = Slot(r)
      BY <3>4 DEF Slot
    <3>8. AnswerInv(r)'
      BY <2>1, <3>4, <3>5, <3>6, <3>7 DEF AnswerInv
    <3> QED BY <3>3, <3>8, CalmInv
  <2>2. CASE ~ keyRow[Slot(r)].exists
    <3>1. Goto(r, "insertKey") /\ UNCHANGED <<tables, client>>
          /\ \A q \in Requests \ {r} : snap'[q] = snap[q]
      BY <1>2, <2>2 DEF TypeOK, WithdrawFindKey
    <3>2. Calm(r) /\ outcome'[r] = "none" /\ pc'[r] = "insertKey"
      BY <1>1, <3>1, Unanswered DEF TypeOK, Calm, Goto, client
    <3> QED BY <3>2, StatementInv
  <2> QED BY <2>1, <2>2
<1>3. CASE WithdrawFindTransaction(r)
  <2>1. /\ pc[r] = "findTx" /\ snap[r].key = keyRow[Slot(r)] /\ keyRow[Slot(r)].exists
        /\ \E i \in DOMAIN snap[r].posted : snap[r].posted[i].id = snap[r].key.body
    BY <1>3 DEF WithdrawFindTransaction, HistoryInv, AnswerInv
  <2>2. Posted(r, snap[r].key.body)
    BY <1>1, <2>1, KeyResolved
  <2> QED BY <1>3, <2>1, <2>2, ReturnHistory DEF WithdrawFindTransaction
<1>4. CASE Rollback(r, "rejected")
  BY <1>1, <1>4, RollbackHistory
<1>5. CASE Rollback(r, "error")
  BY <1>1, <1>5, RollbackHistory
<1>6. CASE /\ \E label \in Labels \ {"idle", "findTx", "reply"} : Goto(r, label)
           /\ UNCHANGED <<tables, client, snap>>
  <2>1. Calm(r) /\ outcome'[r] = "none" /\ pc'[r] \notin {"findTx", "reply"}
    BY <1>1, <1>6, Unanswered DEF TypeOK, Calm, Goto, client
  <2> QED BY <2>1, StatementInv
<1>7. CASE WithdrawInsertKey(r)
  BY <1>5, <1>6, <1>7 DEF WithdrawInsertKey, Labels
<1>8. CASE WithdrawLock(r) \/ WithdrawCheck(r)
  BY <1>4, <1>5, <1>6, <1>8 DEF WithdrawLock, WithdrawCheck, LockRow, Labels, local
<1>9. CASE WithdrawUpdate(r) \/ WithdrawRecord(r) \/ WithdrawFinishKey(r)
  BY <1>5, <1>6, <1>9 DEF WithdrawUpdate, WithdrawRecord, WithdrawFinishKey, UpdateRow, Write, Labels
<1> QED BY <1>2, <1>3, <1>7, <1>8, <1>9 DEF WithdrawStep

LEMMA RejectHistory ==
  ASSUME TypeOK, IInv, HistoryInv, NEW r \in Requests, RejectInvalid(r)
  PROVE  HistoryInv'
BY RollbackHistory DEF RejectInvalid

\* A commit adds one entry, of its own request, and at most a record for a key
\* that had none.
LEMMA CommitHistory ==
  ASSUME TypeOK, IInv, HistoryInv, NEW r \in Requests, Commit(r)
  PROVE  HistoryInv'
<1> DEFINE u == User(r)
           e == writes[r].entry
           n == Len(ledger[User(r)])
<1>1. /\ pc[r] = "commit" /\ u \in Users /\ Slot(r) \in Slots
      /\ req[r].op \in Operations /\ req[r].key \in Keys /\ req[r].amount > 0
  BY CommitReady DEF Commit
<1>2. /\ e.id = r /\ e.ref = req[r].key
      /\ e.type = "WITHDRAWAL" <=> req[r].op = "WITHDRAW"
  <2>1. CASE req[r].op = "DEPOSIT"
    <3>1. e = Entry(r, "DEPOSIT", "COMPLETED")
      BY <1>1, <2>1, CommitReady
    <3> QED BY <2>1, <3>1 DEF Entry
  <2>2. CASE req[r].op = "WITHDRAW"
    <3>1. e = Entry(r, "WITHDRAWAL", "PENDING")
      BY <1>1, <2>2, CommitReady
    <3> QED BY <2>2, <3>1 DEF Entry
  <2> QED BY <1>1, <2>1, <2>2 DEF Operations
<1>3. /\ ledger' = [ledger EXCEPT ![u] = Append(ledger[u], e)]
      /\ UNCHANGED <<req, outcome>> /\ pc' = [pc EXCEPT ![r] = "reply"]
      /\ answer' = [answer EXCEPT ![r] = r] /\ snap' = [snap EXCEPT ![r] = Null]
  BY DEF Commit, EndTransaction, Goto
<1>4. /\ \A v \in Users \ {u} : ledger'[v] = ledger[v]
      /\ n \in Nat /\ \A i \in 1..n : ledger'[u][i] = ledger[u][i]
      /\ ledger'[u][n + 1] = e
      /\ DOMAIN ledger[u] = 1..n /\ DOMAIN ledger'[u] = 1..(n + 1)
  BY <1>1, <1>3, AppendEntry
<1> HIDE DEF u, e, n
<1>5. \A v \in Users : \A i \in DOMAIN ledger[v] \cup DOMAIN ledger'[v] :
         IF i \in DOMAIN ledger[v] THEN i \in DOMAIN ledger'[v] /\ ledger'[v][i] = ledger[v][i]
                                   ELSE v = u /\ ledger'[v][i] = e
  <2> SUFFICES ASSUME NEW v \in Users, NEW i \in DOMAIN ledger[v] \cup DOMAIN ledger'[v]
               PROVE  IF i \in DOMAIN ledger[v] THEN i \in DOMAIN ledger'[v] /\ ledger'[v][i] = ledger[v][i]
                                               ELSE v = u /\ ledger'[v][i] = e
    OBVIOUS
  <2>1. CASE v = u
    BY <1>4, <2>1
  <2>2. CASE v # u
    BY <1>4, <2>2
  <2> QED BY <2>1, <2>2
<1>6. /\ DOMAIN keyRow' = DOMAIN keyRow
      /\ \A slot \in DOMAIN keyRow : keyRow[slot].exists => keyRow'[slot] = keyRow[slot]
      /\ \A slot \in DOMAIN keyRow : slot[3] = "DEPOSIT" => keyRow'[slot] = keyRow[slot]
  <2>1. CASE req[r].op = "DEPOSIT"
    BY <1>1, <2>1, CommitReady DEF Commit
  <2>2. CASE req[r].op = "WITHDRAW"
    <3>1. ~ keyRow[Slot(r)].exists /\ Slot(r)[3] = "WITHDRAW"
      BY <1>1, <2>2, CommitReady DEF Slot
    <3> QED BY <3>1 DEF Commit, TypeOK
  <2> QED BY <1>1, <2>1, <2>2 DEF Operations
<1>7. \A slot \in DOMAIN keyRow' : slot[3] = "DEPOSIT" => ~ keyRow'[slot].exists
  BY <1>6 DEF HistoryInv
<1>8. ASSUME NEW v \in Users, NEW i \in DOMAIN ledger'[v]
      PROVE  AskedFor(ledger[v][i], v)'
  <2>1. \A f : AskedFor(f, v) => LET q == f.id IN
           /\ q \in Requests /\ pc'[q] # "idle" /\ req'[q].amount > 0 /\ req'[q].key # Null
           /\ req'[q].user = v /\ req'[q].key = f.ref
           /\ f.type = "WITHDRAWAL" <=> req'[q].op = "WITHDRAW"
    BY <1>3 DEF TypeOK, AskedFor, Valid
  <2>2. CASE i \in DOMAIN ledger[v]
    <3>1. AskedFor(ledger[v][i], v) /\ ledger'[v][i] = ledger[v][i]
      BY <1>5, <2>2 DEF HistoryInv
    <3> QED BY <2>1, <3>1 DEF AskedFor, Valid
  <2>3. CASE i \notin DOMAIN ledger[v]
    <3>1. v = u /\ ledger'[v][i] = e
      BY <1>5, <2>3
    <3>2. e.id = r /\ pc'[r] = "reply"
      BY <1>2, <1>3 DEF TypeOK
    <3> QED BY <1>1, <1>2, <1>3, <3>1, <3>2, WalletConstants DEF AskedFor, Valid, u, User
  <2> QED BY <2>2, <2>3
<1>9. ASSUME NEW q \in Requests
      PROVE  AnswerInv(q)'
  <2>1. AnswerInv(q) /\ RequestInv(q) /\ SnapInv(q)
    BY DEF HistoryInv, IInv, LocalInv
  <2>2. User(q)' = User(q) /\ Slot(q)' = Slot(q)
    BY <1>3 DEF User, Slot
  <2>3. \A id : pc[q] # "idle" /\ Posted(q, id) => Posted(q, id)'
    BY <1>3, <1>5, <2>1, <2>2, SlotType DEF Posted
  <2>4. CASE q = r
    <3>1. pc'[r] = "reply" /\ outcome'[r] = "none" /\ answer'[r] = r
      BY <1>1, <1>3, Unanswered DEF TypeOK
    <3>2. n + 1 \in DOMAIN ledger'[u] /\ ledger'[u][n + 1] = e
      BY <1>4
    <3>3. Posted(r, answer[r])'
      BY <1>2, <1>3, <3>1, <3>2 DEF Posted, User, u
    <3> QED BY <2>4, <3>1, <3>3 DEF AnswerInv
  <2>5. CASE q # r
    <3>1. /\ pc'[q] = pc[q] /\ outcome'[q] = outcome[q] /\ answer'[q] = answer[q]
          /\ snap'[q] = snap[q] /\ req'[q] = req[q]
      BY <1>3, <2>5 DEF TypeOK
    <3>2. pc[q] = "findTx" => keyRow'[Slot(q)] = keyRow[Slot(q)]
      BY <1>6, <2>1, SlotType DEF AnswerInv, InTransaction, TypeOK, Slots
    <3>4. pc'[q] = "reply" \/ outcome'[q] = "ok" => Posted(q, answer[q])'
      <4> SUFFICES ASSUME NEW id, id = answer[q], pc[q] = "reply" \/ outcome[q] = "ok"
                   PROVE  Posted(q, id)'
        BY <3>1 DEF Posted
      <4> QED BY <2>1, <2>3 DEF AnswerInv
    <3> QED BY <2>1, <2>2, <3>1, <3>2, <3>4 DEF AnswerInv
  <2> QED BY <2>4, <2>5
<1> QED BY <1>7, <1>8, <1>9 DEF HistoryInv

LEMMA HistoryStep ==
  ASSUME TypeOK, IInv, TablesInv, HistoryInv, [Next]_vars
  PROVE  HistoryInv'
<1>1. ASSUME UNCHANGED <<keyRow, ledger, pc, req, snap, outcome, answer>>
      PROVE  HistoryInv'
  BY <1>1 DEF HistoryInv, AskedFor, AnswerInv, Posted, Valid, User, Slot
<1>2. CASE UNCHANGED vars \/ \E u \in Users, s \in Statuses : SetStatus(u, s)
  BY <1>1, <1>2 DEF vars, tables, local, client, SetStatus
<1>3. ASSUME NEW r \in Requests, Send(r) \/ Serve(r) \/ Fail(r) \/ LoseAnswer(r)
      PROVE  HistoryInv'
  <2>1. CASE Fail(r)
    BY <2>1, RollbackHistory DEF Fail
  <2> QED BY <1>3, <2>1, ClientHistory, RejectHistory, DepositHistory, WithdrawHistory,
          CommitHistory DEF Serve
<1> QED BY <1>2, <1>3 DEF Next

\* What answers rest on: the ledger holds what was asked for, and what a request
\* has answered, or is about to answer, is on it.
THEOREM History == Spec => []HistoryInv
<1>1. Init => HistoryInv
  BY DEF Init, HistoryInv, AnswerInv, Ledger!Init, Ledger!NoKeyRow, Ledger!Operations
<1>2. TypeOK /\ IInv /\ TablesInv /\ HistoryInv /\ [Next]_vars => HistoryInv'
  BY HistoryStep
<1> QED BY <1>1, <1>2, Invariance, TablesConsistent, PTL DEF Spec

\* A client told "ok" was told of a transaction that is on the ledger under its
\* user and key, whichever attempt posted it.
THEOREM AnswersTrue == Spec => []AnswersArePosted
<1>1. HistoryInv => AnswersArePosted
  BY DEF HistoryInv, AnswerInv, AnswersArePosted, Posted
<1> QED BY <1>1, History, PTL

\* The statement that refuses a valid withdrawal finds its key without a record.
LEMMA RefusalStep ==
  ASSUME TypeOK, IInv, TablesInv, HistoryInv, [Next]_vars, NEW r \in Requests,
         outcome[r] = "none", outcome'[r] = "rejected", req[r].op = "WITHDRAW", Valid(r)
  PROVE  Unposted(r)
<1>1. PICK q \in Requests : Send(q) \/ Serve(q) \/ Fail(q) \/ LoseAnswer(q)
  BY DEF Next, vars, client, SetStatus
<1>2. ASSUME NEW verdict, Rollback(q, verdict)
      PROVE  q = r /\ verdict = "rejected"
  BY <1>2 DEF TypeOK, Rollback
<1>3. ~ UNCHANGED outcome
  BY DEF TypeOK
<1>4. q = r
  BY <1>1, <1>3 DEF TypeOK, Send, Serve, Fail, LoseAnswer, RejectInvalid, DepositStep,
     DepositFindKey, DepositLock, DepositUpdate, DepositRecord, WithdrawStep, WithdrawFindKey,
     WithdrawFindTransaction, WithdrawInsertKey, WithdrawLock, WithdrawCheck, WithdrawUpdate,
     WithdrawRecord, WithdrawFinishKey, Commit, Reply, Rollback, ReturnFound, LockRow, UpdateRow,
     Write, client
<1>5. WithdrawFindKey(r) \/ WithdrawFindTransaction(r) \/ WithdrawLock(r) \/ WithdrawCheck(r)
  BY <1>1, <1>2, <1>3, <1>4 DEF TypeOK, Send, Serve, Fail, LoseAnswer, RejectInvalid, DepositStep,
     DepositFindKey, DepositLock, DepositUpdate, DepositRecord, WithdrawStep,
     WithdrawInsertKey, WithdrawUpdate, WithdrawRecord, WithdrawFinishKey, Commit, Reply,
     Rollback, UpdateRow, Write, client
<1>6. RequestInv(r) /\ KeyInv(r) /\ AnswerInv(r)
  BY DEF IInv, LocalInv, HistoryInv
<1>7. CASE WithdrawFindKey(r)
  <2>1. keyRow[Slot(r)].exists /\ keyRow[Slot(r)].body = Null /\ pc[r] = "start"
    BY <1>3, <1>7 DEF WithdrawFindKey, client
  <2> QED BY <2>1, KeyResolved, WalletConstants DEF TxIds
<1>8. CASE WithdrawFindTransaction(r)
  <2>1. pc[r] = "findTx" /\ ~ UNCHANGED outcome
    BY <1>3, <1>8 DEF WithdrawFindTransaction
  <2>2. \E i \in DOMAIN snap[r].posted : snap[r].posted[i].id = snap[r].key.body
    BY <1>6, <2>1 DEF AnswerInv
  <2> QED BY <1>8, <2>1, <2>2 DEF WithdrawFindTransaction, ReturnFound
<1>9. CASE WithdrawLock(r) \/ WithdrawCheck(r)
  <2>1. pc[r] \in {"lock", "check"}
    BY <1>9 DEF WithdrawLock, WithdrawCheck
  <2>2. ~ keyRow[Slot(r)].exists
    BY <1>6, <2>1 DEF KeyInv, KeyHeld, RowHeld
  <2> QED BY <2>1, <2>2, KeyUnused
<1> QED BY <1>5, <1>7, <1>8, <1>9

\* Whatever a client is refused is not posted at that moment: no withdrawal of its
\* key is on the ledger when a valid withdrawal is answered with a refusal.
THEOREM RefusalsTrue == Spec => RefusalsAreTrue
<1>1. TypeOK /\ IInv /\ TablesInv /\ HistoryInv /\ [Next]_vars =>
        [\A r \in Requests :
           /\ outcome[r] = "none" /\ outcome'[r] = "rejected"
           /\ req[r].op = "WITHDRAW" /\ Valid(r)
           => Unposted(r)]_vars
  BY RefusalStep
<1> QED BY <1>1, Invariance, TablesConsistent, History, PTL DEF Spec, RefusalsAreTrue
=============================================================================
