----------------------------- MODULE Transactions -----------------------------
(***************************************************************************)
(* What a user sees of his wallet: a client reads the wallet and then page  *)
(* after page of its transactions, while deposits and withdrawals commit.   *)
(* One page is two queries in one READ COMMITTED transaction: each sees     *)
(* what was committed when it began.  Rows never change nor go; they commit *)
(* in the order in which they locked the wallet, which need not be that of  *)
(* createdAt, the time their transactions began.                            *)
(***************************************************************************)
EXTENDS Integers, FiniteSets, Sequences, SequencesExt

CONSTANTS Ids,      \* uuids of wallet_transactions, ordered as numbers
          PerPage,  \* the default of perPage
          MaxTime,  \* bound: the last value of the clock
          Null

\* What a module that instantiates this one assumes of the constants.
TransactionsConstants ==
  /\ Ids \subseteq Nat /\ IsFiniteSet(Ids)
  /\ PerPage \in Nat \ {0} /\ MaxTime \in Nat /\ Null \notin Nat

VARIABLES clock,
          createdAt, \* of each row, committed or not; Null before
          type,      \* TransactionType of each row
          posted,    \* the committed rows in the order of their commits
          query,     \* the parameters the client sends with every page
          page,      \* and the number of the page
          phase,     \* the query the client's request issues next
          balance,   \* the wallet the client read: its last row, Null for a new wallet
          answer,    \* ids findMany returned
          total,     \* what count returned
          got,       \* history: ids the client has seen
          base       \* history: ids committed when it read the first page

ledger == <<createdAt, type, posted>>
client == <<query, page, phase, balance, answer, total, got, base>>
vars   == <<clock, ledger, client>>

Types == {"DEPOSIT", "WITHDRAWAL"}
Statuses == {"COMPLETED", "PENDING"}

\* A deposit is COMPLETED from the start and a withdrawal stays PENDING.
StatusOf(i) == IF type[i] = "DEPOSIT" THEN "COMPLETED" ELSE "PENDING"

\* The parameters: one filter at a time.  Nothing validates or converts them: a
\* value may be none of its type, and perPage is a string if it is there at all.
NoFilter == [perPage |-> "absent", valid |-> TRUE, type |-> Null, status |-> Null, from |-> Null, to |-> Null]
Queries ==
  {NoFilter, [NoFilter EXCEPT !.perPage = "string"], [NoFilter EXCEPT !.valid = FALSE]}
    \cup {[NoFilter EXCEPT !.type = t] : t \in Types}
    \cup {[NoFilter EXCEPT !.status = s] : s \in Statuses}
    \cup {[NoFilter EXCEPT !.from = d] : d \in 0..MaxTime}
    \cup {[NoFilter EXCEPT !.to = d] : d \in 0..MaxTime}

Init ==
  /\ clock = 0
  /\ createdAt = [i \in Ids |-> Null] /\ type = [i \in Ids |-> Null] /\ posted = << >>
  /\ query \in Queries /\ page = 1
  /\ phase = "wallet" /\ balance = Null
  /\ answer = {} /\ total = 0 /\ got = {} /\ base = {}

Tick ==
  /\ clock < MaxTime
  /\ clock' = clock + 1
  /\ UNCHANGED <<ledger, client>>

\* The transaction of a deposit or withdrawal begins: createdAt is that time.
Create(i) ==
  /\ createdAt[i] = Null
  /\ createdAt' = [createdAt EXCEPT ![i] = clock]
  /\ \E t \in Types : type' = [type EXCEPT ![i] = t]
  /\ UNCHANGED <<clock, posted, client>>

\* Its COMMIT, possibly after that of a row created later.
CommitRow(i) ==
  /\ createdAt[i] # Null /\ i \notin Range(posted)
  /\ posted' = Append(posted, i)
  /\ UNCHANGED <<clock, createdAt, type, client>>

\* getMyWallet: the balance is the balanceAfter of the row that committed last.
\* A user without a wallet has no rows either, and reads the list all the same.
GetWallet ==
  /\ phase = "wallet"
  /\ balance' = IF posted = << >> THEN Null ELSE Last(posted)
  /\ phase' = "find"
  /\ UNCHANGED <<clock, ledger, query, page, answer, total, got, base>>

\* Prisma refuses an invalid date, a type or status there is not, and take as a
\* string.
Malformed == query.perPage # "absent" \/ ~ query.valid

RefuseQuery ==
  /\ phase = "find" /\ Malformed
  /\ phase' = "failed"
  /\ UNCHANGED <<clock, ledger, query, page, balance, answer, total, got, base>>

\* ORDER BY createdAt DESC, id DESC.
Before(i, j) ==
  \/ createdAt[i] > createdAt[j]
  \/ createdAt[i] = createdAt[j] /\ i > j

\* The WHERE clause.
Where(i) ==
  /\ query.type \in {Null, type[i]}
  /\ query.status \in {Null, StatusOf(i)}
  /\ query.from # Null => createdAt[i] >= query.from
  /\ query.to # Null   => createdAt[i] <= query.to

Matching == {i \in Range(posted) : Where(i)}

\* Rows in front of i.
Rank(i) == Cardinality({j \in Matching : Before(j, i)})

\* Mutant: pages count from 0.
SkipPages == page * PerPage

Skip == (page - 1) * PerPage

\* findMany: LIMIT and OFFSET.
FindMany ==
  /\ phase = "find" /\ ~ Malformed
  /\ answer' = {i \in Matching : Rank(i) >= Skip /\ Rank(i) < Skip + PerPage}
  /\ base' = IF page = 1 THEN Range(posted) ELSE base
  /\ phase' = "count"
  /\ UNCHANGED <<clock, ledger, query, page, balance, total, got>>

\* count, then the answer.
Count ==
  /\ phase = "count"
  /\ total' = Cardinality(Matching)
  /\ phase' = "answered"
  /\ got' = got \cup answer
  /\ UNCHANGED <<clock, ledger, query, page, balance, answer, base>>

\* Math.ceil(total / perPage).
TotalPages == (total + PerPage - 1) \div PerPage

\* The client asks for the next page until it has read the last one.
TurnPage ==
  /\ phase = "answered"
  /\ IF page < TotalPages THEN page' = page + 1 /\ phase' = "find"
                          ELSE phase' = "done" /\ UNCHANGED page
  /\ UNCHANGED <<clock, ledger, query, balance, answer, total, got, base>>

Next ==
  \/ Tick \/ GetWallet \/ RefuseQuery \/ FindMany \/ Count \/ TurnPage
  \/ \E i \in Ids : Create(i) \/ CommitRow(i)

Spec == Init /\ [][Next]_vars
-----------------------------------------------------------------------------
(* Properties. *)

\* Every variable has its type.
TypeOK ==
  /\ clock \in 0..MaxTime
  /\ createdAt \in [Ids -> (0..MaxTime) \cup {Null}] /\ type \in [Ids -> Types \cup {Null}]
  /\ posted \in Seq(Ids) /\ IsInjective(posted)
  /\ query \in Queries /\ page \in 1..Cardinality(Ids)
  /\ phase \in {"wallet", "find", "failed", "count", "answered", "done"}
  /\ balance \in Ids \cup {Null}
  /\ answer \subseteq Ids /\ got \subseteq Ids /\ base \subseteq Range(posted)
  /\ total \in 0..Cardinality(Ids)

\* A client that reads the list to its end has seen every transaction it asked
\* for that was there when it began, and none it did not ask for: rows that commit
\* meanwhile, in front of or between those it has read, repeat some on the next
\* page and hide none.  So the list without filters explains the balance the
\* client read before: the row that left it is among those seen.
NoneMissed == phase = "done" =>
  /\ {i \in base : Where(i)} \subseteq got /\ got \subseteq Matching
  /\ query = NoFilter => balance \in got \cup {Null}

\* "@IsInt() @Min(1) @Max(100) perPage" (list-transactions.query.dto.ts:21-25): a
\* query with a page length the DTO describes is answered.
PerPageServed == phase = "failed" => ~ query.valid

\* The ledger: rows are created before they commit, and what has been read of them
\* is committed and was asked for.
LedgerInv ==
  /\ clock \in Nat
  /\ createdAt \in [Ids -> Nat \cup {Null}] /\ type \in [Ids -> Types \cup {Null}]
  /\ posted \in Seq(Ids) /\ \A i \in Range(posted) : createdAt[i] # Null
  /\ got \subseteq Matching /\ answer \subseteq Matching /\ base \subseteq Range(posted)
  /\ page \in Nat \ {0} /\ total \in Nat

\* The row that left the balance is on the list the client began to read.
BalanceInv ==
  /\ balance \in Range(posted) \cup {Null}
  /\ phase = "wallet" => page = 1
  /\ phase \in {"count", "answered", "done"} \/ page > 1 => balance \in base \cup {Null}

\* Where the rows are that the client asked for and has not seen: behind the pages
\* it has read.  After the last page there are none.
Ahead(i) ==
  /\ phase = "find" => Rank(i) >= Skip
  /\ phase = "count" => Rank(i) >= Skip + PerPage \/ i \in answer
  /\ phase = "answered" => Rank(i) >= Skip + PerPage /\ total > Skip + PerPage
  /\ phase # "done"

AheadInv == \A i \in base : Where(i) => i \in got \/ Ahead(i)

\* What the proofs show inductive.
IInv == LedgerInv /\ BalanceInv /\ AheadInv
=============================================================================
