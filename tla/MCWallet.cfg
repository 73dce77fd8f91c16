\* Three requests for one wallet; one may be another sent again while it still runs.
CONSTANTS
  Users = {u1}
  Keys = {k1, k2}
  Requests = {r1, r2, r3}
  Currencies = {"USD", "BTC"}
  Amounts = {0, 1, 2}
  Forms <- CrowdForms
  MaxBalance = 4
  Opening = 2
  DbTypes = {"Currency", "WalletStatus"}
  Null = Null
SPECIFICATION Spec
SYMMETRY Symmetry
INVARIANTS
  TypeOK LedgerChain BooksBalance NoOverdraft WithdrawOnce KeyRecordsResolve
  AnswersArePosted NoLockCycle
PROPERTIES RefusalsAreTrue OnlyActiveWalletsMove ImplementsLedger
