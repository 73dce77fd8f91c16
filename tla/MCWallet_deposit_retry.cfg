\* A deposit whose answer was lost is sent again with its idempotency key.
CONSTANTS
  Users = {u1}
  Keys = {k1}
  Requests = {r1, r2}
  Currencies = {"USD"}
  Amounts = {1}
  Forms <- AllForms
  MaxBalance = 4
  Opening = 2
  DbTypes = {"Currency", "WalletStatus"}
  Null = Null
SPECIFICATION Spec
INVARIANT DepositOnce
