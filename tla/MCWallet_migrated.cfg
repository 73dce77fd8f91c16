\* The enum types are those the migrations create.
CONSTANTS
  Users = {u1}
  Keys = {k1}
  Requests = {r1, r2}
  Currencies = {"USD"}
  Amounts = {1}
  Forms <- AllForms
  MaxBalance = 4
  Opening = 2
  DbTypes = {"currency", "transaction_status", "transaction_type", "wallet_status"}
  Null = Null
SPECIFICATION Spec
INVARIANT CastsResolve
