\* Liveness under fairness; no symmetry.
CONSTANTS
  Users = {u1}
  Keys = {k1}
  Requests = {r1, r2}
  Currencies = {"USD"}
  Amounts = {0, 1, 2}
  Forms <- AllForms
  MaxBalance = 3
  Opening = 2
  DbTypes = {"Currency", "WalletStatus"}
  Null = Null
SPECIFICATION FairSpec
PROPERTIES Served
