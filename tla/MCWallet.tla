------------------------------ MODULE MCWallet ------------------------------
(* Finite instances of Wallet for TLC. *)
EXTENDS Wallet, TLC

\* Everything a client may ask for.
AllForms == RequestForm

\* Three requests at once: one withdrawal sent again or competing with others
\* under its key and under another one, and deposits.
CrowdForms == {form \in RequestForm :
  /\ form.currency = WalletCurrency /\ form.amount > 0
  /\ form.key = Null => form.op = "WITHDRAW" /\ form.amount = 1}

Symmetry == Permutations(Requests) \cup Permutations(Keys) \cup Permutations(Users)
=============================================================================
