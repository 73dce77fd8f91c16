----------------------------- MODULE MCAccounts -----------------------------
(* Finite instances of Accounts for TLC. *)
EXTENDS Accounts

\* Two of the four permissions.
SeedPermissions == <<"read:user", "create:user">>

\* The roles of role-permission.seed.ts:9-10.
CodeGrantRoles == <<"ADMIN", "USER">>
=============================================================================
