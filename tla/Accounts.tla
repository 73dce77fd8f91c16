------------------------------- MODULE Accounts -------------------------------
(***************************************************************************)
(* Roles, permissions and accounts of the user service: the seed script,    *)
(* statement by statement and started again after it failed, and the        *)
(* registrations and logins that run beside it, at the grain of their       *)
(* awaits.  Unique indexes on role names and emails are the database's.     *)
(* The model ends where seedAdmin would begin: no run of the script gets    *)
(* there, see SeedCompletes.                                                *)
(***************************************************************************)
EXTENDS Integers, Sequences, SequencesExt

CONSTANTS Requests,    \* registrations and logins, each handled once
          Emails, Passwords,
          Permissions, \* the names of permission.seed.ts, in order
          GrantRoles,  \* the roles of role-permission.seed.ts, in order
          Faults,      \* TRUE: the seed script may be interrupted anywhere
          Null

\* role.seed.ts, and the account types RegisterDto accepts.
SeedRoles == <<"RETAIL", "INSTITUTIONAL", "ADMIN">>
RoleType  == {"ADMIN", "RETAIL", "INSTITUTIONAL"}

VARIABLES roles, permissions, grants,  \* the tables of names and pairs
          users,    \* the users table by email: password and role, or Null
          seed,     \* the statement the seed script executes next
          form,     \* what each request asks for
          pc,       \* the query its handler issues next
          found     \* the account a login read

tables == <<roles, permissions, grants, users>>
web    == <<form, pc, found>>
vars   == <<tables, seed, web>>

Account == [password : Passwords, role : RoleType]

\* What a module that instantiates this one assumes of the constants.
AccountsConstants == Faults \in BOOLEAN /\ Null \notin Account

\* The bodies the ValidationPipe lets through; name and phone are not used.
RegisterDto == [email : Emails, password : Passwords, confirmPassword : Passwords, accountType : RoleType]
LoginDto    == [email : Emails, password : Passwords]
Form        == RegisterDto \cup LoginDto
Registers(f) == "accountType" \in DOMAIN f

Init ==
  /\ roles = {} /\ permissions = {} /\ grants = {}
  /\ users = [e \in Emails |-> Null]
  /\ seed = "idle"
  /\ form = [r \in Requests |-> Null]
  /\ pc = [r \in Requests |-> "idle"]
  /\ found = [r \in Requests |-> Null]
-----------------------------------------------------------------------------
(* prisma/seed.ts: main awaits one seed after the other. *)

SeedStart ==
  /\ seed = "idle"
  /\ seed' = "roles"
  /\ UNCHANGED <<tables, web>>

\* Element i of seq comes first of those not in done.
FirstMissing(i, seq, done) == seq[i] \notin done /\ \A j \in 1..i - 1 : seq[j] \in done

\* One upsert per role; those of an earlier run stay as they are.
SeedRole ==
  /\ seed = "roles"
  /\ \/ /\ Range(SeedRoles) \subseteq roles
        /\ seed' = "permissions" /\ UNCHANGED roles
     \/ \E i \in DOMAIN SeedRoles :
          /\ FirstMissing(i, SeedRoles, roles)
          /\ roles' = roles \cup {SeedRoles[i]} /\ UNCHANGED seed
  /\ UNCHANGED <<permissions, grants, users, web>>

SeedPermission ==
  /\ seed = "permissions"
  /\ \/ /\ Range(Permissions) \subseteq permissions
        /\ seed' = "grants" /\ UNCHANGED permissions
     \/ \E i \in DOMAIN Permissions :
          /\ FirstMissing(i, Permissions, permissions)
          /\ permissions' = permissions \cup {Permissions[i]} /\ UNCHANGED seed
  /\ UNCHANGED <<roles, grants, users, web>>

\* The pairs of seedRolePermissions: every permission for ADMIN, the first for
\* the other role.
PairsOf(role) == IF role = "ADMIN" THEN [i \in DOMAIN Permissions |-> <<role, Permissions[i]>>]
                                   ELSE <<(<<role, Permissions[1]>>)>>
Pairs == FoldLeft(LAMBDA s, role : s \o PairsOf(role), << >>, GrantRoles)

\* One upsert per pair; a role that roleMap does not have is an undefined id,
\* which Prisma refuses: main rejects and the process exits with 1.
SeedGrant ==
  /\ seed = "grants"
  /\ \/ /\ Range(Pairs) \subseteq grants
        /\ seed' = "admin" /\ UNCHANGED grants
     \/ \E i \in DOMAIN Pairs :
          /\ FirstMissing(i, Pairs, grants)
          /\ IF Pairs[i][1] \in Range(SeedRoles)
             THEN grants' = grants \cup {Pairs[i]} /\ UNCHANGED seed
             ELSE seed' = "idle" /\ UNCHANGED grants
  /\ UNCHANGED <<roles, permissions, users, web>>

\* A query of the script fails, or its process dies.
SeedFails ==
  /\ Faults /\ seed \notin {"idle", "admin"}
  /\ seed' = "idle"
  /\ UNCHANGED <<tables, web>>

Seeding == SeedRole \/ SeedPermission \/ SeedGrant
-----------------------------------------------------------------------------
(* auth.service.ts. *)

Goto(r, label) == pc' = [pc EXCEPT ![r] = label]

\* The controller takes the body, or the pipe refuses it.
Arrive(r) ==
  /\ pc[r] = "idle"
  /\ \/ \E f \in Form :
          form' = [form EXCEPT ![r] = f] /\ Goto(r, IF Registers(f) THEN "register" ELSE "login")
     \/ Goto(r, "badRequest") /\ UNCHANGED form
  /\ UNCHANGED <<tables, seed, found>>

\* findByEmail: the account, or Null.
FindByEmail(r) == users[form[r].email]

\* register: the password must be confirmed and the email free.
RegisterFind(r) ==
  /\ pc[r] = "register"
  /\ Goto(r, IF form[r].password # form[r].confirmPassword THEN "badRequest"
             ELSE IF FindByEmail(r) = Null THEN "create" ELSE "conflict")
  /\ UNCHANGED <<tables, seed, form, found>>

\* The new user: the hash of the password, and the role connected by its name.
NewUser(r) == [password |-> form[r].password, role |-> form[r].accountType]

CreateUser(r) == users' = [users EXCEPT ![form[r].email] = NewUser(r)]

\* Mutant: the account is written over (an upsert).
CreateOver(r) ==
  /\ pc[r] = "create"
  /\ CreateUser(r)
  /\ Goto(r, "registered")
  /\ UNCHANGED <<roles, permissions, grants, seed, form, found>>

\* register, the hash computed: create fails if the role is missing or the email
\* was registered meanwhile.
RegisterCreate(r) ==
  /\ pc[r] = "create"
  /\ IF FindByEmail(r) = Null /\ form[r].accountType \in roles
     THEN CreateUser(r) /\ Goto(r, "registered")
     ELSE Goto(r, "error") /\ UNCHANGED users
  /\ UNCHANGED <<roles, permissions, grants, seed, form, found>>

\* findLoginUserByEmail: the account with its role, in one query.
FindLoginUser(r) == found' = [found EXCEPT ![r] = users[form[r].email]]

LoginFind(r) ==
  /\ pc[r] = "login"
  /\ FindLoginUser(r)
  /\ Goto(r, IF found'[r] = Null THEN "conflict" ELSE "compare")
  /\ UNCHANGED <<tables, seed, form>>

\* bcrypt.compare with the hash that was read, then the tokens and the cookie.
LoginCompare(r) ==
  /\ pc[r] = "compare"
  /\ Goto(r, IF found[r].password = form[r].password THEN "ok" ELSE "unauthorized")
  /\ UNCHANGED <<tables, seed, form, found>>

\* What both tokens say: the email and role that were read before the compare.
Claims(r) == [email |-> form[r].email, role |-> found[r].role]

Next ==
  \/ SeedStart \/ Seeding \/ SeedFails
  \/ \E r \in Requests :
        Arrive(r) \/ RegisterFind(r) \/ RegisterCreate(r) \/ LoginFind(r) \/ LoginCompare(r)

Spec == Init /\ [][Next]_vars

\* The script is run again when it failed, and goes on.
FairSpec == Spec /\ WF_vars(SeedStart) /\ WF_vars(Seeding)
-----------------------------------------------------------------------------
(* Properties. *)

\* Every variable has its type.
TypeOK ==
  /\ roles \subseteq RoleType /\ permissions \subseteq Range(Permissions)
  /\ grants \subseteq RoleType \X Range(Permissions)
  /\ users \in [Emails -> Account \cup {Null}]
  /\ seed \in {"idle", "roles", "permissions", "grants", "admin"}
  /\ form \in [Requests -> Form \cup {Null}]
  /\ pc \in [Requests -> {"idle", "badRequest", "register", "create", "registered", "conflict",
                          "error", "login", "compare", "ok", "unauthorized"}]
  /\ found \in [Requests -> Account \cup {Null}]

\* What clients are told agrees with the accounts: of all registrations of one
\* email, however they interleave, at most one succeeds, its password and role stay,
\* and the role is one there is; a login lets in with the password of that very
\* account, and its tokens name the account's role.
OutcomesMatchAccounts ==
  /\ \A r, q \in Requests :
       pc[r] = "registered" /\ pc[q] = "registered" /\ form[r].email = form[q].email => r = q
  /\ \A r \in Requests : pc[r] = "registered" =>
       FindByEmail(r) = NewUser(r) /\ form[r].accountType \in roles
  /\ \A r \in Requests : pc[r] = "ok" =>
       /\ users[Claims(r).email] = found[r] /\ found[r].password = form[r].password
       /\ Claims(r).role = users[Claims(r).email].role

\* "All seeds completed successfully!" (seed.ts:30): a script that is not
\* interrupted gets to its last seed.
SeedCompletes == seed = "roles" ~> seed = "admin"
-----------------------------------------------------------------------------
(* The inductive invariant behind the theorems about accounts.              *)

\* What the next query of a request relies on: the form that was checked, and that
\* an account, once there, stays.
WebInv ==
  /\ users \in [Emails -> Account \cup {Null}]
  /\ form \in [Requests -> Form \cup {Null}] /\ found \in [Requests -> Account \cup {Null}]
  /\ DOMAIN pc = Requests
  /\ \A r \in Requests :
       /\ pc[r] \in {"register", "create", "registered"} => form[r] \in RegisterDto
       /\ pc[r] \in {"login", "compare", "ok"} => form[r] \in LoginDto
       /\ pc[r] \in {"compare", "ok"} => found[r] # Null /\ FindByEmail(r) = found[r]

IInv == WebInv /\ OutcomesMatchAccounts
=============================================================================
