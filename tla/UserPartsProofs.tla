--------------------------- MODULE UserPartsProofs ---------------------------
(***************************************************************************)
(* Theorems about the parts of MCParts that belong to the user service, for *)
(* any number of requests and any values they carry: sessions and accounts. *)
(* Each is proved of the module of the part and carried over to MCParts.    *)
(***************************************************************************)
EXTENDS MCParts, FiniteSetTheorems, TLAPS
-----------------------------------------------------------------------------
(* Sessions: creations, and revocations of one or of all.                  *)

LEMMA SessionInit == Session!Init => Session!TypeOK /\ Session!IInv
BY PartsConstants DEF Session!SessionsConstants, Session!Init, Session!TypeOK, Session!IInv,
   Session!JobInv, Session!RevokedAsAsked, Session!Stored, Session!Unrevoked, Session!Handlers

LEMMA SessionType ==
  ASSUME Session!TypeOK, Session!IInv, Session!Next
  PROVE  Session!TypeOK'
<1>1. ASSUME NEW r \in Creators, Session!CreateCheck(r) \/ Session!CreateInsert(r)
      PROVE  Session!TypeOK'
  <2>1. CASE Session!CreateCheck(r)
    BY <2>1 DEF Session!TypeOK, Session!CreateCheck, Session!Goto, Session!Handlers
  <2>2. CASE Session!CreateInsert(r)
    <3>1. sessionPc[r] = "insert" /\ job[r].jti \in Jtis
      BY <2>2 DEF Session!CreateInsert, Session!IInv, Session!JobInv, Session!Create
    <3>2. [jti |-> job[r].jti, revoked |-> FALSE] \in Session!Row
      BY <3>1 DEF Session!Row
    <3>3. sessionRows' \in [Creators -> Session!Row \cup {Null}] /\ auditLog' \subseteq Creators
      BY <2>2, <3>2 DEF Session!TypeOK, Session!CreateInsert, Session!InsertRow, Session!Fire
    <3> QED BY <2>2, <3>3 DEF Session!TypeOK, Session!CreateInsert, Session!Goto, Session!Handlers
  <2> QED BY <1>1, <2>1, <2>2
<1>2. ASSUME NEW r \in Revokers, Session!Ask(r) \/ Session!RevokeFind(r)
      PROVE  Session!TypeOK'
  BY <1>2 DEF Session!TypeOK, Session!Ask, Session!RevokeFind, Session!Goto, Session!Handlers,
     Session!Stored
<1>3. ASSUME NEW r \in Revokers, Session!RevokeUpdate(r) \/ Session!RevokeAllUpdate(r)
      PROVE  Session!TypeOK'
  <2>1. ASSUME NEW S \in SUBSET Session!Stored
        PROVE  Session!Revoked(S) \in [Creators -> Session!Row \cup {Null}]
    BY DEF Session!TypeOK, Session!Stored, Session!Revoked, Session!Row
  <2>2. \E S \in SUBSET Session!Stored : sessionRows' = Session!Revoked(S)
    BY <1>3 DEF Session!RevokeUpdate, Session!RevokeAllUpdate, Session!Means, Session!Unrevoked,
       Session!IInv, Session!JobInv
  <2> QED BY <1>3, <2>1, <2>2 DEF Session!TypeOK, Session!RevokeUpdate, Session!RevokeAllUpdate,
          Session!Goto, Session!Handlers
<1>4. ASSUME NEW r \in Session!Handlers, Session!Fail(r)
      PROVE  Session!TypeOK'
  BY <1>4 DEF Session!TypeOK, Session!Fail, Session!Goto
<1>5. ASSUME NEW r \in Session!Handlers, Session!ReplyLost(r)
      PROVE  Session!TypeOK'
  <2>1. sessionRows' \in [Creators -> Session!Row \cup {Null}]
    <3>1. CASE sessionPc[r] = "insert" /\ Session!InsertRow(r)
      <4>1. r \in Creators /\ job[r].jti \in Jtis
        BY <3>1 DEF Session!IInv, Session!JobInv, Session!Handlers, Session!Create
      <4>2. [jti |-> job[r].jti, revoked |-> FALSE] \in Session!Row
        BY <4>1 DEF Session!Row
      <4> QED BY <3>1, <4>1, <4>2 DEF Session!TypeOK, Session!InsertRow
    <3>2. CASE sessionPc[r] \in {"update", "updateAll"}
      <4>1. r \in Revokers
        BY <3>2 DEF Session!IInv, Session!JobInv, Session!Handlers
      <4>2. \E S \in SUBSET Session!Stored : sessionRows' = Session!Revoked(S)
        BY <1>5, <3>2, <4>1 DEF Session!ReplyLost, Session!Means, Session!Unrevoked, Session!IInv,
           Session!JobInv
      <4>3. ASSUME NEW S \in SUBSET Session!Stored
            PROVE  Session!Revoked(S) \in [Creators -> Session!Row \cup {Null}]
        BY DEF Session!TypeOK, Session!Stored, Session!Revoked, Session!Row
      <4> QED BY <4>2, <4>3
    <3> QED BY <1>5, <3>1, <3>2 DEF Session!ReplyLost
  <2> QED BY <1>5, <2>1 DEF Session!TypeOK, Session!ReplyLost, Session!Goto
<1> QED BY <1>1, <1>2, <1>3, <1>4, <1>5 DEF Session!Next

\* A step that leaves the table, the log and what was asked for alone, and takes
\* r to a label that promises nothing, or one whose promise is kept.
LEMMA SessionQuiet ==
  ASSUME Session!TypeOK, Session!IInv, NEW r \in Session!Handlers, NEW label,
         Session!Goto(r, label), UNCHANGED <<sessionRows, auditLog, job, before>>,
         IF r \in Creators THEN sessionPc[r] = "insert" /\ label = "failed"
                          ELSE \/ label \in {"failed", "notFound"}
                               \/ sessionPc[r] = "find" /\ label = "update"
                                  /\ job[r].id \in Session!Stored,
         sessionPc[r] # "idle"
  PROVE  Session!IInv'
<1>1. r \in Creators => r \notin Revokers
  BY PartsConstants DEF Session!SessionsConstants
<1>2. sessionPc'[r] = label /\ \A q \in Session!Handlers \ {r} : sessionPc'[q] = sessionPc[q]
  BY DEF Session!TypeOK, Session!Goto
<1>3. Session!JobInv'
  BY <1>1, <1>2 DEF Session!IInv, Session!JobInv, Session!Stored, Session!Handlers
<1>4. Session!RevokedAsAsked'
  BY <1>1, <1>2 DEF Session!IInv, Session!RevokedAsAsked, Session!Stored, Session!Unrevoked,
     Session!Covers, Session!Handlers
<1> QED BY <1>3, <1>4 DEF Session!IInv

\* The row of r is inserted, and r told so or not.
LEMMA SessionInsert ==
  ASSUME Session!TypeOK, Session!IInv, NEW r \in Creators, sessionPc[r] = "insert",
         Session!InsertRow(r), UNCHANGED <<job, before>>,
         \/ Session!Goto(r, "created") /\ Session!Fire(r)
         \/ Session!Goto(r, "failed") /\ UNCHANGED auditLog
  PROVE  Session!IInv'
<1>1. r \notin Revokers /\ \A q \in Revokers : q \in Session!Handlers \ {r}
  BY PartsConstants DEF Session!SessionsConstants, Session!Handlers
<1>2. [jti |-> job[r].jti, revoked |-> FALSE] \in Session!Row
  BY DEF Session!IInv, Session!JobInv, Session!Create, Session!Row
<1>3. /\ sessionRows'[r] # Null /\ ~ sessionRows'[r].revoked
      /\ \A s \in Creators \ {r} : sessionRows'[s] = sessionRows[s]
      /\ sessionPc'[r] \in {"created", "failed"}
      /\ \A q \in Session!Handlers \ {r} : sessionPc'[q] = sessionPc[q]
      /\ auditLog' \subseteq auditLog \cup {r}
      /\ r \in auditLog' => sessionPc'[r] = "created"
  <2>1. sessionRows' = [sessionRows EXCEPT ![r] = [jti |-> job[r].jti, revoked |-> FALSE]]
    BY DEF Session!InsertRow
  <2>2. sessionRows'[r] # Null /\ ~ sessionRows'[r].revoked
    BY <1>2, <2>1, PartsConstants DEF Session!TypeOK, Session!SessionsConstants
  <2>3. \A s \in Creators \ {r} : sessionRows'[s] = sessionRows[s]
    BY <2>1 DEF Session!TypeOK
  <2>4. r \notin auditLog
    BY DEF Session!IInv, Session!RevokedAsAsked
  <2>5. /\ sessionPc'[r] \in {"created", "failed"}
        /\ \A q \in Session!Handlers \ {r} : sessionPc'[q] = sessionPc[q]
        /\ sessionPc'[r] = "created" \/ UNCHANGED auditLog
    BY DEF Session!TypeOK, Session!Goto, Session!Handlers
  <2>6. auditLog' \subseteq auditLog \cup {r}
    BY DEF Session!Fire
  <2> QED BY <2>2, <2>3, <2>4, <2>5, <2>6
<1>4. sessionRows[r] = Null
  BY DEF Session!IInv, Session!RevokedAsAsked, Session!Stored
<1>5. /\ Session!Stored' = Session!Stored \cup {r}
      /\ Session!Unrevoked' = Session!Unrevoked \cup {r}
  BY <1>3, <1>4 DEF Session!Stored, Session!Unrevoked
<1>6. Session!JobInv'
  BY <1>1, <1>3, <1>5 DEF Session!IInv, Session!JobInv, Session!Handlers
<1>7. Session!RevokedAsAsked'
  <2>1. Session!Stored' \ Session!Unrevoked' = Session!Stored \ Session!Unrevoked
    BY <1>4, <1>5 DEF Session!Stored
  <2> QED BY <1>1, <1>3, <1>5, <2>1 DEF Session!IInv, Session!RevokedAsAsked, Session!Covers,
          Session!Handlers
<1> QED BY <1>6, <1>7 DEF Session!IInv

LEMMA SessionCreate ==
  ASSUME Session!TypeOK, Session!IInv, NEW r \in Creators,
         Session!CreateCheck(r) \/ Session!CreateInsert(r)
  PROVE  Session!IInv'
<1>1. r \notin Revokers /\ \A q \in Revokers : q \in Session!Handlers \ {r}
  BY PartsConstants DEF Session!SessionsConstants, Session!Handlers
<1>2. CASE Session!CreateCheck(r)
  <2>1. /\ UNCHANGED <<sessionRows, auditLog, before>>
        /\ sessionPc[r] = "idle" /\ sessionPc'[r] \in {"insert", "refused"}
        /\ job'[r] \in Session!Create
        /\ \A q \in Session!Handlers \ {r} : sessionPc'[q] = sessionPc[q] /\ job'[q] = job[q]
    BY <1>2 DEF Session!TypeOK, Session!CreateCheck, Session!Goto, Session!Handlers
  <2>2. Session!JobInv'
    BY <1>1, <2>1 DEF Session!IInv, Session!JobInv, Session!Stored, Session!Handlers
  <2>3. Session!RevokedAsAsked'
    BY <1>1, <2>1 DEF Session!IInv, Session!RevokedAsAsked, Session!Stored, Session!Unrevoked,
       Session!Covers, Session!Handlers
  <2> QED BY <2>2, <2>3 DEF Session!IInv
<1>3. CASE Session!CreateInsert(r) /\ Session!JtiFree(job[r].jti)
  BY <1>3, SessionInsert DEF Session!CreateInsert
<1>4. CASE Session!CreateInsert(r) /\ ~ Session!JtiFree(job[r].jti)
  BY <1>4, SessionQuiet DEF Session!CreateInsert, Session!Handlers
<1> QED BY <1>2, <1>3, <1>4

LEMMA SessionAsk ==
  ASSUME Session!TypeOK, Session!IInv, NEW r \in Revokers, Session!Ask(r)
  PROVE  Session!IInv'
<1>1. r \notin Creators /\ \A s \in Creators : s \in Session!Handlers \ {r}
  BY PartsConstants DEF Session!SessionsConstants, Session!Handlers
<1>2. /\ UNCHANGED <<sessionRows, auditLog>>
      /\ sessionPc[r] = "idle" /\ job'[r] \in Session!Revocation
      /\ sessionPc'[r] = IF job'[r].op = "revoke" THEN "find" ELSE "updateAll"
      /\ \A q \in Session!Handlers \ {r} : sessionPc'[q] = sessionPc[q] /\ job'[q] = job[q]
      /\ before'[r] = Session!Stored /\ \A q \in Revokers \ {r} : before'[q] = before[q]
  BY DEF Session!TypeOK, Session!Ask, Session!Goto, Session!Handlers
<1>3. job[r] = Null
  BY <1>2 DEF Session!IInv, Session!JobInv
<1>4. Session!Stored' = Session!Stored /\ Session!Unrevoked' = Session!Unrevoked
  BY <1>2 DEF Session!Stored, Session!Unrevoked
<1>5. job'[r].op \in {"revoke", "revokeAll"}
  BY <1>2 DEF Session!Revocation
<1>6. Session!JobInv'
  BY <1>1, <1>2, <1>4, <1>5 DEF Session!IInv, Session!JobInv, Session!Handlers
<1>7. Session!RevokedAsAsked'
  BY <1>1, <1>2, <1>3, <1>4 DEF Session!IInv, Session!RevokedAsAsked, Session!Covers, Session!Handlers
<1> QED BY <1>6, <1>7 DEF Session!IInv

\* A revocation of S by r, which asked for every session of S.
LEMMA SessionRevoke ==
  ASSUME Session!TypeOK, Session!IInv, NEW r \in Revokers, sessionPc[r] # "idle",
         NEW S \in SUBSET Session!Stored, sessionRows' = Session!Revoked(S),
         \A s \in S : Session!Covers(r, s),
         UNCHANGED <<auditLog, job, before>>,
         \/ Session!Goto(r, "failed")
         \/ /\ job[r].op = "revoke" /\ job[r].id \in S /\ Session!Goto(r, "revoked")
         \/ /\ job[r].op = "revokeAll" /\ Session!Unrevoked \ {job[r].except} \subseteq S
            /\ Session!Goto(r, "revokedAll")
  PROVE  Session!IInv'
<1>1. r \notin Creators /\ \A s \in Creators : s \in Session!Handlers \ {r}
  BY PartsConstants DEF Session!SessionsConstants, Session!Handlers
<1>2. Session!Stored' = Session!Stored /\ Session!Unrevoked' = Session!Unrevoked \ S
  <2>1. \A s \in Session!Stored : sessionRows[s] \in Session!Row
    BY DEF Session!TypeOK, Session!Stored
  <2>2. \A s \in S : sessionRows'[s] # Null /\ sessionRows'[s].revoked
    BY <2>1, PartsConstants DEF Session!Stored, Session!Revoked, Session!Row, Session!SessionsConstants
  <2>3. \A s \in Creators \ S : sessionRows'[s] = sessionRows[s]
    BY DEF Session!Revoked
  <2> QED BY <2>2, <2>3 DEF Session!Stored, Session!Unrevoked
<1>3. /\ sessionPc'[r] \in {"failed", IF job[r].op = "revoke" THEN "revoked" ELSE "revokedAll"}
      /\ sessionPc'[r] = "revoked" => job[r].id \in S
      /\ sessionPc'[r] = "revokedAll" => Session!Unrevoked \ {job[r].except} \subseteq S
      /\ \A q \in Session!Handlers \ {r} : sessionPc'[q] = sessionPc[q]
  BY DEF Session!TypeOK, Session!Goto, Session!Handlers
<1>4. /\ job[r] # Null /\ sessionPc'[r] # "idle" /\ job[r] \in Session!Revocation
      /\ job[r].op \in {"revoke", "revokeAll"}
  <2>1. job[r] \in Session!Revocation
    BY DEF Session!IInv, Session!JobInv
  <2>2. job[r].op \in {"revoke", "revokeAll"}
    BY <2>1 DEF Session!Revocation
  <2> QED BY <2>1, <2>2, <1>3, PartsConstants DEF Session!IInv, Session!JobInv, Session!SessionsConstants
<1>6. Session!JobInv'
  BY <1>1, <1>2, <1>3, <1>4 DEF Session!IInv, Session!JobInv, Session!Handlers
<1>7. Session!RevokedAsAsked'
  BY <1>1, <1>2, <1>3, <1>4 DEF Session!IInv, Session!RevokedAsAsked, Session!JobInv, Session!Covers,
     Session!Handlers
<1> QED BY <1>6, <1>7 DEF Session!IInv

LEMMA SessionInv ==
  ASSUME Session!TypeOK, Session!IInv, [Session!Next]_(Session!vars)
  PROVE  Session!TypeOK' /\ Session!IInv'
<1>1. CASE UNCHANGED Session!vars
  BY <1>1 DEF Session!vars, Session!TypeOK, Session!IInv, Session!JobInv, Session!RevokedAsAsked,
     Session!Stored, Session!Unrevoked, Session!Covers
<1>2. ASSUME Session!Next PROVE Session!IInv'
  <2>0. \A r \in Revokers : r \notin Creators /\ r \in Session!Handlers
    BY PartsConstants DEF Session!SessionsConstants, Session!Handlers
  <2>1. ASSUME NEW r \in Revokers, Session!RevokeFind(r)
        PROVE  Session!IInv'
    BY <2>0, <2>1, SessionQuiet DEF Session!RevokeFind, Session!Unrevoked
  <2>2. ASSUME NEW r \in Revokers, Session!RevokeUpdate(r)
        PROVE  Session!IInv'
    <3>1. /\ job[r].op = "revoke" /\ job[r].id \in Session!Stored /\ job[r] # Null
          /\ sessionPc[r] = "update"
      BY <2>2, PartsConstants DEF Session!RevokeUpdate, Session!IInv, Session!JobInv,
         Session!SessionsConstants
    <3>2. Session!Covers(r, job[r].id)
      BY <3>1 DEF Session!Covers
    <3> QED BY <2>2, <3>1, <3>2, SessionRevoke DEF Session!RevokeUpdate
  <2>3. ASSUME NEW r \in Revokers, Session!RevokeAllUpdate(r)
        PROVE  Session!IInv'
    <3>1. job[r].op = "revokeAll" /\ job[r] # Null /\ sessionPc[r] = "updateAll"
      BY <2>3, PartsConstants DEF Session!RevokeAllUpdate, Session!IInv, Session!JobInv,
         Session!SessionsConstants
    <3>2. /\ Session!Means(r) \in SUBSET Session!Stored
          /\ \A s \in Session!Means(r) : Session!Covers(r, s)
          /\ Session!Unrevoked \ {job[r].except} \subseteq Session!Means(r)
      BY <3>1 DEF Session!Covers, Session!Means, Session!Unrevoked
    <3> QED BY <2>3, <3>1, <3>2, SessionRevoke DEF Session!RevokeAllUpdate
  <2>4. ASSUME NEW r \in Session!Handlers, Session!Fail(r)
        PROVE  Session!IInv'
    <3>1. r \in Creators => sessionPc[r] = "insert"
      BY <2>4 DEF Session!Fail, Session!IInv, Session!JobInv
    <3> QED BY <2>4, <3>1, SessionQuiet DEF Session!Fail
  <2>5. ASSUME NEW r \in Session!Handlers, Session!ReplyLost(r)
        PROVE  Session!IInv'
    <3>1. CASE sessionPc[r] = "insert"
      <4>1. r \in Creators
        BY <3>1 DEF Session!IInv, Session!JobInv, Session!Handlers, Session!RevokedAsAsked
      <4> QED BY <2>5, <3>1, <4>1, SessionInsert DEF Session!ReplyLost
    <3>2. CASE sessionPc[r] = "update"
      <4>1. r \in Revokers
        BY <3>2 DEF Session!IInv, Session!JobInv, Session!Handlers
      <4>2. /\ job[r].op = "revoke" /\ job[r].id \in Session!Stored /\ job[r] # Null
        BY <3>2, <4>1, PartsConstants DEF Session!IInv, Session!JobInv, Session!SessionsConstants
      <4>3. Session!Covers(r, job[r].id)
        BY <4>2 DEF Session!Covers
      <4> QED BY <2>5, <3>2, <4>1, <4>2, <4>3, SessionRevoke DEF Session!ReplyLost
    <3>3. CASE sessionPc[r] = "updateAll"
      <4>1. r \in Revokers
        BY <3>3 DEF Session!IInv, Session!JobInv, Session!Handlers
      <4>2. job[r].op = "revokeAll" /\ job[r] # Null
        BY <3>3, <4>1, PartsConstants DEF Session!IInv, Session!JobInv, Session!SessionsConstants
      <4>3. /\ Session!Means(r) \in SUBSET Session!Stored
            /\ \A s \in Session!Means(r) : Session!Covers(r, s)
        BY <4>2 DEF Session!Covers, Session!Means, Session!Unrevoked
      <4> QED BY <2>5, <3>3, <4>1, <4>3, SessionRevoke DEF Session!ReplyLost
    <3> QED BY <2>5, <3>1, <3>2, <3>3 DEF Session!ReplyLost
  <2> QED BY <1>2, <2>1, <2>2, <2>3, <2>4, <2>5, SessionCreate, SessionAsk DEF Session!Next
<1> QED BY <1>1, <1>2, SessionType

\* The sessions of a behaviour of all parts behave as Sessions says.
LEMMA SessionsAlone == Spec => Session!Spec
<1>1. Init => Session!Init
  BY DEF Init
<1>2. [Next]_vars => [Session!Next]_(Session!vars)
  BY DEF Next, SessionStep, AccountStep, ListingStep, KeyListStep, HistoryStep, ProcessStep,
     DecimalStep, CheckStep, ClientStep, vars, userVars, sessionVars, Session!vars
<1> QED BY <1>1, <1>2, PTL DEF Spec, Session!Spec

\* Sessions are revoked as their callers asked, and there if they were told so, for any
\* number of both, however their queries interleave and whichever replies are lost.
THEOREM Revocations == Spec => []RevokedAsAsked
<1>1. Session!Spec => [](Session!TypeOK /\ Session!IInv)
  <2>1. Session!Init => Session!TypeOK /\ Session!IInv
    BY SessionInit
  <2>2. Session!TypeOK /\ Session!IInv /\ [Session!Next]_(Session!vars)
          => (Session!TypeOK /\ Session!IInv)'
    BY SessionInv
  <2> QED BY <2>1, <2>2, PTL DEF Session!Spec
<1>2. Session!IInv => RevokedAsAsked
  BY DEF Session!IInv, RevokedAsAsked
<1> QED BY <1>1, <1>2, SessionsAlone, PTL
-----------------------------------------------------------------------------
(* Accounts: registrations and logins beside the seed script.               *)

LEMMA AccountInit == Account!Init => Account!IInv
BY DEF Account!Init, Account!IInv, Account!WebInv, Account!OutcomesMatchAccounts

\* The requests, and what they were told, survive a step of the script: it adds roles
\* and leaves the accounts alone.
LEMMA SeedingInv ==
  ASSUME Account!IInv, Account!SeedStart \/ Account!Seeding \/ Account!SeedFails
  PROVE  Account!IInv'
<1>1. UNCHANGED <<users, form, accountPc, found>> /\ roles \subseteq roles'
  BY DEF Account!SeedStart, Account!Seeding, Account!SeedFails, Account!SeedRole,
     Account!SeedPermission, Account!SeedGrant, Account!tables, Account!web
<1>2. Account!WebInv'
  BY <1>1 DEF Account!IInv, Account!WebInv, Account!FindByEmail
<1>3. Account!OutcomesMatchAccounts'
  BY <1>1 DEF Account!IInv, Account!OutcomesMatchAccounts, Account!FindByEmail, Account!NewUser,
     Account!Claims
<1> QED BY <1>2, <1>3 DEF Account!IInv

\* A request's step that leaves the accounts alone.
LEMMA WebReads ==
  ASSUME Account!IInv, NEW r \in Requests,
         Account!Arrive(r) \/ Account!RegisterFind(r) \/ Account!LoginFind(r) \/ Account!LoginCompare(r)
  PROVE  Account!IInv'
<1>1. UNCHANGED <<roles, permissions, grants, users, seed>>
  BY DEF Account!Arrive, Account!RegisterFind, Account!LoginFind, Account!LoginCompare, Account!tables
<1>2. /\ accountPc[r] \notin {"registered", "ok"} /\ accountPc'[r] # "registered"
      /\ \A q \in Requests \ {r} : accountPc'[q] = accountPc[q] /\ form'[q] = form[q] /\ found'[q] = found[q]
  BY DEF Account!IInv, Account!WebInv, Account!Arrive, Account!RegisterFind, Account!LoginFind,
     Account!FindLoginUser, Account!LoginCompare, Account!Goto
<1>3. /\ form' \in [Requests -> Account!Form \cup {Null}]
      /\ found' \in [Requests -> Account!Account \cup {Null}] /\ DOMAIN accountPc' = Requests
      /\ accountPc'[r] \in {"register", "create"} => form'[r] \in Account!RegisterDto
      /\ accountPc'[r] \in {"login", "compare", "ok"} => form'[r] \in Account!LoginDto
      /\ accountPc'[r] \in {"compare", "ok"} => found'[r] # Null /\ users[form'[r].email] = found'[r]
      /\ accountPc'[r] = "ok" => found'[r].password = form'[r].password
  <2>1. CASE Account!Arrive(r)
    <3>1. ASSUME NEW f \in Account!Form, ~ Account!Registers(f)
          PROVE  f \in Account!LoginDto
      BY <3>1 DEF Account!Form, Account!Registers, Account!RegisterDto
    <3>2. ASSUME NEW f \in Account!Form, Account!Registers(f)
          PROVE  f \in Account!RegisterDto
      BY <3>2 DEF Account!Form, Account!Registers, Account!LoginDto
    <3> QED BY <2>1, <3>1, <3>2 DEF Account!IInv, Account!WebInv, Account!Arrive, Account!Goto
  <2>2. CASE Account!RegisterFind(r)
    BY <2>2 DEF Account!IInv, Account!WebInv, Account!RegisterFind, Account!Goto
  <2>3. CASE Account!LoginFind(r)
    <3>1. form[r].email \in Emails /\ users[form[r].email] \in Account!Account \cup {Null}
      BY <2>3 DEF Account!IInv, Account!WebInv, Account!LoginDto, Account!LoginFind
    <3> QED BY <2>3, <3>1 DEF Account!IInv, Account!WebInv, Account!LoginFind, Account!FindLoginUser,
            Account!Goto
  <2>4. CASE Account!LoginCompare(r)
    BY <2>4 DEF Account!IInv, Account!WebInv, Account!LoginCompare, Account!Goto, Account!FindByEmail
  <2> QED BY <2>1, <2>2, <2>3, <2>4
<1>4. Account!WebInv'
  BY <1>1, <1>2, <1>3 DEF Account!IInv, Account!WebInv, Account!FindByEmail
<1>5. Account!OutcomesMatchAccounts'
  <2>1. \A q \in Requests : accountPc'[q] = "registered" => q # r /\ accountPc[q] = "registered"
    BY <1>2
  <2>2. ASSUME NEW q \in Requests, accountPc'[q] = "ok"
        PROVE  users'[form'[q].email] = found'[q] /\ found'[q].password = form'[q].password
    BY <1>1, <1>2, <1>3, <2>2 DEF Account!IInv, Account!OutcomesMatchAccounts, Account!Claims
  <2>3. ASSUME NEW q \in Requests, accountPc'[q] = "registered"
        PROVE  Account!FindByEmail(q)' = Account!NewUser(q)' /\ form'[q].accountType \in roles'
    BY <1>1, <1>2, <2>1, <2>3 DEF Account!IInv, Account!OutcomesMatchAccounts, Account!FindByEmail,
       Account!NewUser
  <2> QED BY <1>2, <2>1, <2>2, <2>3 DEF Account!IInv, Account!OutcomesMatchAccounts, Account!Claims
<1> QED BY <1>4, <1>5 DEF Account!IInv

\* A registration creates an account where there was none, so that of everybody
\* else stays; and nobody had been told of the one it creates.
LEMMA RegisterInv ==
  ASSUME Account!IInv, NEW r \in Requests, Account!RegisterCreate(r)
  PROVE  Account!IInv'
<1>1. /\ UNCHANGED <<roles, form, found>>
      /\ accountPc[r] = "create" /\ form[r] \in Account!RegisterDto
      /\ \A q \in Requests \ {r} : accountPc'[q] = accountPc[q]
      /\ DOMAIN accountPc' = Requests
  BY DEF Account!IInv, Account!WebInv, Account!RegisterCreate, Account!Goto
<1>2. /\ form[r].email \in Emails /\ Account!NewUser(r) \in Account!Account
      /\ Account!NewUser(r)' = Account!NewUser(r)
  BY <1>1 DEF Account!RegisterDto, Account!NewUser, Account!Account
<1>3. CASE /\ users[form[r].email] = Null /\ users' = [users EXCEPT ![form[r].email] = Account!NewUser(r)]
           /\ form[r].accountType \in roles /\ accountPc'[r] = "registered"
  <2>1. /\ users' \in [Emails -> Account!Account \cup {Null}]
        /\ users'[form[r].email] = Account!NewUser(r)
        /\ \A e \in Emails : users[e] # Null => users'[e] = users[e]
    BY <1>2, <1>3 DEF Account!IInv, Account!WebInv
  <2>2. ASSUME NEW q \in Requests, accountPc[q] \in {"registered", "compare", "ok"}
        PROVE  form[q].email \in Emails /\ users[form[q].email] # Null
    <3>1. form[q].email \in Emails /\ form[q].password \in Passwords
      BY <2>2 DEF Account!IInv, Account!WebInv, Account!RegisterDto, Account!LoginDto
    <3>2. CASE accountPc[q] = "registered"
      <4>1. Account!NewUser(q) # Null
        BY <3>1, <3>2, PartsConstants DEF Account!AccountsConstants, Account!NewUser, Account!Account,
           Account!IInv, Account!WebInv, Account!RegisterDto
      <4> QED BY <3>1, <3>2, <4>1 DEF Account!IInv, Account!OutcomesMatchAccounts, Account!FindByEmail
    <3>3. CASE accountPc[q] \in {"compare", "ok"}
      BY <3>1, <3>3 DEF Account!IInv, Account!WebInv, Account!FindByEmail
    <3> QED BY <2>2, <3>1, <3>2, <3>3
  <2>3. Account!WebInv'
    BY <1>1, <1>3, <2>1, <2>2 DEF Account!IInv, Account!WebInv, Account!FindByEmail
  <2>4. \A q \in Requests \ {r} : accountPc'[q] = "registered" => form[q].email # form[r].email
    BY <1>1, <1>3, <2>2
  <2>5. Account!OutcomesMatchAccounts'
    <3>1. ASSUME NEW q \in Requests, accountPc'[q] = "registered"
          PROVE  Account!FindByEmail(q)' = Account!NewUser(q)' /\ form'[q].accountType \in roles'
      BY <1>1, <1>3, <2>1, <2>2, <3>1 DEF Account!IInv, Account!OutcomesMatchAccounts,
         Account!FindByEmail, Account!NewUser
    <3>2. ASSUME NEW q \in Requests, accountPc'[q] = "ok"
          PROVE  users'[form'[q].email] = found'[q] /\ found'[q].password = form'[q].password
      BY <1>1, <1>3, <2>1, <2>2, <3>2 DEF Account!IInv, Account!OutcomesMatchAccounts, Account!Claims
    <3> QED BY <1>1, <2>4, <3>1, <3>2 DEF Account!IInv, Account!OutcomesMatchAccounts, Account!Claims
  <2> QED BY <2>3, <2>5 DEF Account!IInv
<1>4. CASE users' = users /\ accountPc'[r] = "error"
  <2>1. Account!WebInv'
    BY <1>1, <1>4 DEF Account!IInv, Account!WebInv, Account!FindByEmail
  <2>2. Account!OutcomesMatchAccounts'
    BY <1>1, <1>4 DEF Account!IInv, Account!OutcomesMatchAccounts, Account!FindByEmail, Account!Claims,
       Account!NewUser
  <2> QED BY <2>1, <2>2 DEF Account!IInv
<1> QED BY <1>3, <1>4 DEF Account!RegisterCreate, Account!CreateUser, Account!FindByEmail, Account!Goto,
        Account!IInv, Account!WebInv

LEMMA AccountInv ==
  ASSUME Account!IInv, [Account!Next]_(Account!vars)
  PROVE  Account!IInv'
<1>1. CASE UNCHANGED Account!vars
  BY <1>1 DEF Account!vars, Account!tables, Account!web, Account!IInv, Account!WebInv,
     Account!OutcomesMatchAccounts, Account!FindByEmail, Account!NewUser, Account!Claims
<1> QED BY <1>1, SeedingInv, WebReads, RegisterInv DEF Account!Next

\* The accounts of a behaviour of all parts behave as Accounts says.
LEMMA AccountsAlone == Spec => Account!Spec
<1>1. Init => Account!Init
  BY DEF Init
<1>2. [Next]_vars => [Account!Next]_(Account!vars)
  BY DEF Next, AccountStep, SessionStep, ListingStep, KeyListStep, HistoryStep, ProcessStep,
     DecimalStep, CheckStep, ClientStep, vars, userVars, accountVars, Account!vars, Account!tables,
     Account!web
<1> QED BY <1>1, <1>2, PTL DEF Spec, Account!Spec

\* Of all registrations of one email at most one succeeds, and every login lets in
\* with the password and the role of that very account, though each handler looks
\* and acts in two queries.
THEOREM Outcomes == Spec => []OutcomesMatchAccounts
<1>1. Account!IInv /\ [Account!Next]_(Account!vars) => Account!IInv'
  BY AccountInv
<1>2. Account!IInv => OutcomesMatchAccounts
  BY DEF Account!IInv, OutcomesMatchAccounts
<1> QED BY <1>1, <1>2, AccountInit, AccountsAlone, PTL DEF Account!Spec
-----------------------------------------------------------------------------
(* Lists: the first element of a set of positions, and how many there are.  *)

\* A set of natural numbers has a least one.
LEMMA LeastNumber ==
  ASSUME NEW T \in SUBSET Nat, T # {}
  PROVE  \E m \in T : \A k \in T : m <= k
<1> DEFINE R == StrictSubsetOrdering(Nat)
           B == {0..k : k \in T}
<1>1. B \subseteq FiniteSubsetsOf(Nat) /\ B # {}
  <2>1. ASSUME NEW k \in T PROVE 0..k \in FiniteSubsetsOf(Nat)
    <3>1. IsFiniteSet(0..k) /\ 0..k \in SUBSET Nat
      BY FS_Interval
    <3> QED BY <3>1 DEF FiniteSubsetsOf
  <2> QED BY <2>1
<1>2. PICK I \in B : \A J \in B : <<J, I>> \notin R
  <2> HIDE DEF B
  <2> QED BY <1>1, FS_StrictSubsetOrderingWellFounded, WFMin
<1>3. PICK m \in T : I = 0..m
  BY <1>2
<1>4. ASSUME NEW k \in T, k < m PROVE FALSE
  <2>1. 0..k \in B /\ <<0..k, 0..m>> \in R
    <3>1. 0..k \in SUBSET Nat /\ 0..m \in SUBSET Nat /\ 0..k \subseteq 0..m /\ m \in 0..m /\ m \notin 0..k
      BY <1>4
    <3> QED BY <1>4, <3>1 DEF StrictSubsetOrdering
  <2> QED BY <1>2, <1>3, <2>1
<1> QED BY <1>4

-----------------------------------------------------------------------------
(* The list of sessions.                                                    *)

\* The module of the list and this one mean the same by a cardinality.
LEMMA SameNumber == \A S : Listing!Cardinality(S) = Cardinality(S)
BY DEF Listing!Cardinality, Cardinality

\* Positions of a list: a part of them has no more, and one more adds one.
LEMMA Positions ==
  ASSUME NEW n \in Nat, NEW S \in SUBSET (1..n)
  PROVE  /\ Listing!Cardinality(S) \in 0..n
         /\ \A T \in SUBSET S : Listing!Cardinality(T) \in 0..Listing!Cardinality(S)
         /\ \A x \in (1..n) \ S : Listing!Cardinality(S \cup {x}) = Listing!Cardinality(S) + 1
<1>1. IsFiniteSet(1..n) /\ Cardinality(1..n) = n
  BY FS_Interval
<1>2. IsFiniteSet(S) /\ Cardinality(S) <= n /\ Cardinality(S) \in Nat
  BY <1>1, FS_Subset, FS_CardinalityType
<1>3. ASSUME NEW T \in SUBSET S PROVE Cardinality(T) \in 0..Cardinality(S)
  <2>1. IsFiniteSet(T) /\ Cardinality(T) <= Cardinality(S)
    BY <1>2, FS_Subset
  <2>2. Cardinality(T) \in Nat
    BY <2>1, FS_CardinalityType
  <2> QED BY <1>2, <2>1, <2>2
<1>4. ASSUME NEW x \in (1..n) \ S PROVE Cardinality(S \cup {x}) = Cardinality(S) + 1
  BY <1>2, FS_AddElement
<1> QED BY <1>2, <1>3, <1>4, SameNumber

\* Two parts that make up the list number together as many as the list and what
\* they share.
LEMMA Overlap ==
  ASSUME NEW n \in Nat, NEW S \in SUBSET (1..n), NEW T \in SUBSET (1..n), S \cup T = 1..n
  PROVE  Listing!Cardinality(S) + Listing!Cardinality(T) = n + Listing!Cardinality(S \cap T)
<1>1. IsFiniteSet(1..n) /\ Cardinality(1..n) = n
  BY FS_Interval
<1>2. IsFiniteSet(S) /\ IsFiniteSet(T) /\ IsFiniteSet(S \cap T)
  BY <1>1, FS_Subset, FS_Intersection
<1>3. Cardinality(S) \in Nat /\ Cardinality(T) \in Nat /\ Cardinality(S \cap T) \in Nat
  BY <1>2, FS_CardinalityType
<1>4. Cardinality(S \cup T) = Cardinality(S) + Cardinality(T) - Cardinality(S \cap T)
  BY <1>2, FS_Union
<1>5. Cardinality(S \cup T) = n
  BY <1>1
<1>6. /\ Listing!Cardinality(S) = Cardinality(S) /\ Listing!Cardinality(T) = Cardinality(T)
      /\ Listing!Cardinality(S \cap T) = Cardinality(S \cap T)
  BY SameNumber
<1> QED BY <1>3, <1>4, <1>5, <1>6

LEMMA ListingInit == Listing!Init => Listing!TypeOK /\ Listing!IInv
BY PartsConstants DEF Listing!SessionListConstants, Listing!Init, Listing!TypeOK, Listing!IInv,
   Listing!Labels

\* What tells an active session: it is neither revoked nor expired by now.
LEMMA RowTimes ==
  ASSUME Listing!TypeOK, NEW i \in DOMAIN listed
  PROVE  /\ Listing!IsActive(listed[i]) <=> ~ Listing!IsRevoked(listed[i])
         /\ Listing!IsRevoked(listed[i]) <=> listed[i].revoked \/ listed[i].expiresAt <= listClock
         /\ listed[i].expiresAt \in Int /\ listClock \in Int
         /\ i \in Listing!Active <=> Listing!IsActive(listed[i])
<1>1. listed[i] \in Listing!Row /\ listClock \in Int
  BY DEF Listing!TypeOK
<1>2. listed[i].expiresAt \in Int
  BY <1>1 DEF Listing!Row
<1> QED BY <1>1, <1>2 DEF Listing!IsActive, Listing!IsRevoked, Listing!Active

\* Time only takes sessions out of the active ones.
LEMMA ListingTick ==
  ASSUME Listing!TypeOK, Listing!IInv, Listing!Tick
  PROVE  Listing!TypeOK' /\ Listing!IInv'
<1>0. MaxTime \in Nat
  BY PartsConstants DEF Listing!SessionListConstants
<1>1. /\ listClock \in Int /\ listClock' \in 0..MaxTime /\ listClock <= listClock'
      /\ listStep' = listStep /\ active' = active /\ listed' = listed /\ shown' = shown
      /\ counts' = counts /\ at' = at
  BY <1>0 DEF Listing!TypeOK, Listing!Tick
<1>2. Listing!TypeOK'
  BY <1>1 DEF Listing!TypeOK
<1>3. ASSUME NEW i \in DOMAIN listed
      PROVE  /\ Listing!IsRevoked(listed[i]) => Listing!IsRevoked(listed[i])'
             /\ Listing!IsActive(listed[i])' => Listing!IsActive(listed[i])
  BY <1>1, RowTimes DEF Listing!IsRevoked, Listing!IsActive
<1>4. Listing!Active' \subseteq Listing!Active
  BY <1>1, <1>3 DEF Listing!Active
<1>5. Listing!Chosen => Listing!Chosen'
  BY <1>1, <1>4 DEF Listing!Chosen, Listing!Flagged
<1>6. ASSUME NEW A \in SUBSET DOMAIN listed, NEW R \in SUBSET DOMAIN listed, NEW m, NEW n,
             Listing!Tallied(A, R, m, n)
      PROVE  Listing!Tallied(A, R, m, n)'
  BY <1>1, <1>3, <1>4, <1>6 DEF Listing!Tallied, Listing!Flagged
<1>7. {} \in SUBSET DOMAIN listed
  OBVIOUS
<1>8. /\ listStep = "countActive" => (\E A \in SUBSET DOMAIN listed : Listing!Tallied(A, {}, at, 0))'
      /\ listStep = "countRevoked" =>
           (\E A \in SUBSET DOMAIN listed : \E R \in SUBSET DOMAIN listed :
              Listing!Tallied(A, R, Len(listed), at))'
      /\ listStep = "answered" =>
           (\E A \in SUBSET DOMAIN listed : \E R \in SUBSET DOMAIN listed :
              Listing!Tallied(A, R, Len(listed), Len(listed)))'
  BY <1>1, <1>6, <1>7 DEF Listing!IInv
<1>9. Listing!ToMap' = Listing!ToMap
  BY <1>1 DEF Listing!ToMap
<1> QED BY <1>1, <1>2, <1>5, <1>8, <1>9 DEF Listing!IInv

LEMMA ListingStart ==
  ASSUME Listing!TypeOK, Listing!IInv, Listing!Receive \/ Listing!Find \/ Listing!Filter
  PROVE  Listing!TypeOK' /\ Listing!IInv'
<1>0. /\ MaxRows \in Nat /\ MaxTime \in Nat /\ Null \notin BOOLEAN
  BY PartsConstants DEF Listing!SessionListConstants
<1>1. CASE Listing!Receive
  <2>1. /\ active' \in {TRUE, FALSE, Null} /\ listStep' \in {"find", "refused"} /\ listStep = "idle"
        /\ UNCHANGED <<listClock, listed, shown, counts, at>>
    BY <1>1 DEF Listing!Receive, Listing!TypeOK
  <2> QED BY <2>1 DEF Listing!TypeOK, Listing!IInv, Listing!Labels
<1>2. CASE Listing!Find
  <2>1. /\ listed' \in Seq(Listing!Row) /\ listStep = "find" /\ listStep' = "filter"
        /\ UNCHANGED <<listClock, active, shown, counts, at>> /\ Len(listed') \in Nat
    BY <1>0, <1>2 DEF Listing!Find
  <2>2. shown = << >> /\ at = 0 /\ counts.active = 0 /\ counts.revoked = 0
    BY <2>1 DEF Listing!IInv
  <2>3. counts \in [active : 0..Len(listed'), revoked : 0..Len(listed')]
    BY <2>1, <2>2 DEF Listing!TypeOK
  <2>4. Listing!TypeOK'
    <3>1. DOMAIN shown' = {} /\ shown' \in [{} -> BOOLEAN \cup {Null}]
      BY <2>1, <2>2
    <3>2. at' \in 0..Len(listed')
      BY <2>1, <2>2
    <3> QED BY <2>1, <2>3, <3>1, <3>2 DEF Listing!TypeOK, Listing!Labels
  <2> QED BY <2>1, <2>2, <2>4 DEF Listing!IInv
<1>3. CASE Listing!Filter
  <2> DEFINE K == {j \in DOMAIN listed : Listing!Keeps(listed[j])}
  <2>1. /\ shown' = [i \in K |-> Null] /\ listStep = "filter" /\ listStep' = "map"
        /\ listClock' = listClock /\ active' = active /\ listed' = listed
        /\ counts' = counts /\ at' = at
    BY <1>3 DEF Listing!Filter
  <2>2. /\ active # FALSE => Listing!Active \subseteq K
        /\ active = FALSE => Listing!Active \cap K = {}
    BY <1>0 DEF Listing!TypeOK, Listing!Keeps, Listing!Active, Listing!IsActive
  <2>3. DOMAIN shown' = K /\ (\A i \in K : shown'[i] = Null) /\ shown' \in [K -> BOOLEAN \cup {Null}]
    BY <2>1
  <2>4. K \subseteq DOMAIN listed
    OBVIOUS
  <2> HIDE DEF K
  <2>5. Listing!Active' = Listing!Active
    BY <2>1 DEF Listing!Active, Listing!IsActive
  <2>6. Listing!Chosen'
    BY <1>0, <2>1, <2>2, <2>3, <2>5 DEF Listing!Chosen, Listing!Flagged
  <2>7. Listing!TypeOK'
    BY <2>1, <2>3, <2>4 DEF Listing!TypeOK, Listing!Labels
  <2> QED BY <2>1, <2>6, <2>7 DEF Listing!IInv
<1> QED BY <1>1, <1>2, <1>3

LEMMA ListingMap ==
  ASSUME Listing!TypeOK, Listing!IInv, Listing!Map
  PROVE  Listing!TypeOK' /\ Listing!IInv'
<1>0. Null \notin BOOLEAN
  BY PartsConstants DEF Listing!SessionListConstants
<1>1. /\ listStep = "map" /\ at = 0 /\ counts.active = 0 /\ counts.revoked = 0
      /\ Listing!Chosen
      /\ listClock' = listClock /\ active' = active /\ listed' = listed
      /\ counts' = counts /\ at' = at
  BY DEF Listing!Map, Listing!IInv
<1>2. Listing!Active' = Listing!Active
  BY <1>1 DEF Listing!Active, Listing!IsActive
<1>3. CASE Listing!ToMap = {}
  <2>1. listStep' = "countActive" /\ shown' = shown
    BY <1>3 DEF Listing!Map
  <2>2. Listing!Chosen' /\ Listing!ToMap' = {}
    BY <1>1, <1>2, <1>3, <2>1 DEF Listing!Chosen, Listing!Flagged, Listing!ToMap
  <2>3. Listing!Tallied({}, {}, 0, 0)'
    <3>1. Listing!Cardinality({}) = 0
      BY FS_EmptySet, SameNumber
    <3> QED BY <1>1, <3>1 DEF Listing!Tallied
  <2>4. {} \in SUBSET DOMAIN listed'
    OBVIOUS
  <2>5. Listing!TypeOK'
    BY <1>1, <2>1 DEF Listing!TypeOK, Listing!Labels
  <2>6. (\E A \in SUBSET DOMAIN listed : Listing!Tallied(A, {}, at, 0))'
    BY <1>1, <2>3, <2>4
  <2> QED BY <1>1, <2>1, <2>2, <2>5, <2>6 DEF Listing!IInv
<1>4. CASE Listing!ToMap # {}
  <2> DEFINE f == Listing!First(Listing!ToMap)
  <2>1. f \in Listing!ToMap
    <3>1. Listing!ToMap \in SUBSET Nat
      BY DEF Listing!ToMap, Listing!TypeOK
    <3> QED BY <1>4, <3>1, LeastNumber DEF Listing!First
  <2>2. shown' = [shown EXCEPT ![f] = Listing!IsActive(listed[f])] /\ listStep' = "map"
    BY <1>1, <1>4 DEF Listing!Map
  <2> HIDE DEF f
  <2>3. f \in DOMAIN shown /\ f \in DOMAIN listed /\ shown[f] = Null
    BY <2>1 DEF Listing!ToMap, Listing!TypeOK
  <2>4. Listing!IsActive(listed[f]) \in BOOLEAN /\ (Listing!IsActive(listed[f]) <=> f \in Listing!Active)
    BY <2>3 DEF Listing!IsActive, Listing!Active
  <2>5. /\ DOMAIN shown' = DOMAIN shown /\ shown' \in [DOMAIN shown -> BOOLEAN \cup {Null}]
        /\ shown'[f] = (f \in Listing!Active) /\ \A i \in DOMAIN shown \ {f} : shown'[i] = shown[i]
    BY <2>2, <2>3, <2>4 DEF Listing!TypeOK
  <2>6. Listing!Chosen'
    <3>1. \A i \in Listing!Active \cap DOMAIN shown : shown'[i] \in {TRUE, Null}
      BY <1>1, <2>5 DEF Listing!Chosen
    <3>2. active = FALSE => Listing!Flagged' = {}
      BY <1>1, <2>3, <2>5 DEF Listing!Chosen, Listing!Flagged
    <3> QED BY <1>1, <1>2, <2>5, <3>1, <3>2 DEF Listing!Chosen
  <2>7. Listing!TypeOK'
    BY <1>1, <2>2, <2>5 DEF Listing!TypeOK, Listing!Labels
  <2> QED BY <1>1, <2>2, <2>6, <2>7 DEF Listing!IInv
<1> QED BY <1>3, <1>4

\* The loops count positions one after the other.
LEMMA ListingLoop ==
  ASSUME Listing!TypeOK, Listing!IInv, listStep \in {"countActive", "countRevoked"},
         NEW next, Listing!Loop(Len(listed), next)
  PROVE  /\ Len(listed) \in Nat /\ at \in Nat /\ DOMAIN listed = 1..Len(listed)
         /\ IF at + 1 >= Len(listed) THEN at' = 0 /\ listStep' = next
                                     ELSE at' = at + 1 /\ listStep' = listStep /\ at' < Len(listed)
         /\ at < Len(listed) => at + 1 \in DOMAIN listed /\ 1..at + 1 = (1..at) \cup {at + 1}
         /\ at >= Len(listed) => Len(listed) = 0 /\ at = 0
         /\ at + 1 >= Len(listed) /\ at < Len(listed) => at + 1 = Len(listed)
<1>1. Len(listed) \in Nat /\ at \in Nat /\ DOMAIN listed = 1..Len(listed)
  BY DEF Listing!TypeOK
<1>2. at < Len(listed) \/ at = 0
  BY DEF Listing!IInv
<1>3. IF at + 1 >= Len(listed) THEN at' = 0 /\ listStep' = next
                               ELSE at' = at + 1 /\ listStep' = listStep
  BY DEF Listing!Loop
<1> DEFINE n == Len(listed)
<1> HIDE DEF n
<1>4. /\ ~ (at + 1 >= n) => at + 1 < n
      /\ at < n => at + 1 \in 1..n /\ 1..at + 1 = (1..at) \cup {at + 1}
      /\ at >= n => n = 0 /\ at = 0
      /\ at + 1 >= n /\ at < n => at + 1 = n
  <2>1. n \in Nat /\ at \in Nat /\ (at < n \/ at = 0)
    BY <1>1, <1>2 DEF n
  <2> QED BY <2>1
<1>5. IF at + 1 >= n THEN at' = 0 /\ listStep' = next
                     ELSE at' = at + 1 /\ listStep' = listStep /\ at' < n
  BY <1>3, <1>4 DEF n
<1> QED BY <1>1, <1>4, <1>5 DEF n

LEMMA ListingCountActive ==
  ASSUME Listing!TypeOK, Listing!IInv, Listing!CountActive
  PROVE  Listing!TypeOK' /\ Listing!IInv'
<1>0. Null \notin BOOLEAN
  BY PartsConstants DEF Listing!SessionListConstants
<1>n. PICK n \in Nat, i \in Nat, a \in Nat : n = Len(listed) /\ a = at /\ i = at + 1
  BY DEF Listing!TypeOK
<1>1. /\ listStep = "countActive" /\ Listing!Chosen /\ Listing!ToMap = {} /\ counts.revoked = 0
      /\ listClock' = listClock /\ active' = active /\ listed' = listed /\ shown' = shown
      /\ Listing!Loop(Len(listed), "countRevoked")
  BY DEF Listing!CountActive, Listing!IInv
<1>t. counts' = [counts EXCEPT !.active = counts.active + Listing!Tally(Listing!IsActive)]
  BY DEF Listing!CountActive
<1>2. /\ DOMAIN listed = 1..n
      /\ IF i >= n THEN at' = 0 /\ listStep' = "countRevoked"
                   ELSE at' = i /\ listStep' = "countActive" /\ i < n
      /\ a < n => i \in 1..n /\ 1..i = (1..a) \cup {i} /\ i \notin 1..a
      /\ a >= n => n = 0 /\ a = 0
      /\ i >= n /\ a < n => i = n
  BY <1>n, <1>1, ListingLoop
<1>3. PICK A \in SUBSET (1..n) : Listing!Tallied(A, {}, a, 0)
  BY <1>n, <1>1, <1>2 DEF Listing!IInv
<1>4. /\ counts.active = Listing!Cardinality(A) /\ A \subseteq 1..a
      /\ Listing!Active \cap 1..a \subseteq A
      /\ \A j \in A : ~ listed[j].revoked
      /\ active # FALSE => A \subseteq Listing!Flagged
  BY <1>3 DEF Listing!Tallied
<1>5. PICK B \in SUBSET (1..n) : B = A \cup (Listing!Active \cap {i})
  BY <1>2 DEF Listing!Active
<1>6. counts' = [counts EXCEPT !.active = Listing!Cardinality(B)]
  <2>0. counts.active \in Nat
    BY <1>3, <1>4, Positions
  <2> SUFFICES counts.active + Listing!Tally(Listing!IsActive) = Listing!Cardinality(B)
    BY <1>t
  <2>1. CASE a >= n
    <3>1. Listing!Tally(Listing!IsActive) = 0
      BY <1>n, <2>1 DEF Listing!Tally
    <3>2. i \notin 1..n
      BY <1>n, <1>2, <2>1
    <3>3. B = A
      BY <1>2, <1>5, <3>2 DEF Listing!Active
    <3> QED BY <1>4, <2>0, <3>1, <3>3
  <2>2. CASE a < n /\ i \notin Listing!Active
    <3>1. Listing!Tally(Listing!IsActive) = 0
      BY <1>n, <1>2, <2>2, RowTimes DEF Listing!Tally
    <3>2. B = A
      BY <1>5, <2>2
    <3> QED BY <1>4, <2>0, <3>1, <3>2
  <2>3. CASE a < n /\ i \in Listing!Active
    <3>1. Listing!Tally(Listing!IsActive) = 1
      BY <1>n, <1>2, <2>3, RowTimes DEF Listing!Tally
    <3>2. B = A \cup {i} /\ i \in (1..n) \ A
      BY <1>2, <1>4, <1>5, <2>3
    <3>3. Listing!Cardinality(B) = Listing!Cardinality(A) + 1
      BY <1>3, <3>2, Positions
    <3> QED BY <1>4, <3>1, <3>3
  <2> QED BY <2>1, <2>2, <2>3
<1>7. /\ counts' \in [active : 0..n, revoked : 0..n] /\ counts'.revoked = 0
      /\ counts'.active = Listing!Cardinality(B)
  <2>1. Listing!Cardinality(B) \in 0..n
    BY <1>5, Positions
  <2>2. counts \in [active : 0..n, revoked : 0..n]
    BY <1>n DEF Listing!TypeOK
  <2> QED BY <1>1, <1>6, <2>1, <2>2
<1>8. Listing!Active' = Listing!Active /\ Listing!Flagged' = Listing!Flagged
      /\ Listing!Chosen' /\ Listing!ToMap' = {}
  BY <1>1 DEF Listing!Active, Listing!IsActive, Listing!Flagged, Listing!Chosen, Listing!ToMap
<1>9. Listing!TypeOK'
  <2>1. at' \in 0..n /\ listStep' \in {"countActive", "countRevoked"}
    BY <1>2
  <2> QED BY <1>n, <1>1, <1>7, <2>1 DEF Listing!TypeOK, Listing!Labels
<1>10. ASSUME NEW m \in Nat, m = IF a < n THEN i ELSE 0
       PROVE  Listing!Tallied(B, {}, m, 0)'
  <2>1. B \subseteq 1..m /\ Listing!Active \cap 1..m \subseteq B
    <3>1. CASE a < n
      BY <1>2, <1>4, <1>5, <1>10, <3>1
    <3>2. CASE ~ (a < n)
      BY <1>2, <1>10, <3>2
    <3> QED BY <3>1, <3>2
  <2>2. \A j \in B : ~ listed[j].revoked
    BY <1>4, <1>5 DEF Listing!Active, Listing!IsActive
  <2>3. active # FALSE => B \subseteq Listing!Flagged
    BY <1>1, <1>4, <1>5 DEF Listing!Chosen, Listing!Flagged, Listing!ToMap
  <2>4. Listing!Cardinality({}) = 0
    BY FS_EmptySet, SameNumber
  <2>5. /\ counts'.active = Listing!Cardinality(B) /\ counts'.revoked = Listing!Cardinality({})
        /\ {} \subseteq 1..0 /\ (1..0) \ {} \subseteq B
    BY <1>7, <2>4
  <2>6. /\ Listing!Active' \cap 1..m \subseteq B
        /\ \A j \in B : ~ listed'[j].revoked
        /\ active' # FALSE => B \subseteq Listing!Flagged'
    BY <1>1, <1>8, <2>1, <2>2, <2>3
  <2> QED BY <2>1, <2>5, <2>6 DEF Listing!Tallied
<1>11. CASE listStep' = "countActive"
  <2>1. at' = i /\ a < n /\ i < n
    BY <1>2, <1>11
  <2>2. Listing!Tallied(B, {}, i, 0)' /\ B \in SUBSET DOMAIN listed'
    BY <1>1, <1>2, <1>10, <2>1
  <2>3. (\E X \in SUBSET DOMAIN listed : Listing!Tallied(X, {}, at, 0))'
    BY <2>1, <2>2
  <2> QED BY <1>n, <1>1, <1>7, <1>8, <1>9, <1>11, <2>1, <2>3 DEF Listing!IInv
<1>12. CASE listStep' = "countRevoked"
  <2>1. at' = 0 /\ n = IF a < n THEN i ELSE 0
    BY <1>2, <1>12
  <2>2. Listing!Tallied(B, {}, n, 0)'
    BY <1>10, <2>1
  <2>3. B \in SUBSET DOMAIN listed' /\ {} \in SUBSET DOMAIN listed' /\ Len(listed') = n
    BY <1>n, <1>1, <1>2
  <2>4. (\E X \in SUBSET DOMAIN listed : \E Y \in SUBSET DOMAIN listed :
           Listing!Tallied(X, Y, Len(listed), at))'
    BY <2>1, <2>2, <2>3
  <2> QED BY <1>n, <1>1, <1>7, <1>8, <1>9, <1>12, <2>1, <2>4 DEF Listing!IInv
<1> QED BY <1>2, <1>11, <1>12

LEMMA ListingCountRevoked ==
  ASSUME Listing!TypeOK, Listing!IInv, Listing!CountRevoked
  PROVE  Listing!TypeOK' /\ Listing!IInv'
<1>0. Null \notin BOOLEAN
  BY PartsConstants DEF Listing!SessionListConstants
<1>n. PICK n \in Nat, i \in Nat, a \in Nat : n = Len(listed) /\ a = at /\ i = at + 1
  BY DEF Listing!TypeOK
<1>1. /\ listStep = "countRevoked" /\ Listing!Chosen /\ Listing!ToMap = {}
      /\ listClock' = listClock /\ active' = active /\ listed' = listed /\ shown' = shown
      /\ Listing!Loop(Len(listed), "answered")
  BY DEF Listing!CountRevoked, Listing!IInv
<1>t. counts' = [counts EXCEPT !.revoked = counts.revoked + Listing!Tally(Listing!IsRevoked)]
  BY DEF Listing!CountRevoked
<1>2. /\ DOMAIN listed = 1..n
      /\ IF i >= n THEN at' = 0 /\ listStep' = "answered"
                   ELSE at' = i /\ listStep' = "countRevoked" /\ i < n
      /\ a < n => i \in 1..n /\ 1..i = (1..a) \cup {i} /\ i \notin 1..a
      /\ a >= n => n = 0 /\ a = 0
      /\ i >= n /\ a < n => i = n
  BY <1>n, <1>1, ListingLoop
<1>3. PICK A \in SUBSET (1..n) : \E R \in SUBSET (1..n) : Listing!Tallied(A, R, n, a)
  BY <1>n, <1>1, <1>2 DEF Listing!IInv
<1>r. PICK R \in SUBSET (1..n) : Listing!Tallied(A, R, n, a)
  BY <1>3
<1>4. /\ counts.active = Listing!Cardinality(A) /\ counts.revoked = Listing!Cardinality(R)
      /\ R \subseteq 1..a
      /\ Listing!Active \cap 1..n \subseteq A /\ (1..a) \ R \subseteq A
      /\ \A j \in A : ~ listed[j].revoked
      /\ \A j \in R : Listing!IsRevoked(listed[j])
      /\ active # FALSE => A \subseteq Listing!Flagged
  BY <1>r DEF Listing!Tallied
<1>5. PICK Q \in SUBSET (1..n) : Q = R \cup ({i} \cap ((1..n) \ Listing!Active))
  OBVIOUS
<1>6. counts' = [counts EXCEPT !.revoked = Listing!Cardinality(Q)]
  <2>0. counts.revoked \in Nat
    BY <1>r, <1>4, Positions
  <2> SUFFICES counts.revoked + Listing!Tally(Listing!IsRevoked) = Listing!Cardinality(Q)
    BY <1>t
  <2>1. CASE a >= n
    <3>1. Listing!Tally(Listing!IsRevoked) = 0
      BY <1>n, <2>1 DEF Listing!Tally
    <3>2. i \notin 1..n
      BY <1>n, <1>2, <2>1
    <3>3. Q = R
      BY <1>5, <3>2
    <3> QED BY <1>4, <2>0, <3>1, <3>3
  <2>2. CASE a < n /\ i \in Listing!Active
    <3>1. Listing!Tally(Listing!IsRevoked) = 0
      BY <1>n, <1>2, <2>2, RowTimes DEF Listing!Tally
    <3>2. Q = R
      BY <1>5, <2>2
    <3> QED BY <1>4, <2>0, <3>1, <3>2
  <2>3. CASE a < n /\ i \notin Listing!Active
    <3>1. Listing!Tally(Listing!IsRevoked) = 1
      BY <1>n, <1>2, <2>3, RowTimes DEF Listing!Tally
    <3>2. Q = R \cup {i} /\ i \in (1..n) \ R
      BY <1>2, <1>4, <1>5, <2>3
    <3>3. Listing!Cardinality(Q) = Listing!Cardinality(R) + 1
      BY <1>r, <3>2, Positions
    <3> QED BY <1>4, <3>1, <3>3
  <2> QED BY <2>1, <2>2, <2>3
<1>7. /\ counts' \in [active : 0..n, revoked : 0..n]
      /\ counts'.active = Listing!Cardinality(A) /\ counts'.revoked = Listing!Cardinality(Q)
  <2>1. Listing!Cardinality(Q) \in 0..n
    BY <1>5, Positions
  <2>2. counts \in [active : 0..n, revoked : 0..n]
    BY <1>n DEF Listing!TypeOK
  <2> QED BY <1>4, <1>6, <2>1, <2>2
<1>8. Listing!Active' = Listing!Active /\ Listing!Flagged' = Listing!Flagged
      /\ Listing!Chosen' /\ Listing!ToMap' = {}
  BY <1>1 DEF Listing!Active, Listing!IsActive, Listing!Flagged, Listing!Chosen, Listing!ToMap
<1>9. Listing!TypeOK'
  <2>1. at' \in 0..n /\ listStep' \in {"countRevoked", "answered"}
    BY <1>2
  <2> QED BY <1>n, <1>1, <1>7, <2>1 DEF Listing!TypeOK, Listing!Labels
<1>10. ASSUME NEW m \in Nat, m = IF a < n THEN i ELSE 0
       PROVE  Listing!Tallied(A, Q, n, m)'
  <2>1. Q \subseteq 1..m /\ (1..m) \ Q \subseteq A
    <3>1. CASE a < n
      BY <1>2, <1>4, <1>5, <1>10, <3>1
    <3>2. CASE ~ (a < n)
      BY <1>2, <1>10, <3>2
    <3> QED BY <3>1, <3>2
  <2>2. \A j \in Q : Listing!IsRevoked(listed[j])
    BY <1>2, <1>4, <1>5, RowTimes
  <2>3. \A j \in Q : Listing!IsRevoked(listed[j])'
    BY <1>1, <2>2 DEF Listing!IsRevoked
  <2>4. /\ A \subseteq 1..n
        /\ Listing!Active' \cap 1..n \subseteq A
        /\ \A j \in A : ~ listed'[j].revoked
        /\ active' # FALSE => A \subseteq Listing!Flagged'
    BY <1>1, <1>4, <1>8
  <2> QED BY <1>7, <2>1, <2>3, <2>4 DEF Listing!Tallied
<1>11. A \in SUBSET DOMAIN listed' /\ Q \in SUBSET DOMAIN listed' /\ Len(listed') = n
  BY <1>n, <1>1, <1>2
<1>12. CASE listStep' = "countRevoked"
  <2>1. at' = i /\ a < n /\ i < n
    BY <1>2, <1>12
  <2>2. Listing!Tallied(A, Q, n, i)'
    BY <1>10, <2>1
  <2>3. (\E X \in SUBSET DOMAIN listed : \E Y \in SUBSET DOMAIN listed :
           Listing!Tallied(X, Y, Len(listed), at))'
    BY <1>11, <2>1, <2>2
  <2> QED BY <1>n, <1>1, <1>8, <1>9, <1>12, <2>1, <2>3 DEF Listing!IInv
<1>13. CASE listStep' = "answered"
  <2>1. at' = 0 /\ n = IF a < n THEN i ELSE 0
    BY <1>2, <1>13
  <2>2. Listing!Tallied(A, Q, n, n)'
    BY <1>10, <2>1
  <2>3. (\E X \in SUBSET DOMAIN listed : \E Y \in SUBSET DOMAIN listed :
           Listing!Tallied(X, Y, Len(listed), Len(listed)))'
    BY <1>11, <2>2
  <2> QED BY <1>1, <1>8, <1>9, <1>13, <2>1, <2>3 DEF Listing!IInv
<1> QED BY <1>2, <1>12, <1>13

LEMMA ListingCoheres ==
  ASSUME Listing!TypeOK, Listing!IInv
  PROVE  ListCoherent
<1>1. active = FALSE => Listing!Flagged = {}
  <2>1. CASE listStep \in {"idle", "refused", "find", "filter"}
    <3>1. shown = << >>
      BY <2>1 DEF Listing!IInv
    <3> QED BY <3>1 DEF Listing!Flagged
  <2>2. CASE listStep \notin {"idle", "refused", "find", "filter"}
    BY <2>2 DEF Listing!IInv, Listing!Chosen
  <2> QED BY <2>1, <2>2
<1>2. ASSUME listStep = "answered"
      PROVE  /\ counts.active + counts.revoked >= Len(listed)
             /\ counts.active + counts.revoked <= Len(listed) + Listing!Cardinality(Listing!Expired)
             /\ active # FALSE => counts.active <= Listing!Cardinality(Listing!Flagged)
  <2>n. PICK n \in Nat : n = Len(listed) /\ DOMAIN listed = 1..n
    BY DEF Listing!TypeOK
  <2>1. PICK A \in SUBSET (1..n) : \E R \in SUBSET (1..n) : Listing!Tallied(A, R, n, n)
    BY <1>2, <2>n DEF Listing!IInv
  <2>2. PICK R \in SUBSET (1..n) : Listing!Tallied(A, R, n, n)
    BY <2>1
  <2>3. /\ counts.active = Listing!Cardinality(A) /\ counts.revoked = Listing!Cardinality(R)
        /\ A \cup R = 1..n
        /\ \A j \in A : ~ listed[j].revoked
        /\ \A j \in R : Listing!IsRevoked(listed[j])
        /\ active # FALSE => A \subseteq Listing!Flagged
    BY <2>2 DEF Listing!Tallied
  <2>4. A \cap R \subseteq Listing!Expired
    BY <2>n, <2>3, RowTimes DEF Listing!Expired
  <2>5. Listing!Expired \in SUBSET (1..n) /\ Listing!Flagged \in SUBSET (1..n)
    BY <2>n DEF Listing!Expired, Listing!Flagged, Listing!TypeOK
  <2>6. Listing!Cardinality(A \cap R) \in 0..Listing!Cardinality(Listing!Expired)
    BY <2>4, <2>5, Positions
  <2>7. counts.active + counts.revoked = n + Listing!Cardinality(A \cap R)
    BY <2>3, Overlap
  <2>8. Listing!Cardinality(Listing!Expired) \in Nat /\ Listing!Cardinality(Listing!Flagged) \in Nat
    BY <2>5, Positions
  <2>9. active # FALSE => Listing!Cardinality(A) \in 0..Listing!Cardinality(Listing!Flagged)
    BY <2>3, <2>5, Positions
  <2>10. counts.active \in Nat /\ counts.revoked \in Nat
    BY <2>3, Positions
  <2>11. counts.active + counts.revoked >= n
    BY <2>6, <2>7, <2>8
  <2>12. counts.active + counts.revoked <= n + Listing!Cardinality(Listing!Expired)
    BY <2>6, <2>7, <2>8
  <2>13. active # FALSE => counts.active <= Listing!Cardinality(Listing!Flagged)
    BY <2>3, <2>8, <2>9
  <2> QED BY <2>n, <2>11, <2>12, <2>13
<1> QED BY <1>1, <1>2 DEF ListCoherent, Listing!ListCoherent

\* The list of sessions in a behaviour of all parts behaves as SessionList says.
LEMMA ListingAlone == Spec => Listing!Spec
<1>1. Init => Listing!Init
  BY DEF Init
<1>2. [Next]_vars => [Listing!Next]_(Listing!vars)
  BY DEF Next, SessionStep, AccountStep, ListingStep, KeyListStep, HistoryStep, ProcessStep,
     DecimalStep, CheckStep, ClientStep, vars, userVars, listingVars, Listing!vars
<1> QED BY <1>1, <1>2, PTL DEF Spec, Listing!Spec

\* A list of sessions is coherent for any number of sessions, though every element
\* and every round of its counts looks at the clock again.
THEOREM SessionsListed == Spec => []ListCoherent
<1>1. Listing!TypeOK /\ Listing!IInv /\ UNCHANGED Listing!vars => (Listing!TypeOK /\ Listing!IInv)'
  <2> SUFFICES ASSUME Listing!TypeOK, Listing!IInv, UNCHANGED Listing!vars
               PROVE  (Listing!TypeOK /\ Listing!IInv)'
    OBVIOUS
  <2>1. /\ listClock' = listClock /\ listStep' = listStep /\ active' = active /\ listed' = listed
        /\ shown' = shown /\ counts' = counts /\ at' = at
    BY DEF Listing!vars
  <2>2. Listing!TypeOK'
    BY <2>1 DEF Listing!TypeOK
  <2>3. /\ Listing!Active' = Listing!Active /\ Listing!Flagged' = Listing!Flagged
        /\ Listing!ToMap' = Listing!ToMap
    BY <2>1 DEF Listing!Active, Listing!IsActive, Listing!Flagged, Listing!ToMap
  <2>4. Listing!Chosen => Listing!Chosen'
    BY <2>1, <2>3 DEF Listing!Chosen
  <2>5. ASSUME NEW A, NEW R, NEW m, NEW n, Listing!Tallied(A, R, m, n)
        PROVE  Listing!Tallied(A, R, m, n)'
    BY <2>1, <2>3, <2>5 DEF Listing!Tallied, Listing!IsRevoked
  <2>6. {} \in SUBSET DOMAIN listed
    OBVIOUS
  <2> QED BY <2>1, <2>2, <2>3, <2>4, <2>5, <2>6 DEF Listing!IInv
<1>2. Listing!TypeOK /\ Listing!IInv /\ [Listing!Next]_(Listing!vars)
        => (Listing!TypeOK /\ Listing!IInv)'
  BY <1>1, ListingTick, ListingStart, ListingMap, ListingCountActive, ListingCountRevoked
     DEF Listing!Next
<1>3. Listing!TypeOK /\ Listing!IInv => ListCoherent
  BY ListingCoheres
<1> QED BY <1>2, <1>3, ListingInit, ListingAlone, PTL DEF Listing!Spec
-----------------------------------------------------------------------------
(* The list of API keys.                                                    *)

\* Any positions in a list have a number, and a part of them no larger one.
LEMMA KeyPositions ==
  ASSUME NEW n \in Nat, NEW S \in SUBSET (1..n), NEW T \in SUBSET S
  PROVE  /\ KeyList!Cardinality(T) \in Nat /\ KeyList!Cardinality(S) \in Nat
         /\ KeyList!Cardinality(T) <= KeyList!Cardinality(S) /\ KeyList!Cardinality(S) <= n
         /\ KeyList!Cardinality(1..n) = n
<1>1. IsFiniteSet(1..n) /\ Cardinality(1..n) = n
  BY FS_Interval
<1>2. /\ IsFiniteSet(S) /\ Cardinality(S) <= Cardinality(1..n)
      /\ IsFiniteSet(T) /\ Cardinality(T) <= Cardinality(S)
  BY <1>1, FS_Subset
<1>3. Cardinality(S) \in Nat /\ Cardinality(T) \in Nat
  BY <1>2, FS_CardinalityType
<1>4. /\ KeyList!Cardinality(S) = Cardinality(S) /\ KeyList!Cardinality(T) = Cardinality(T)
      /\ KeyList!Cardinality(1..n) = Cardinality(1..n)
  BY DEF KeyList!Cardinality, Cardinality
<1> QED BY <1>1, <1>2, <1>3, <1>4

\* Two parts without a common position are together no more than the list.
LEMMA KeysApart ==
  ASSUME NEW n \in Nat, NEW S \in SUBSET (1..n), NEW T \in SUBSET (1..n), S \cap T = {}
  PROVE  KeyList!Cardinality(S) + KeyList!Cardinality(T) <= n
<1>1. IsFiniteSet(1..n) /\ Cardinality(1..n) = n
  BY FS_Interval
<1>2. IsFiniteSet(S) /\ IsFiniteSet(T)
  BY <1>1, FS_Subset
<1>3. Cardinality(S \cup T) = Cardinality(S) + Cardinality(T)
  <2>1. Cardinality(S \cup T) = Cardinality(S) + Cardinality(T) - Cardinality(S \cap T)
    BY <1>2, FS_Union
  <2>2. Cardinality(S) \in Nat /\ Cardinality(T) \in Nat /\ Cardinality(S \cap T) = 0
    BY <1>2, FS_CardinalityType, FS_EmptySet
  <2> QED BY <2>1, <2>2
<1>4. Cardinality(S \cup T) <= n
  <2>1. S \cup T \in SUBSET (1..n)
    OBVIOUS
  <2> QED BY <1>1, <2>1, FS_Subset
<1>5. KeyList!Cardinality(S) = Cardinality(S) /\ KeyList!Cardinality(T) = Cardinality(T)
  BY DEF KeyList!Cardinality, Cardinality
<1> QED BY <1>3, <1>4, <1>5

LEMMA KeyListInit == KeyList!Init => KeyList!TypeOK /\ KeyList!IInv
BY PartsConstants DEF KeyList!ApiKeyListConstants, KeyList!Init, KeyList!TypeOK, KeyList!IInv,
   KeyList!Texts, KeyList!Meta

\* A key that is active at one look was active at every earlier one.
LEMMA KeysExpire ==
  ASSUME KeyList!TypeOK, keys' = keys, keyClock' \in Int, keyClock <= keyClock'
  PROVE  KeyList!Active' \subseteq KeyList!Active
<1>1. keyClock \in Int
  BY DEF KeyList!TypeOK
<1>2. ASSUME NEW i \in DOMAIN keys
      PROVE  keys[i].expiresAt = Null \/ keys[i].expiresAt \in Int
  <2>1. keys[i] \in KeyList!Key
    BY <1>2 DEF KeyList!TypeOK
  <2> QED BY <2>1 DEF KeyList!Key
<1>3. ASSUME NEW i \in DOMAIN keys, KeyList!IsActive(keys[i])'
      PROVE  KeyList!IsActive(keys[i])
  BY <1>1, <1>2, <1>3 DEF KeyList!IsActive
<1> QED BY <1>3 DEF KeyList!Active

LEMMA KeyListStepInv ==
  ASSUME KeyList!TypeOK, KeyList!IInv, KeyList!Next
  PROVE  KeyList!TypeOK' /\ KeyList!IInv'
<1>0. /\ MaxRows \in Nat \ {0} /\ MaxKeys \in Nat \ {0} /\ MaxTime \in Nat
      /\ Null \notin 0..MaxTime + 1 /\ Null \notin BOOLEAN
  BY PartsConstants DEF KeyList!ApiKeyListConstants
<1> DEFINE n == Len(keys)
<1>a. n \in Nat /\ DOMAIN keys = 1..n /\ n <= MaxRows
  BY <1>0 DEF KeyList!TypeOK
<1>1. CASE KeyList!Tick
  <2>0. /\ keyClock \in Int /\ keyClock' \in 0..MaxTime /\ keyClock <= keyClock'
        /\ keyText' = keyText /\ keyActive' = keyActive /\ keyStep' = keyStep /\ keys' = keys
        /\ kept' = kept /\ meta' = meta /\ keyShown' = keyShown
    BY <1>0, <1>1 DEF KeyList!TypeOK, KeyList!Tick
  <2>1. KeyList!TypeOK'
    BY <2>0 DEF KeyList!TypeOK
  <2>2. KeyList!Active' \subseteq KeyList!Active /\ keys' = keys /\ keyActive' = keyActive
    BY <1>0, <2>0, KeysExpire
  <2>3. keyStep = "count" => KeyList!Chosen(KeyList!Active)'
    BY <1>1, <2>2 DEF KeyList!Chosen, KeyList!IInv, KeyList!Tick
  <2>4. KeyList!Counted => KeyList!Counted'
    BY <1>1, <2>2 DEF KeyList!Counted, KeyList!Chosen, KeyList!Tick
  <2> QED BY <1>1, <2>1, <2>3, <2>4 DEF KeyList!IInv, KeyList!Tick
<1>2. CASE KeyList!Receive
  <2>1. keyActive' \in {TRUE, FALSE, Null} /\ keyStep' \in {"refused", "find"}
    BY <1>2 DEF KeyList!Receive
  <2> QED BY <1>2, <2>1 DEF KeyList!TypeOK, KeyList!IInv, KeyList!Receive
<1>3. CASE KeyList!Find
  <2>1. keys' \in Seq(KeyList!Key) /\ Len(keys') <= MaxRows
    BY <1>0, <1>3 DEF KeyList!Find
  <2>2. keys = << >> /\ kept = {} /\ keyShown = << >> /\ meta.active = 0
    BY <1>3 DEF KeyList!IInv, KeyList!Find, KeyList!TypeOK
  <2> QED BY <1>3, <2>1, <2>2 DEF KeyList!TypeOK, KeyList!IInv, KeyList!Find
<1>4. CASE KeyList!Filter
  <2>1. KeyList!Chosen(KeyList!Active)'
    BY <1>0, <1>4 DEF KeyList!TypeOK, KeyList!Filter, KeyList!Keeps, KeyList!Active,
       KeyList!Chosen, KeyList!IsActive
  <2>2. kept' \subseteq DOMAIN keys /\ keyShown = << >>
    BY <1>4 DEF KeyList!Filter, KeyList!IInv
  <2>3. KeyList!TypeOK'
    <3>1. /\ keyClock' = keyClock /\ keyText' = keyText /\ keyActive' = keyActive /\ keys' = keys
          /\ meta' = meta /\ keyStep' = "count"
      BY <1>4 DEF KeyList!Filter
    <3>2. keyShown' = << >> /\ DOMAIN keyShown' = {} /\ keyShown' \in [{} -> BOOLEAN]
      BY <1>4, <2>2 DEF KeyList!Filter
    <3> QED BY <2>2, <3>1, <3>2 DEF KeyList!TypeOK
  <2>4. keyStep' = "count" /\ keyShown' = << >> /\ meta'.active = 0
    BY <1>4, <2>2 DEF KeyList!IInv, KeyList!Filter
  <2> QED BY <2>1, <2>3, <2>4 DEF KeyList!IInv
<1>5. CASE KeyList!Count
  <2> DEFINE m == KeyList!Cardinality(KeyList!Active)
             k == KeyList!Cardinality(kept)
  <2>1. m \in 0..n /\ k \in 0..n
    BY <1>a, KeyPositions DEF KeyList!Active, KeyList!TypeOK
  <2>2. meta' = [meta EXCEPT !.active = m, !.revoked = n - m, !.total = k] /\ keyShown = << >>
    BY <1>5 DEF KeyList!Count, KeyList!ActiveCount, KeyList!IInv
  <2>3. meta' \in KeyList!Meta /\ meta'.active = m /\ meta'.revoked = n - m /\ meta'.total = k
    <3> HIDE DEF m, k, n
    <3>1. meta \in [total : 0..MaxRows, active : 0..MaxRows, revoked : 0..MaxRows, limit : {MaxKeys}]
      BY DEF KeyList!TypeOK, KeyList!Meta
    <3>2. m \in 0..MaxRows /\ n - m \in 0..MaxRows /\ k \in 0..MaxRows
      BY <1>0, <1>a, <2>1
    <3> QED BY <2>2, <3>1, <3>2 DEF KeyList!Meta
  <2>4. KeyList!Counted'
    <3>1. KeyList!Chosen(KeyList!Active)' /\ KeyList!Active' = KeyList!Active
      BY <1>5 DEF KeyList!Count, KeyList!IInv, KeyList!Chosen, KeyList!Active, KeyList!IsActive
    <3>2. KeyList!Active \in SUBSET DOMAIN keys
      BY DEF KeyList!Active
    <3> QED BY <1>5, <2>2, <2>3, <3>1, <3>2 DEF KeyList!Counted, KeyList!Count, KeyList!Chosen
  <2> QED BY <1>5, <2>2, <2>3, <2>4 DEF KeyList!TypeOK, KeyList!IInv, KeyList!Count
<1>6. CASE KeyList!Show
  <2>1. CASE KeyList!ToShow = {}
    BY <1>6, <2>1 DEF KeyList!TypeOK, KeyList!IInv, KeyList!Show, KeyList!Counted, KeyList!Chosen,
       KeyList!Active, KeyList!IsActive
  <2>2. CASE KeyList!ToShow # {}
    <3> DEFINE f == KeyList!First(KeyList!ToShow)
    <3>1. f \in KeyList!ToShow
      <4>1. KeyList!ToShow \in SUBSET Nat
        BY <1>a DEF KeyList!ToShow, KeyList!TypeOK
      <4> QED BY <2>2, <4>1, LeastNumber DEF KeyList!First
    <3>2. f \in kept \ DOMAIN keyShown
      BY <3>1 DEF KeyList!ToShow
    <3>3. /\ keyShown' = [i \in DOMAIN keyShown \cup {f} |->
                            IF i \in DOMAIN keyShown THEN keyShown[i] ELSE KeyList!IsActive(keys[i])]
          /\ UNCHANGED <<keyClock, keyText, keyActive, keys, kept, meta, keyStep>>
      BY <1>6, <2>2 DEF KeyList!Show
    <3> HIDE DEF f
    <3>4. /\ DOMAIN keyShown' = DOMAIN keyShown \cup {f}
          /\ keyShown' \in [DOMAIN keyShown' -> BOOLEAN]
          /\ \A i \in DOMAIN keyShown : keyShown'[i] = keyShown[i]
          /\ keyShown'[f] <=> KeyList!IsActive(keys[f])
      BY <3>2, <3>3 DEF KeyList!TypeOK, KeyList!IsActive
    <3>5. keyShown'[f] => f \in KeyList!Active
      BY <3>2, <3>4 DEF KeyList!Active, KeyList!TypeOK
    <3>6. KeyList!Counted'
      <4>1. KeyList!Counted
        BY <1>6 DEF KeyList!Show, KeyList!IInv
      <4>2. KeyList!Active' = KeyList!Active
        BY <3>3 DEF KeyList!Active, KeyList!IsActive
      <4> QED BY <3>3, <3>4, <3>5, <4>1, <4>2 DEF KeyList!Counted, KeyList!Chosen
    <3> QED BY <1>6, <3>2, <3>3, <3>4, <3>6 DEF KeyList!TypeOK, KeyList!IInv, KeyList!Show
  <2> QED BY <2>1, <2>2
<1> QED BY <1>1, <1>2, <1>3, <1>4, <1>5, <1>6 DEF KeyList!Next

LEMMA KeyListCoheres ==
  ASSUME KeyList!TypeOK, KeyList!IInv
  PROVE  KeyListCoherent
<1> DEFINE n == Len(keys)
           F == {i \in DOMAIN keyShown : keyShown[i]}
<1>a. n \in Nat /\ DOMAIN keys = 1..n
  BY DEF KeyList!TypeOK
<1>1. CASE keyStep \notin {"show", "answered"}
  <2>1. keyShown = << >> /\ meta.active = 0
    BY <1>1 DEF KeyList!IInv
  <2>2. F = {}
    BY <2>1
  <2>3. KeyList!Cardinality({}) = 0
    BY FS_EmptySet DEF KeyList!Cardinality, Cardinality
  <2> QED BY <1>1, <2>1, <2>2, <2>3 DEF KeyListCoherent, KeyList!KeyListCoherent, KeyList!Flagged
<1>2. CASE keyStep \in {"show", "answered"}
  <2>1. PICK W \in SUBSET DOMAIN keys :
          /\ KeyList!Active \subseteq W /\ KeyList!Chosen(W)
          /\ meta.active = KeyList!Cardinality(W) /\ meta.revoked = n - KeyList!Cardinality(W)
          /\ meta.total = KeyList!Cardinality(kept)
          /\ \A i \in DOMAIN keyShown : keyShown[i] => i \in W
    BY <1>2 DEF KeyList!IInv, KeyList!Counted
  <2>2. /\ KeyList!Cardinality(W) \in Nat /\ KeyList!Cardinality(kept) \in Nat
        /\ KeyList!Cardinality(W) <= n
    BY <1>a, KeyPositions DEF KeyList!TypeOK
  <2>3. keyActive = TRUE => meta.active <= meta.total
    BY <1>a, <2>1, KeyPositions DEF KeyList!TypeOK, KeyList!Chosen
  <2>4. keyActive = FALSE => meta.total <= meta.revoked
    <3>1. keyActive = FALSE => KeyList!Cardinality(W) + KeyList!Cardinality(kept) <= n
      BY <1>a, <2>1, KeysApart DEF KeyList!TypeOK, KeyList!Chosen
    <3> QED BY <1>a, <2>1, <2>2, <3>1
  <2>5. keyActive = Null => meta.total = n
    BY <1>a, <2>1, KeyPositions DEF KeyList!Chosen
  <2>6. KeyList!Cardinality(F) <= meta.active
    <3>1. F \in SUBSET W
      BY <2>1
    <3> HIDE DEF F
    <3> QED BY <1>a, <2>1, <3>1, KeyPositions
  <2>7. keyActive = FALSE => KeyList!Cardinality(F) = 0
    <3>1. keyActive = FALSE => F = {}
      BY <2>1 DEF KeyList!TypeOK, KeyList!Chosen
    <3> QED BY <3>1, FS_EmptySet DEF KeyList!Cardinality, Cardinality
  <2> QED BY <1>a, <2>1, <2>2, <2>3, <2>4, <2>5, <2>6, <2>7
          DEF KeyListCoherent, KeyList!KeyListCoherent, KeyList!Flagged
<1> QED BY <1>1, <1>2

\* The list of keys in a behaviour of all parts behaves as ApiKeyList says.
LEMMA KeyListAlone == Spec => KeyList!Spec
<1>1. Init => KeyList!Init
  BY DEF Init, Inputs, Choice
<1>2. [Next]_vars => [KeyList!Next]_(KeyList!vars)
  BY DEF Next, SessionStep, AccountStep, ListingStep, KeyListStep, HistoryStep, ProcessStep,
     DecimalStep, CheckStep, ClientStep, vars, userVars, keyListVars, KeyList!vars
<1> QED BY <1>1, <1>2, PTL DEF Spec, KeyList!Spec

\* A list of API keys is coherent for any number of keys, though its filter, its
\* counts and its elements look at the clock at different times.
THEOREM KeysListed == Spec => []KeyListCoherent
<1>1. KeyList!TypeOK /\ KeyList!IInv /\ UNCHANGED KeyList!vars => (KeyList!TypeOK /\ KeyList!IInv)'
  BY DEF KeyList!vars, KeyList!TypeOK, KeyList!IInv, KeyList!Counted, KeyList!Chosen,
     KeyList!Active, KeyList!IsActive
<1>2. KeyList!TypeOK /\ KeyList!IInv /\ [KeyList!Next]_(KeyList!vars)
        => (KeyList!TypeOK /\ KeyList!IInv)'
  BY <1>1, KeyListStepInv
<1>3. KeyList!TypeOK /\ KeyList!IInv => KeyListCoherent
  BY KeyListCoheres
<1> QED BY <1>2, <1>3, KeyListInit, KeyListAlone, PTL DEF KeyList!Spec
=============================================================================
