------------------------------- MODULE Sessions -------------------------------
(***************************************************************************)
(* Sessions of one user in the user service, query by query: requests that  *)
(* create a session, and callers of the repository's revoke and revokeAll.  *)
(* There is no transaction: every query sees what others committed          *)
(* meanwhile.  No code under src calls the two revocations yet; the model   *)
(* calls them as their interface allows.                                    *)
(***************************************************************************)
CONSTANTS Creators,  \* requests that create a session, each of its own id
          Revokers,  \* calls of revoke or revokeAll
          Jtis,      \* accessTokenJti values clients choose
          Null

VARIABLES rows,      \* the sessions table by id (the id of its creator), or Null
          auditLog,  \* sessions with a record SESSION_CREATED
          job,       \* what each request asks for
          pc,        \* the query it issues next
          before     \* history: the sessions there were when a revokeAll was asked for

vars == <<rows, auditLog, job, pc, before>>

Handlers == Creators \cup Revokers

Row == [jti : Jtis, revoked : BOOLEAN]
Create == [op : {"create"}, jti : Jtis]
Revocation == [op : {"revoke"}, id : Creators] \cup [op : {"revokeAll"}, except : Creators \cup {Null}]

\* What a module that instantiates this one assumes of the constants.
SessionsConstants ==
  /\ Creators \cap Revokers = {}
  /\ Null \notin Creators /\ Null \notin Row /\ Null \notin Revocation

Init ==
  /\ rows = [s \in Creators |-> Null] /\ auditLog = {}
  /\ job = [r \in Handlers |-> Null]
  /\ pc = [r \in Handlers |-> "idle"]
  /\ before = [r \in Revokers |-> {}]

Stored    == {s \in Creators : rows[s] # Null}
Unrevoked == {s \in Stored : ~ rows[s].revoked}

Goto(r, label) == pc' = [pc EXCEPT ![r] = label]

\* createSession up to the hash of the refresh token: expiresAt must be a date
\* that lies ahead.
CreateCheck(r) ==
  /\ pc[r] = "idle"
  /\ \E j \in Create, expiresAt \in {"invalid", "past", "ahead"} :
       /\ job' = [job EXCEPT ![r] = j]
       /\ Goto(r, IF expiresAt = "ahead" THEN "insert" ELSE "refused")
  /\ UNCHANGED <<rows, auditLog, before>>

\* accessTokenJti is unique.
JtiFree(jti) == \A s \in Stored : rows[s].jti # jti

\* sessionRepository.create.
InsertRow(r) == rows' = [rows EXCEPT ![r] = [jti |-> job[r].jti, revoked |-> FALSE]]

\* fireAuditLog: the record is inserted in the background, or the error logged.
Fire(s) == auditLog' \in {auditLog, auditLog \cup {s}}

\* The row is inserted, the audit record fired and the session answered.
CreateInsert(r) ==
  /\ pc[r] = "insert"
  /\ IF JtiFree(job[r].jti)
     THEN InsertRow(r) /\ Fire(r) /\ Goto(r, "created")
     ELSE Goto(r, "failed") /\ UNCHANGED <<rows, auditLog>>
  /\ UNCHANGED <<job, before>>
-----------------------------------------------------------------------------
(* session.repository.ts: revoke and revokeAll. *)

Ask(r) ==
  /\ pc[r] = "idle"
  /\ \E j \in Revocation :
       /\ job' = [job EXCEPT ![r] = j]
       /\ Goto(r, IF j.op = "revoke" THEN "find" ELSE "updateAll")
  /\ before' = [before EXCEPT ![r] = Stored]
  /\ UNCHANGED <<rows, auditLog>>

\* findFirst of the unrevoked row.
RevokeFind(r) ==
  /\ pc[r] = "find"
  /\ Goto(r, IF job[r].id \in Unrevoked THEN "update" ELSE "notFound")
  /\ UNCHANGED <<rows, auditLog, job, before>>

Revoked(S) == [s \in Creators |-> IF s \in S THEN [rows[s] EXCEPT !.revoked = TRUE] ELSE rows[s]]

\* update by id alone: a row revoked meanwhile is revoked again, at a later time.
RevokeUpdate(r) ==
  /\ pc[r] = "update"
  /\ rows' = Revoked({job[r].id})
  /\ Goto(r, "revoked")
  /\ UNCHANGED <<auditLog, job, before>>

\* Mutant: the exception is what is revoked.
MeansOnly(r) == Unrevoked \cap {job[r].except}

\* The rows of the updateMany: those not revoked, but for exceptSessionId.
Means(r) == Unrevoked \ {job[r].except}

RevokeAllUpdate(r) ==
  /\ pc[r] = "updateAll"
  /\ rows' = Revoked(Means(r))
  /\ Goto(r, "revokedAll")
  /\ UNCHANGED <<auditLog, job, before>>

\* A query fails without effect, or the service dies before it.
Fail(r) ==
  /\ pc[r] \in {"insert", "find", "update", "updateAll"}
  /\ Goto(r, "failed")
  /\ UNCHANGED <<rows, auditLog, job, before>>

\* The query takes effect, but its reply is lost: Prisma rejects, the handler throws,
\* and no audit record is fired.
ReplyLost(r) ==
  /\ \/ pc[r] = "insert" /\ JtiFree(job[r].jti) /\ InsertRow(r)
     \/ pc[r] = "update" /\ rows' = Revoked({job[r].id})
     \/ pc[r] = "updateAll" /\ rows' = Revoked(Means(r))
  /\ Goto(r, "failed")
  /\ UNCHANGED <<auditLog, job, before>>

Next ==
  \/ \E r \in Creators : CreateCheck(r) \/ CreateInsert(r)
  \/ \E r \in Revokers : Ask(r) \/ RevokeFind(r) \/ RevokeUpdate(r) \/ RevokeAllUpdate(r)
  \/ \E r \in Handlers : Fail(r) \/ ReplyLost(r)

Spec == Init /\ [][Next]_vars
-----------------------------------------------------------------------------
(* Properties. *)

\* Every variable has its type.
TypeOK ==
  /\ rows \in [Creators -> Row \cup {Null}] /\ auditLog \subseteq Creators
  /\ job \in [Handlers -> Create \cup Revocation \cup {Null}]
  /\ pc \in [Handlers -> {"idle", "refused", "insert", "created", "failed", "find", "notFound",
                          "update", "revoked", "updateAll", "revokedAll"}]
  /\ before \in [Revokers -> SUBSET Creators]

\* A revocation that was asked for covers session s.
Covers(r, s) ==
  /\ job[r] # Null
  /\ IF job[r].op = "revoke" THEN job[r].id = s ELSE job[r].except # s

\* The table and the log tell what the callers were told, however revocations
\* race and whichever replies are lost: a session is revoked only if somebody asked
\* for that, a revocation that succeeded left its session revoked, and one of all
\* sessions left revoked every one there was when it was asked for, but the exempt
\* one; a session that was answered is there, one that was refused is not, and the
\* audit log tells only of those answered.  A creation that failed may have left its
\* session there, active and unknown to its client.
RevokedAsAsked ==
  /\ \A s \in Stored \ Unrevoked : \E r \in Revokers : Covers(r, s)
  /\ \A r \in Revokers : pc[r] = "revoked" => job[r].id \in Stored \ Unrevoked
  /\ \A r \in Revokers : pc[r] = "revokedAll" =>
       before[r] \ {job[r].except} \subseteq Stored \ Unrevoked
  /\ \A s \in Creators : /\ pc[s] = "created" => s \in Stored
                         /\ s \in Stored => pc[s] \in {"created", "failed"}
                         /\ s \in auditLog => pc[s] = "created"
-----------------------------------------------------------------------------
(* The inductive invariant behind the theorem about revocations.            *)

\* What each query may rely on: a request keeps to its branch, nobody else asks
\* for anything in its name, and the row a revocation found does not go away.
JobInv ==
  /\ \A s \in Creators : /\ pc[s] \in {"idle", "refused", "insert", "created", "failed"}
                         /\ pc[s] = "insert" => job[s] \in Create
  /\ \A r \in Revokers :
       /\ pc[r] \notin {"refused", "insert", "created"}
       /\ IF pc[r] = "idle" THEN job[r] = Null ELSE job[r] \in Revocation
       /\ pc[r] \in {"find", "update", "revoked"} => job[r].op = "revoke"
       /\ pc[r] \in {"updateAll", "revokedAll"} => job[r].op = "revokeAll"
       /\ pc[r] = "update" => job[r].id \in Stored
       /\ before[r] \subseteq Stored

IInv == JobInv /\ RevokedAsAsked
=============================================================================
