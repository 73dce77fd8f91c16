------------------------------- MODULE ApiKeys -------------------------------
(***************************************************************************)
(* API keys of one user in the user service: requests that create a key,    *)
(* revoke one or revoke all, at the grain of their awaits.  There is no     *)
(* transaction: every query sees what other requests committed meanwhile.   *)
(* Audit records are written in the background and may fail.                *)
(***************************************************************************)
EXTENDS Integers, FiniteSets

CONSTANTS Requests,     \* requests to the controller, each handled once
          KeyIds,       \* uuids of api_keys rows
          Prefixes,     \* what keyPrefix may be drawn from
          MaxKeys,      \* MAX_KEYS_PER_USER
          MaxAttempts,  \* MAX_PREFIX_ATTEMPTS
          MinAhead,     \* the minute an expiry must lie ahead
          MaxTime,      \* bound: the last value of the clock
          Concurrency,  \* requests in progress at once
          Null          \* absent

Times == 1..(MaxTime + MinAhead + 1)
Row   == [prefix : Prefixes, expiresAt : Times \cup {Null}, revokedAt : Times \cup {Null}]
Job   == [op : {"create", "revoke", "revokeAll"},
          key : KeyIds \cup {Null}, expiresAt : Times \cup {Null}]
Audit == [action : {"CREATED", "REVOKED", "REVOKED_ALL"}, by : Requests, key : KeyIds \cup {Null}]

ASSUME ApiKeysConstants ==
  /\ IsFiniteSet(Requests) /\ IsFiniteSet(KeyIds)
  /\ MaxKeys \in Nat \ {0} /\ MaxAttempts \in Nat \ {0}
  /\ MinAhead \in Nat /\ MaxTime \in Nat
  /\ Concurrency \in Nat \ {0}
  /\ Null \notin Nat /\ Null \notin KeyIds /\ Null \notin Prefixes /\ Null \notin Row

VARIABLES clock,     \* Date.now()
          rows,      \* the api_keys table
          job,       \* what each request asks for
          pc,        \* the query its handler issues next
          attempt,   \* attempt of generateUniqueKeyPrefix
          prefix,    \* the prefix it drew and found free
          outcome,   \* what the client is told
          auditLog   \* the audit_logs table

vars == <<clock, rows, job, pc, attempt, prefix, outcome, auditLog>>

Init ==
  /\ clock = 1
  /\ rows    = [k \in KeyIds |-> Null]
  /\ job     = [r \in Requests |-> Null]
  /\ pc      = [r \in Requests |-> "idle"]
  /\ attempt = [r \in Requests |-> 0]
  /\ prefix  = [r \in Requests |-> Null]
  /\ outcome = [r \in Requests |-> "none"]
  /\ auditLog = {}

Stored    == {k \in KeyIds : rows[k] # Null}
Unrevoked == {k \in Stored : rows[k].revokedAt = Null}
Running   == {r \in Requests : pc[r] \notin {"idle", "done"}}

Goto(r, label) == pc' = [pc EXCEPT ![r] = label]
End(r, verdict) == Goto(r, "done") /\ outcome' = [outcome EXCEPT ![r] = verdict]

\* fireAuditLog: the record is inserted in the background, or the error logged.
\* Nobody reads the table, so it does not matter when.
Fire(r, action, k) == auditLog' \in {auditLog, auditLog \cup {[action |-> action, by |-> r, key |-> k]}}

Tick ==
  /\ clock < MaxTime
  /\ clock' = clock + 1
  /\ UNCHANGED <<rows, job, pc, attempt, prefix, outcome, auditLog>>

\* A request arrives; the key it names may be one that does not exist.
Start(r) ==
  /\ pc[r] = "idle" /\ Cardinality(Running) < Concurrency
  /\ \E j \in Job :
       /\ j.op = "revoke" <=> j.key # Null
       /\ j.expiresAt # Null => j.op = "create" /\ j.expiresAt \in {clock + MinAhead, clock + MinAhead + 1}
       /\ job' = [job EXCEPT ![r] = j]
       /\ Goto(r, CASE j.op = "create"    -> "count"
                    [] j.op = "revoke"    -> "find"
                    [] j.op = "revokeAll" -> "updateAll")
  /\ UNCHANGED <<clock, rows, attempt, prefix, outcome, auditLog>>

\* Mutant: off by one in the limit.
HasRoomForOneMore == Cardinality(Unrevoked) <= MaxKeys

\* count counts rows that are not revoked, the expired ones included.
HasRoom == Cardinality(Unrevoked) < MaxKeys

\* parseAndValidateExpiry.
ValidExpiry(r) == job[r].expiresAt = Null \/ job[r].expiresAt > clock + MinAhead

\* The count returns; limit and expiry are checked before the next query.
CreateCount(r) ==
  /\ pc[r] = "count"
  /\ IF HasRoom /\ ValidExpiry(r)
     THEN Goto(r, "prefix") /\ UNCHANGED outcome
     ELSE End(r, "refused")
  /\ UNCHANGED <<clock, rows, job, attempt, prefix, auditLog>>

\* findByPrefix with includeRevoked.
Taken(p) == \E k \in Stored : rows[k].prefix = p

\* Mutant: off by one in the number of attempts.
GiveUpLate(r) == attempt[r] + 1 > MaxAttempts

GiveUp(r) == attempt[r] + 1 >= MaxAttempts

\* generateUniqueKeyPrefix: a prefix in use is drawn again, MaxAttempts times.
CreatePrefix(r) ==
  /\ pc[r] = "prefix"
  /\ \E p \in Prefixes :
       IF ~ Taken(p)
       THEN prefix' = [prefix EXCEPT ![r] = p] /\ Goto(r, "create") /\ UNCHANGED <<attempt, outcome>>
       ELSE /\ attempt' = [attempt EXCEPT ![r] = @ + 1]
            /\ IF GiveUp(r) THEN End(r, "error") ELSE UNCHANGED <<pc, outcome>>
            /\ UNCHANGED prefix
  /\ UNCHANGED <<clock, rows, job, auditLog>>

\* Mutant: the audit record is fired before the row is there.
CreateAudited(r) ==
  /\ pc[r] = "create"
  /\ \E k \in KeyIds \ Stored :
       /\ rows' = rows
       /\ Fire(r, "CREATED", k)
  /\ End(r, "ok")
  /\ UNCHANGED <<clock, job, attempt, prefix>>

\* create inserts the row; the audit record is fired and the key answered.
CreateInsert(r) ==
  /\ pc[r] = "create"
  /\ \E k \in KeyIds \ Stored :
       /\ rows' = [rows EXCEPT ![k] =
            [prefix |-> prefix[r], expiresAt |-> job[r].expiresAt, revokedAt |-> Null]]
       /\ Fire(r, "CREATED", k)
  /\ End(r, "ok")
  /\ UNCHANGED <<clock, job, attempt, prefix>>

\* revoke: findFirst of the unrevoked row.
RevokeFind(r) ==
  /\ pc[r] = "find"
  /\ IF job[r].key \in Unrevoked
     THEN Goto(r, "update") /\ UNCHANGED outcome
     ELSE End(r, "refused")
  /\ UNCHANGED <<clock, rows, job, attempt, prefix, auditLog>>

\* Mutant: update of a row revoked meanwhile clears revokedAt again.
RevokeToggle(r) ==
  /\ pc[r] = "update"
  /\ rows' = [rows EXCEPT ![job[r].key].revokedAt = IF @ = Null THEN clock ELSE Null]
  /\ Fire(r, "REVOKED", job[r].key)
  /\ End(r, "ok")
  /\ UNCHANGED <<clock, job, attempt, prefix>>

\* revoke: update by id alone; a row revoked meanwhile gets a later revokedAt.
RevokeUpdate(r) ==
  /\ pc[r] = "update"
  /\ rows' = [rows EXCEPT ![job[r].key].revokedAt = clock]
  /\ Fire(r, "REVOKED", job[r].key)
  /\ End(r, "ok")
  /\ UNCHANGED <<clock, job, attempt, prefix>>

\* revokeAll: one updateMany.
RevokeAllUpdate(r) ==
  /\ pc[r] = "updateAll"
  /\ rows' = [k \in KeyIds |-> IF k \in Unrevoked THEN [rows[k] EXCEPT !.revokedAt = clock]
                               ELSE rows[k]]
  /\ Fire(r, "REVOKED_ALL", Null)
  /\ End(r, "ok")
  /\ UNCHANGED <<clock, job, attempt, prefix>>

\* A query fails, or the service dies before it.
Fail(r) ==
  /\ r \in Running
  /\ End(r, "error")
  /\ UNCHANGED <<clock, rows, job, attempt, prefix, auditLog>>

Handle(r) ==
  \/ CreateCount(r) \/ CreatePrefix(r) \/ CreateInsert(r)
  \/ RevokeFind(r) \/ RevokeUpdate(r) \/ RevokeAllUpdate(r)

Next ==
  \/ Tick
  \/ \E r \in Requests : Start(r) \/ Handle(r) \/ Fail(r)

Spec == Init /\ [][Next]_vars
-----------------------------------------------------------------------------
(* Properties. *)

\* Every variable has its type.
TypeOK ==
  /\ clock \in Times
  /\ rows \in [KeyIds -> Row \cup {Null}]
  /\ job \in [Requests -> Job \cup {Null}]
  /\ pc \in [Requests -> {"idle", "count", "prefix", "create", "find", "update", "updateAll", "done"}]
  /\ attempt \in [Requests -> 0..MaxAttempts]
  /\ prefix \in [Requests -> Prefixes \cup {Null}]
  /\ outcome \in [Requests -> {"none", "ok", "refused", "error"}]
  /\ auditLog \subseteq Audit

\* "Maximum of 10 active API keys allowed".
LimitHolds == Cardinality(Unrevoked) <= MaxKeys

\* Requests past the limit check that have not inserted their row yet.
Creating == {r \in Requests : pc[r] \in {"prefix", "create"}}

\* Requests that passed the check together exceed the limit by at most one key
\* for each request but one that may run at once.
OverrunBounded == Cardinality(Unrevoked) + Cardinality(Creating) <= MaxKeys - 1 + Concurrency

\* A key found revoked stays revoked, whatever revocations race with each other.
RevokedForGood == [][\A k \in Stored : rows[k].revokedAt # Null => rows'[k].revokedAt # Null]_vars

\* The audit log never tells of a key that was not created or not revoked.
AuditTrue == \A a \in auditLog :
  /\ a.action = "CREATED" => a.key \in Stored
  /\ a.action = "REVOKED" => a.key \in Stored \ Unrevoked
-----------------------------------------------------------------------------
(* The inductive invariant of ApiKeysProofs. *)

\* What a handler relies on when it issues its next query.
RequestInv(r) ==
  /\ pc[r] # "idle" => job[r] \in Job
  /\ pc[r] \in {"find", "update"} => job[r].key \in KeyIds
  /\ pc[r] = "update" => job[r].key \in Stored
  /\ pc[r] \in {"idle", "count", "prefix"} => attempt[r] < MaxAttempts
  /\ pc[r] = "create" => prefix[r] \in Prefixes

\* No more requests run than may, and those that passed the check of the limit
\* are among them.
IInv ==
  /\ clock \in 1..MaxTime + 1
  /\ \A r \in Requests : RequestInv(r)
  /\ Cardinality(Running) <= Concurrency
  /\ OverrunBounded
  /\ AuditTrue
=============================================================================
