---------------------------- MODULE ApiKeysProofs ----------------------------
(***************************************************************************)
(* Theorems about ApiKeys for any number of requests, keys and prefixes: by *)
(* how much racing creations can exceed the limit of keys, that a           *)
(* revocation is for good, and that the audit log tells the truth.          *)
(***************************************************************************)
EXTENDS ApiKeys, FiniteSetTheorems, TLAPS

USE ApiKeysConstants

\* The sets that are counted are finite, and so are their subsets.
LEMMA Finite ==
  /\ IsFiniteSet(Unrevoked) /\ Cardinality(Unrevoked) \in Nat
  /\ IsFiniteSet(Running) /\ Cardinality(Running) \in Nat
  /\ IsFiniteSet(Creating) /\ Cardinality(Creating) <= Cardinality(Running)
  /\ Cardinality(Creating) \in Nat
<1>1. Unrevoked \in SUBSET KeyIds /\ Running \in SUBSET Requests /\ Creating \in SUBSET Running
  BY DEF Unrevoked, Stored, Running, Creating
<1>2. IsFiniteSet(Unrevoked) /\ IsFiniteSet(Running)
  BY <1>1, FS_Subset
<1>3. IsFiniteSet(Creating) /\ Cardinality(Creating) <= Cardinality(Running)
  BY <1>1, <1>2, FS_Subset
<1> QED BY <1>2, <1>3, FS_CardinalityType

LEMMA InitInv == Init => TypeOK /\ IInv
<1> SUFFICES ASSUME Init PROVE TypeOK /\ IInv
  OBVIOUS
<1>1. TypeOK
  BY DEF Init, TypeOK, Times
<1>2. Unrevoked = {} /\ Running = {} /\ Creating = {}
  BY DEF Init, Unrevoked, Stored, Running, Creating
<1>3. Cardinality(Running) <= Concurrency /\ OverrunBounded
  BY <1>2, FS_EmptySet DEF OverrunBounded
<1>4. \A r \in Requests : RequestInv(r)
  BY DEF Init, RequestInv
<1> QED BY <1>1, <1>3, <1>4 DEF Init, IInv, AuditTrue
-----------------------------------------------------------------------------
(* Types and what the handlers rely on. *)

\* Firing an audit record keeps the type of the log.
LEMMA FireType ==
  ASSUME TypeOK, NEW r \in Requests, NEW action \in {"CREATED", "REVOKED", "REVOKED_ALL"},
         NEW k \in KeyIds \cup {Null}, Fire(r, action, k)
  PROVE  auditLog' \subseteq Audit
BY DEF TypeOK, Fire, Audit

\* The clock is a time a row may carry.
LEMMA ClockTime == ASSUME IInv PROVE clock \in Times
BY DEF IInv, Times

\* Every step of the specification keeps the types.
LEMMA StepType ==
  ASSUME TypeOK, IInv, [Next]_vars
  PROVE  TypeOK'
<1>1. CASE Tick
  BY <1>1 DEF TypeOK, Tick, Times
<1>2. ASSUME NEW r \in Requests, Start(r) PROVE TypeOK'
  BY <1>2 DEF TypeOK, Start, Goto, Job
<1>3. ASSUME NEW r \in Requests, CreateCount(r) \/ RevokeFind(r) \/ Fail(r) PROVE TypeOK'
  BY <1>3 DEF TypeOK, CreateCount, RevokeFind, Fail, Goto, End
<1>4. ASSUME NEW r \in Requests, CreatePrefix(r) PROVE TypeOK'
  <2>1. attempt[r] + 1 \in 0..MaxAttempts
    BY <1>4 DEF TypeOK, IInv, RequestInv, CreatePrefix
  <2> QED BY <1>4, <2>1 DEF TypeOK, CreatePrefix, Goto, End
<1>5. ASSUME NEW r \in Requests, CreateInsert(r) PROVE TypeOK'
  <2>1. PICK k \in KeyIds :
          /\ rows' = [rows EXCEPT ![k] =
               [prefix |-> prefix[r], expiresAt |-> job[r].expiresAt, revokedAt |-> Null]]
          /\ Fire(r, "CREATED", k)
    BY <1>5 DEF CreateInsert
  <2>2. prefix[r] \in Prefixes /\ job[r].expiresAt \in Times \cup {Null}
    BY <1>5 DEF IInv, RequestInv, CreateInsert, Job
  <2>3. rows' \in [KeyIds -> Row \cup {Null}]
    BY <2>1, <2>2 DEF TypeOK, Row
  <2>4. auditLog' \subseteq Audit
    BY <2>1, FireType
  <2> QED BY <1>5, <2>3, <2>4 DEF TypeOK, CreateInsert, Goto, End
<1>6. ASSUME NEW r \in Requests, RevokeUpdate(r) PROVE TypeOK'
  <2>1. job[r].key \in Stored
    BY <1>6 DEF IInv, RequestInv, RevokeUpdate
  <2>2. rows' \in [KeyIds -> Row \cup {Null}]
    BY <1>6, <2>1, ClockTime DEF TypeOK, RevokeUpdate, Row, Stored
  <2>3. auditLog' \subseteq Audit
    BY <1>6, <2>1, FireType DEF RevokeUpdate, Stored
  <2> QED BY <1>6, <2>2, <2>3 DEF TypeOK, RevokeUpdate, Goto, End
<1>7. ASSUME NEW r \in Requests, RevokeAllUpdate(r) PROVE TypeOK'
  <2>1. rows' \in [KeyIds -> Row \cup {Null}]
    BY <1>7, ClockTime DEF TypeOK, RevokeAllUpdate, Row, Stored, Unrevoked
  <2>2. auditLog' \subseteq Audit
    BY <1>7, FireType DEF RevokeAllUpdate
  <2> QED BY <1>7, <2>1, <2>2 DEF TypeOK, RevokeAllUpdate, Goto, End
<1>8. CASE UNCHANGED vars
  BY <1>8 DEF TypeOK, vars
<1> QED BY <1>1, <1>2, <1>3, <1>4, <1>5, <1>6, <1>7, <1>8 DEF Next, Handle

\* The steps that write rows or the audit log.
LEMMA Writers ==
  ASSUME [Next]_vars
  PROVE  \/ UNCHANGED <<rows, auditLog>>
         \/ \E r \in Requests : CreateInsert(r) \/ RevokeUpdate(r) \/ RevokeAllUpdate(r)
<1>1. CASE Tick \/ UNCHANGED vars
  BY <1>1 DEF Tick, vars
<1>2. ASSUME NEW r \in Requests, Start(r) PROVE UNCHANGED <<rows, auditLog>>
  BY <1>2 DEF Start
<1>3. ASSUME NEW r \in Requests, CreateCount(r) \/ CreatePrefix(r) \/ RevokeFind(r) \/ Fail(r)
      PROVE  UNCHANGED <<rows, auditLog>>
  BY <1>3 DEF CreateCount, CreatePrefix, RevokeFind, Fail
<1> QED BY <1>1, <1>2, <1>3 DEF Next, Handle

\* No row is deleted.
LEMMA RowsStay ==
  ASSUME TypeOK, IInv, [Next]_vars
  PROVE  Stored \subseteq Stored'
<1>1. ASSUME NEW r \in Requests, CreateInsert(r) PROVE Stored \subseteq Stored'
  BY <1>1 DEF TypeOK, CreateInsert, Stored
<1>2. ASSUME NEW r \in Requests, RevokeUpdate(r) PROVE Stored \subseteq Stored'
  <2>1. job[r].key \in Stored
    BY <1>2 DEF IInv, RequestInv, RevokeUpdate
  <2>2. [rows[job[r].key] EXCEPT !.revokedAt = clock] \in Row
    BY <2>1, ClockTime DEF TypeOK, Stored, Row
  <2> QED BY <1>2, <2>1, <2>2 DEF TypeOK, RevokeUpdate, Stored
<1>3. ASSUME NEW r \in Requests, RevokeAllUpdate(r) PROVE Stored \subseteq Stored'
  <2>1. \A k \in Unrevoked : [rows[k] EXCEPT !.revokedAt = clock] \in Row
    BY ClockTime DEF TypeOK, Unrevoked, Stored, Row
  <2> QED BY <1>3, <2>1 DEF TypeOK, RevokeAllUpdate, Stored
<1>4. CASE UNCHANGED rows
  BY <1>4 DEF Stored
<1> QED BY <1>1, <1>2, <1>3, <1>4, Writers
-----------------------------------------------------------------------------
(* The invariant. *)

\* An arriving request names a job and goes to its first query.
LEMMA StartLabel ==
  ASSUME NEW r \in Requests, Start(r)
  PROVE  \E l \in {"count", "find", "updateAll"} : pc' = [pc EXCEPT ![r] = l]
<1>1. PICK j \in Job :
        pc' = [pc EXCEPT ![r] = CASE j.op = "create"    -> "count"
                                  [] j.op = "revoke"    -> "find"
                                  [] j.op = "revokeAll" -> "updateAll"]
  BY DEF Start, Goto
<1>2. j.op \in {"create", "revoke", "revokeAll"}
  BY DEF Job
<1>3. CASE j.op = "create"
  BY <1>1, <1>3
<1>4. CASE j.op = "revoke"
  BY <1>1, <1>4
<1>5. CASE j.op = "revokeAll"
  BY <1>1, <1>5
<1> QED BY <1>2, <1>3, <1>4, <1>5

\* Each handler finds what it relies on at its next query.
LEMMA RequestsInv ==
  ASSUME TypeOK, IInv, [Next]_vars, NEW q \in Requests
  PROVE  RequestInv(q)'
<1> USE DEF RequestInv
<1>0. RequestInv(q) /\ Stored \subseteq Stored'
  BY RowsStay DEF IInv
<1>1. CASE Tick \/ UNCHANGED vars
  BY <1>0, <1>1 DEF Tick, vars
<1>2. ASSUME NEW r \in Requests, Start(r) PROVE RequestInv(q)'
  BY <1>0, <1>2 DEF TypeOK, Start, Goto, Job
<1>3. ASSUME NEW r \in Requests, CreateCount(r) PROVE RequestInv(q)'
  BY <1>0, <1>3 DEF TypeOK, CreateCount, Goto, End
<1>4. ASSUME NEW r \in Requests, CreatePrefix(r) PROVE RequestInv(q)'
  BY <1>0, <1>4 DEF TypeOK, CreatePrefix, Goto, End, GiveUp
<1>5. ASSUME NEW r \in Requests, CreateInsert(r) PROVE RequestInv(q)'
  BY <1>0, <1>5 DEF TypeOK, CreateInsert, Goto, End
<1>6. ASSUME NEW r \in Requests, RevokeFind(r) PROVE RequestInv(q)'
  BY <1>0, <1>6 DEF TypeOK, RevokeFind, Goto, End, Unrevoked
<1>7. ASSUME NEW r \in Requests, RevokeUpdate(r) PROVE RequestInv(q)'
  BY <1>0, <1>7 DEF TypeOK, RevokeUpdate, Goto, End
<1>8. ASSUME NEW r \in Requests, RevokeAllUpdate(r) PROVE RequestInv(q)'
  BY <1>0, <1>8 DEF TypeOK, RevokeAllUpdate, Goto, End
<1>9. ASSUME NEW r \in Requests, Fail(r) PROVE RequestInv(q)'
  BY <1>0, <1>9 DEF TypeOK, Fail, Running, Goto, End
<1> QED BY <1>1, <1>2, <1>3, <1>4, <1>5, <1>6, <1>7, <1>8, <1>9 DEF Next, Handle

\* Only an arrival adds a request to those that run.
LEMMA RunningInv ==
  ASSUME TypeOK, IInv, [Next]_vars
  PROVE  (Cardinality(Running) <= Concurrency)'
<1>0. Cardinality(Running) <= Concurrency /\ IsFiniteSet(Running) /\ Cardinality(Running) \in Nat
  BY Finite DEF IInv
<1>1. ASSUME NEW r \in Requests, Start(r) PROVE Cardinality(Running') <= Concurrency
  <2>1. pc[r] = "idle" /\ Cardinality(Running) < Concurrency
    BY <1>1 DEF Start
  <2>2. PICK l \in {"count", "find", "updateAll"} : pc' = [pc EXCEPT ![r] = l]
    BY <1>1, StartLabel
  <2>3. Running' = Running \cup {r} /\ r \notin Running
    BY <2>1, <2>2 DEF TypeOK, Running
  <2>4. Cardinality(Running') = Cardinality(Running) + 1
    BY <1>0, <2>3, FS_AddElement
  <2> QED BY <1>0, <2>1, <2>4
<1>2. CASE Running' \subseteq Running
  BY <1>0, <1>2, FS_Subset, FS_CardinalityType
<1>3. ASSUME NEW r \in Requests, Handle(r) \/ Fail(r) PROVE Running' \subseteq Running
  BY <1>3 DEF TypeOK, Handle, CreateCount, CreatePrefix, CreateInsert, RevokeFind, RevokeUpdate,
     RevokeAllUpdate, Fail, Goto, End, Running
<1>4. CASE Tick \/ UNCHANGED vars
  BY <1>0, <1>4 DEF Tick, vars, Running
<1> QED BY <1>1, <1>2, <1>3, <1>4 DEF Next

\* A request that passes the check of the limit saw a free place, and all that
\* passed it are among those that run; every other step keeps or lowers the sum.
LEMMA OverrunInv ==
  ASSUME TypeOK, IInv, [Next]_vars
  PROVE  OverrunBounded'
<1> DEFINE Sum == Cardinality(Unrevoked) + Cardinality(Creating)
<1>0. Sum <= MaxKeys - 1 + Concurrency
  BY DEF IInv, OverrunBounded
<1>f. /\ IsFiniteSet(Unrevoked) /\ Cardinality(Unrevoked) \in Nat
      /\ IsFiniteSet(Creating) /\ Cardinality(Creating) \in Nat
  BY Finite
<1>1. ASSUME Unrevoked' \subseteq Unrevoked, Creating' \subseteq Creating
      PROVE  OverrunBounded'
  <2>1. Cardinality(Unrevoked') <= Cardinality(Unrevoked) /\ Cardinality(Unrevoked') \in Nat
    BY <1>1, <1>f, FS_Subset, FS_CardinalityType
  <2>2. Cardinality(Creating') <= Cardinality(Creating) /\ Cardinality(Creating') \in Nat
    BY <1>1, <1>f, FS_Subset, FS_CardinalityType
  <2> QED BY <1>0, <1>f, <2>1, <2>2 DEF OverrunBounded
<1>2. ASSUME NEW r \in Requests, CreateCount(r), HasRoom PROVE OverrunBounded'
  <2>1. Unrevoked' = Unrevoked
    BY <1>2 DEF CreateCount, Unrevoked, Stored
  <2>2. Cardinality(Unrevoked) <= MaxKeys - 1
    BY <1>2, <1>f DEF HasRoom
  <2>3. Cardinality(Running') <= Concurrency
    BY RunningInv
  <2>4. Running' \in SUBSET Requests /\ Creating' \in SUBSET Running'
    BY DEF Running, Creating
  <2>5. Cardinality(Creating') <= Concurrency /\ Cardinality(Creating') \in Nat
        /\ Cardinality(Running') \in Nat
    <3>1. IsFiniteSet(Running')
      BY <2>4, FS_Subset
    <3>2. IsFiniteSet(Creating') /\ Cardinality(Creating') <= Cardinality(Running')
      BY <2>4, <3>1, FS_Subset
    <3>3. Cardinality(Creating') \in Nat /\ Cardinality(Running') \in Nat
      BY <3>1, <3>2, FS_CardinalityType
    <3> QED BY <3>2, <3>3, <2>3
  <2> QED BY <1>f, <2>1, <2>2, <2>5 DEF OverrunBounded
<1>3. ASSUME NEW r \in Requests, CreateCount(r), ~ HasRoom PROVE OverrunBounded'
  <2>1. Unrevoked' \subseteq Unrevoked /\ Creating' \subseteq Creating
    BY <1>3 DEF TypeOK, CreateCount, Unrevoked, Stored, Creating, End, Goto
  <2> QED BY <2>1, <1>1
<1>4. ASSUME NEW r \in Requests, CreateInsert(r) PROVE OverrunBounded'
  <2>1. PICK k \in KeyIds : Unrevoked' \subseteq Unrevoked \cup {k}
    BY <1>4 DEF TypeOK, CreateInsert, Unrevoked, Stored
  <2>2. Creating' = Creating \ {r} /\ r \in Creating
    BY <1>4 DEF TypeOK, CreateInsert, Creating, End, Goto
  <2>3. Cardinality(Creating') = Cardinality(Creating) - 1
    BY <1>f, <2>2, FS_RemoveElement
  <2>4. IsFiniteSet(Unrevoked \cup {k}) /\ Cardinality(Unrevoked \cup {k}) <= Cardinality(Unrevoked) + 1
    <3>1. CASE k \in Unrevoked
      BY <1>f, <3>1, Unrevoked \cup {k} = Unrevoked
    <3>2. CASE k \notin Unrevoked
      <4>1. /\ IsFiniteSet(Unrevoked \cup {k})
            /\ Cardinality(Unrevoked \cup {k}) = Cardinality(Unrevoked) + 1
        BY <1>f, <3>2, FS_AddElement
      <4> QED BY <4>1, <1>f
    <3> QED BY <3>1, <3>2
  <2>5. Cardinality(Unrevoked') <= Cardinality(Unrevoked \cup {k}) /\ IsFiniteSet(Unrevoked')
    BY <2>1, <2>4, FS_Subset
  <2>6. Cardinality(Unrevoked') \in Nat /\ Cardinality(Unrevoked \cup {k}) \in Nat
    BY <2>4, <2>5, FS_CardinalityType
  <2> QED BY <1>0, <1>f, <2>3, <2>4, <2>5, <2>6 DEF OverrunBounded
<1>s. ASSUME NEW r \in Requests, Start(r) PROVE OverrunBounded'
  <2>1. Unrevoked' \subseteq Unrevoked
    BY <1>s DEF Start, Unrevoked, Stored
  <2>2. PICK l \in {"count", "find", "updateAll"} : pc' = [pc EXCEPT ![r] = l]
    BY <1>s, StartLabel
  <2>3. Creating' \subseteq Creating
    BY <2>2 DEF TypeOK, Creating
  <2> QED BY <2>1, <2>3, <1>1
<1>5. ASSUME NEW r \in Requests, CreatePrefix(r) \/ RevokeFind(r) \/ Fail(r)
      PROVE  OverrunBounded'
  <2>1. Unrevoked' \subseteq Unrevoked
    BY <1>5 DEF CreatePrefix, RevokeFind, Fail, Unrevoked, Stored
  <2>2. Creating' \subseteq Creating
    BY <1>5 DEF TypeOK, CreatePrefix, RevokeFind, Fail, Creating, End, Goto
  <2> QED BY <2>1, <2>2, <1>1
<1>6. ASSUME NEW r \in Requests, RevokeUpdate(r) \/ RevokeAllUpdate(r) PROVE OverrunBounded'
  <2>1. Unrevoked' \subseteq Unrevoked
    <3>1. clock # Null
      BY DEF IInv
    <3>2. pc[r] = "update" => job[r].key \in Stored
      BY DEF IInv, RequestInv
    <3> QED BY <1>6, <3>1, <3>2 DEF TypeOK, RevokeUpdate, RevokeAllUpdate, Unrevoked, Stored, Row
  <2>2. Creating' \subseteq Creating
    BY <1>6 DEF TypeOK, RevokeUpdate, RevokeAllUpdate, Creating, End, Goto
  <2> QED BY <2>1, <2>2, <1>1
<1>7. CASE Tick \/ UNCHANGED vars
  <2>1. Unrevoked' \subseteq Unrevoked /\ Creating' \subseteq Creating
    BY <1>7 DEF Tick, vars, Unrevoked, Stored, Creating
  <2> QED BY <2>1, <1>1
<1> QED BY <1>2, <1>3, <1>4, <1>s, <1>5, <1>6, <1>7 DEF Next, Handle

\* A revoked row keeps a time of revocation: of the writers, create takes a key
\* without a row, and the two revocations write the clock.
LEMMA RevokedStays ==
  ASSUME TypeOK, IInv, [Next]_vars, NEW k \in Stored, rows[k].revokedAt # Null
  PROVE  k \in Stored' /\ rows'[k].revokedAt # Null
<1>0. k \in Stored' /\ k \in KeyIds /\ rows[k] \in Row
  BY RowsStay DEF TypeOK, Stored
<1>1. clock # Null
  BY DEF IInv
<1>2. ASSUME NEW r \in Requests, CreateInsert(r) PROVE rows'[k] = rows[k]
  BY <1>0, <1>2 DEF TypeOK, CreateInsert
<1>3. ASSUME NEW r \in Requests, RevokeUpdate(r) PROVE rows'[k].revokedAt # Null
  <2>1. job[r].key \in KeyIds
    BY <1>3 DEF IInv, RequestInv, RevokeUpdate
  <2>2. CASE job[r].key = k
    BY <1>0, <1>1, <1>3, <2>2 DEF TypeOK, RevokeUpdate, Row
  <2>3. CASE job[r].key # k
    BY <1>0, <1>3, <2>1, <2>3 DEF TypeOK, RevokeUpdate
  <2> QED BY <2>2, <2>3
<1>4. ASSUME NEW r \in Requests, RevokeAllUpdate(r) PROVE rows'[k] = rows[k]
  BY <1>0, <1>4 DEF TypeOK, RevokeAllUpdate, Unrevoked
<1>5. CASE UNCHANGED rows
  BY <1>0, <1>5
<1> QED BY <1>0, <1>2, <1>3, <1>4, <1>5, Writers

\* A record tells of a key that is created, or revoked.
RecordTrue(a) ==
  /\ a.action = "CREATED" => a.key \in Stored
  /\ a.action = "REVOKED" => a.key \in Stored \ Unrevoked

\* The log stays true if what it told is still true and the record fired is.
LEMMA FireTrue ==
  ASSUME NEW r, NEW action, NEW k, Fire(r, action, k),
         \A a \in auditLog : RecordTrue(a)',
         action = "CREATED" => k \in Stored',
         action = "REVOKED" => k \in Stored' \ Unrevoked'
  PROVE  AuditTrue'
<1> DEFINE record == [action |-> action, by |-> r, key |-> k]
<1>1. \A a \in auditLog' : a \in auditLog \/ a = record
  BY DEF Fire
<1>2. RecordTrue(record)'
  BY DEF RecordTrue
<1> QED BY <1>1, <1>2 DEF AuditTrue, RecordTrue

\* Records in the log stay true, and a new one is fired after the row it tells
\* of was written.
LEMMA AuditInv ==
  ASSUME TypeOK, IInv, [Next]_vars
  PROVE  AuditTrue'
<1>0. Stored \subseteq Stored'
  BY RowsStay
<1>1. Stored \ Unrevoked \subseteq Stored' \ Unrevoked'
  BY RevokedStays DEF Unrevoked
<1>2. \A a \in auditLog : RecordTrue(a)'
  BY <1>0, <1>1 DEF IInv, AuditTrue, RecordTrue
<1>3. ASSUME NEW r \in Requests, CreateInsert(r) PROVE AuditTrue'
  <2>1. PICK k \in KeyIds :
          /\ rows' = [rows EXCEPT ![k] =
               [prefix |-> prefix[r], expiresAt |-> job[r].expiresAt, revokedAt |-> Null]]
          /\ Fire(r, "CREATED", k)
    BY <1>3 DEF CreateInsert
  <2>2. prefix[r] \in Prefixes /\ job[r].expiresAt \in Times \cup {Null}
    BY <1>3 DEF IInv, RequestInv, CreateInsert, Job
  <2>3. rows'[k] \in Row
    BY <2>1, <2>2 DEF TypeOK, Row
  <2>4. k \in Stored'
    BY <2>3 DEF Stored
  <2> QED BY <1>2, <2>1, <2>4, FireTrue
<1>4. ASSUME NEW r \in Requests, RevokeUpdate(r) PROVE AuditTrue'
  <2>1. job[r].key \in Stored /\ clock # Null
    BY <1>4 DEF IInv, RequestInv, RevokeUpdate
  <2>2. rows'[job[r].key].revokedAt # Null
    BY <1>4, <2>1 DEF TypeOK, RevokeUpdate, Stored, Row
  <2>3. job[r].key \in Stored' \ Unrevoked'
    BY <1>0, <2>1, <2>2 DEF Unrevoked
  <2>4. Fire(r, "REVOKED", job[r].key)
    BY <1>4 DEF RevokeUpdate
  <2> QED BY <1>2, <2>3, <2>4, FireTrue
<1>5. ASSUME NEW r \in Requests, RevokeAllUpdate(r) PROVE AuditTrue'
  <2>1. Fire(r, "REVOKED_ALL", Null)
    BY <1>5 DEF RevokeAllUpdate
  <2> QED BY <1>2, <2>1, FireTrue
<1>6. CASE UNCHANGED auditLog
  BY <1>2, <1>6 DEF AuditTrue, RecordTrue
<1> QED BY <1>3, <1>4, <1>5, <1>6, Writers

\* Every step keeps the invariant.
LEMMA StepInv ==
  ASSUME TypeOK, IInv, [Next]_vars
  PROVE  IInv'
<1>1. (clock \in 1..MaxTime + 1)'
  <2>1. clock \in 1..MaxTime + 1
    BY DEF IInv
  <2>2. CASE Tick
    BY <2>1, <2>2 DEF Tick
  <2>3. ASSUME NEW r \in Requests, Start(r) PROVE clock' = clock
    BY <2>3 DEF Start
  <2>4. ASSUME NEW r \in Requests, Handle(r) \/ Fail(r) PROVE clock' = clock
    BY <2>4 DEF Handle, CreateCount, CreatePrefix, CreateInsert, RevokeFind, RevokeUpdate,
       RevokeAllUpdate, Fail
  <2>5. CASE UNCHANGED vars
    BY <2>1, <2>5 DEF vars
  <2> QED BY <2>1, <2>2, <2>3, <2>4, <2>5 DEF Next
<1>2. (\A r \in Requests : RequestInv(r))'
  BY RequestsInv
<1> QED BY <1>1, <1>2, RunningInv, OverrunInv, AuditInv DEF IInv
-----------------------------------------------------------------------------
(* The theorems. *)

\* The variables keep their types, and every handler finds at its next query what
\* it relies on.
THEOREM Invariance == Spec => [](TypeOK /\ IInv)
<1>1. Init => TypeOK /\ IInv
  BY InitInv
<1>2. (TypeOK /\ IInv) /\ [Next]_vars => (TypeOK /\ IInv)'
  BY StepType, StepInv
<1> QED BY <1>1, <1>2, PTL DEF Spec

\* Creations that pass the count together exceed the limit of keys by at most
\* one for each request but one that may run at once.
THEOREM OverrunIsBounded == Spec => []OverrunBounded
<1>1. IInv => OverrunBounded
  BY DEF IInv
<1> QED BY <1>1, Invariance, PTL

\* No record of the audit log tells of a key that was not created or not revoked,
\* though records are written in the background and revocations race.
THEOREM AuditTellsTruth == Spec => []AuditTrue
<1>1. IInv => AuditTrue
  BY DEF IInv
<1> QED BY <1>1, Invariance, PTL

\* A key found revoked stays revoked, though update selects the row by id alone.
THEOREM RevocationIsForGood == Spec => RevokedForGood
<1>1. TypeOK /\ IInv /\ [Next]_vars
      => [\A k \in Stored : rows[k].revokedAt # Null => rows'[k].revokedAt # Null]_vars
  BY RevokedStays
<1> QED BY <1>1, Invariance, PTL DEF Spec, RevokedForGood
=============================================================================
