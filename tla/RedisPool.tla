------------------------------ MODULE RedisPool ------------------------------
(***************************************************************************)
(* RedisClient of the risk service: a fixed set of connections, opened by   *)
(* the constructor, leased to the threads that execute commands, and freed  *)
(* by the destructor.  Threads share a mutex and a condition variable; a    *)
(* step below is what a thread does between two points where another        *)
(* thread may run.  The destructor may start at any time and waits for no   *)
(* thread: one that goes on to use a freed context or a destroyed mutex     *)
(* makes the behaviour of the process undefined, and the model ends there.  *)
(***************************************************************************)
EXTENDS Integers, Sequences, SequencesExt, FiniteSets

CONSTANTS Workers,      \* threads that call execute
          Connections,  \* redisContext pointers
          PoolSize,     \* poolSize_
          None          \* no thread, no connection

ASSUME PoolConstants ==
  /\ IsFiniteSet(Workers) /\ IsFiniteSet(Connections)
  /\ PoolSize \in 0..Cardinality(Connections)
  /\ None \notin Workers /\ None \notin Connections

VARIABLES owner,         \* where the thread that owns the client is
          all,           \* allConnections_
          available,     \* availableConnections_, used as a stack
          shuttingDown,  \* shuttingDown_
          freed,         \* contexts passed to redisFree
          broken,        \* contexts whose err is set: hiredis fails them for good
          mutex,         \* the thread that holds poolMutex_
          sleeping,      \* threads blocked in poolCondition_.wait
          pc,            \* where each thread is in execute
          lease          \* the context each thread's ConnectionLease holds

pool   == <<all, available, shuttingDown, freed>>
thread == <<pc, lease>>
vars   == <<owner, pool, broken, mutex, sleeping, thread>>

Init ==
  /\ owner = "constructing"
  /\ all = << >> /\ available = << >>
  /\ shuttingDown = FALSE
  /\ freed = {} /\ broken = {}
  /\ mutex = None /\ sleeping = {}
  /\ pc    = [w \in Workers |-> "out"]
  /\ lease = [w \in Workers |-> None]

Goto(w, label) == pc' = [pc EXCEPT ![w] = label]

\* The mutex, the condition variable and the vectors exist.
Alive == owner # "gone"
-----------------------------------------------------------------------------
(* The owner: constructor, initializePool and destructor. *)

\* createConnection succeeds for the next slot of the pool.
Connect(c) ==
  /\ owner = "constructing" /\ Len(all) < PoolSize /\ c \notin Range(all)
  /\ all' = Append(all, c)
  /\ available' = Append(available, c)
  /\ owner' = IF Len(all) + 1 = PoolSize THEN "up" ELSE owner
  /\ UNCHANGED <<shuttingDown, freed, broken, mutex, sleeping, thread>>

\* The constructor throws: a pool size of zero, or no connection; the ones
\* that were opened are freed.
ConnectFails ==
  /\ owner = "constructing"
  /\ owner' = "failed"
  /\ freed' = Range(all)
  /\ all' = << >> /\ available' = << >>
  /\ UNCHANGED <<shuttingDown, broken, mutex, sleeping, thread>>

\* The destructor sets the flag under the mutex.
Shutdown ==
  /\ owner = "up" /\ mutex = None
  /\ shuttingDown' = TRUE
  /\ owner' = "notifying"
  /\ UNCHANGED <<all, available, freed, broken, mutex, sleeping, thread>>

\* notify_all, the mutex released.
NotifyAll ==
  /\ owner = "notifying"
  /\ sleeping' = {}
  /\ pc' = [w \in Workers |-> IF w \in sleeping THEN "lock" ELSE pc[w]]
  /\ owner' = "freeing"
  /\ UNCHANGED <<pool, broken, mutex, lease>>

\* redisFree of one context after the other; then both vectors are cleared.
FreeNext ==
  /\ owner = "freeing"
  /\ IF Range(all) \subseteq freed
     THEN /\ owner' = "gone"
          /\ all' = << >> /\ available' = << >>
          /\ UNCHANGED freed
     ELSE /\ freed' = freed \cup {all[Cardinality(freed) + 1]}
          /\ UNCHANGED <<owner, all, available>>
  /\ UNCHANGED <<shuttingDown, broken, mutex, sleeping, thread>>
-----------------------------------------------------------------------------
(* A thread: execute, acquireConnection, releaseConnection. *)

\* A thread calls execute, until the destructor has ended.
Call(w) ==
  /\ owner \in {"up", "notifying", "freeing"} /\ pc[w] = "out"
  /\ Goto(w, "lock")
  /\ UNCHANGED <<owner, pool, broken, mutex, sleeping, lease>>

Lock(w) ==
  /\ Alive /\ pc[w] = "lock" /\ mutex = None
  /\ mutex' = w
  /\ Goto(w, "check")
  /\ UNCHANGED <<owner, pool, broken, sleeping, lease>>

\* The predicate of the wait is false.
MustWait(w) ==
  /\ Alive /\ pc[w] = "check" /\ ~ shuttingDown /\ available = << >>
  /\ Goto(w, "block")
  /\ UNCHANGED <<owner, pool, broken, mutex, sleeping, lease>>

\* wait releases the mutex and blocks, in one step.
Block(w) ==
  /\ Alive /\ pc[w] = "block"
  /\ mutex' = None
  /\ sleeping' = sleeping \cup {w}
  /\ Goto(w, "asleep")
  /\ UNCHANGED <<owner, pool, broken, lease>>

\* A condition variable may wake a thread for no reason.
SpuriousWakeup(w) ==
  /\ pc[w] = "asleep"
  /\ sleeping' = sleeping \ {w}
  /\ Goto(w, "lock")
  /\ UNCHANGED <<owner, pool, broken, mutex, lease>>

\* "Redis client is shutting down" is thrown.
Refuse(w) ==
  /\ Alive /\ pc[w] = "check" /\ shuttingDown
  /\ mutex' = None
  /\ Goto(w, "out")
  /\ UNCHANGED <<owner, pool, broken, sleeping, lease>>

\* Mutant: back() without pop_back().
TakeWithoutPop(w) ==
  /\ Alive /\ pc[w] = "check" /\ ~ shuttingDown /\ available # << >>
  /\ lease' = [lease EXCEPT ![w] = Last(available)]
  /\ mutex' = None
  /\ Goto(w, "execute")
  /\ UNCHANGED <<owner, pool, broken, sleeping>>

\* The lease takes the connection released last.
Take(w) ==
  /\ Alive /\ pc[w] = "check" /\ ~ shuttingDown /\ available # << >>
  /\ lease' = [lease EXCEPT ![w] = Last(available)]
  /\ available' = Front(available)
  /\ mutex' = None
  /\ Goto(w, "execute")
  /\ UNCHANGED <<owner, all, shuttingDown, freed, broken, sleeping>>

\* redisCommandArgv returns: with a reply (validateReply throws on an error
\* reply), or with nullptr when the context is broken or breaks now.  Either
\* way the lease goes out of scope.
Execute(w) ==
  /\ pc[w] = "execute" /\ lease[w] \notin freed
  /\ broken' \in {broken, broken \cup {lease[w]}}
  /\ Goto(w, "release")
  /\ UNCHANGED <<owner, pool, mutex, sleeping, lease>>

\* Mutant: a broken context is not given back.
ReleaseUnbroken(w) ==
  /\ Alive /\ pc[w] = "release" /\ mutex = None
  /\ available' = IF shuttingDown \/ lease[w] \in broken THEN available ELSE Append(available, lease[w])
  /\ lease' = [lease EXCEPT ![w] = None]
  /\ Goto(w, IF shuttingDown THEN "out" ELSE "notify")
  /\ UNCHANGED <<owner, all, shuttingDown, freed, broken, mutex, sleeping>>

\* releaseConnection up to the end of the lock_guard's scope.
Release(w) ==
  /\ Alive /\ pc[w] = "release" /\ mutex = None
  /\ available' = IF shuttingDown THEN available ELSE Append(available, lease[w])
  /\ lease' = [lease EXCEPT ![w] = None]
  /\ Goto(w, IF shuttingDown THEN "out" ELSE "notify")
  /\ UNCHANGED <<owner, all, shuttingDown, freed, broken, mutex, sleeping>>

\* Mutant: the notification is forgotten.
NotifyNobody(w) ==
  /\ Alive /\ pc[w] = "notify"
  /\ Goto(w, "out")
  /\ UNCHANGED <<owner, pool, broken, mutex, sleeping, lease>>

\* notify_one, the mutex released: it wakes a sleeping thread if there is one.
NotifyOne(w) ==
  /\ Alive /\ pc[w] = "notify"
  /\ \/ /\ sleeping = {}
        /\ Goto(w, "out")
        /\ UNCHANGED sleeping
     \/ \E q \in sleeping :
          /\ sleeping' = sleeping \ {q}
          /\ pc' = [pc EXCEPT ![w] = "out", ![q] = "lock"]
  /\ UNCHANGED <<owner, pool, broken, mutex, lease>>

\* A thread goes on with a context that has been freed, or with the members of a
\* client that is gone: whatever the process does next, nothing is promised of it.
UseFreed(w) ==
  /\ \/ pc[w] = "execute" /\ lease[w] \in freed
     \/ ~ Alive /\ pc[w] \notin {"out", "execute"}
  /\ owner' = "undefined"
  /\ pc' = [q \in Workers |-> "undefined"]
  /\ UNCHANGED <<pool, broken, mutex, sleeping, lease>>

\* What a thread does by itself once it has called execute.
Run(w) ==
  \/ Lock(w) \/ MustWait(w) \/ Block(w) \/ Refuse(w) \/ Take(w)
  \/ Execute(w) \/ Release(w) \/ NotifyOne(w) \/ UseFreed(w)

Destroy == NotifyAll \/ FreeNext

Next ==
  \/ \E c \in Connections : Connect(c)
  \/ ConnectFails \/ Shutdown \/ Destroy
  \/ \E w \in Workers : Call(w) \/ Run(w) \/ SpuriousWakeup(w)

Spec == Init /\ [][Next]_vars

\* Threads run, Redis answers or breaks the connection, a destructor that has
\* started goes on, and a thread that again and again finds the mutex free gets
\* it (spurious wakeups may take and release it for ever).
FairSpec ==
  /\ Spec /\ WF_vars(Destroy)
  /\ \A w \in Workers : WF_vars(Run(w)) /\ SF_vars(Lock(w)) /\ SF_vars(Release(w))
-----------------------------------------------------------------------------
(* Properties. *)

Labels == {"out", "lock", "check", "block", "asleep", "execute", "release", "notify",
           "undefined"}

\* Every variable has its type.
TypeOK ==
  /\ owner \in {"constructing", "failed", "up", "notifying", "freeing", "gone", "undefined"}
  /\ all \in Seq(Connections) /\ available \in Seq(Connections)
  /\ shuttingDown \in BOOLEAN
  /\ freed \subseteq Connections /\ broken \subseteq Connections
  /\ mutex \in Workers \cup {None} /\ sleeping \subseteq Workers
  /\ pc \in [Workers -> Labels]
  /\ lease \in [Workers -> Connections \cup {None}]

Leased == {lease[w] : w \in Workers} \ {None}

\* A connection is used by one thread at a time and is never at once leased and
\* up for lease: replies of two threads cannot mix on one socket.
LeasesExclusive ==
  /\ \A w, q \in Workers : lease[w] # None /\ lease[w] = lease[q] => w = q
  /\ Range(available) \cap Leased = {}
  /\ \A i, j \in DOMAIN available : available[i] = available[j] => i = j

\* Threads that will look at the pool again, or wake one that will.
Alert == {w \in Workers : pc[w] \in {"lock", "check", "notify"}}

\* No wakeup is lost: while a thread sleeps, every available connection has a
\* thread on its way to take it or to wake one that will.
NoLostWakeup == ~ shuttingDown /\ sleeping # {} => Len(available) <= Cardinality(Alert)

\* The pool as its users see it.
Phase == CASE owner = "constructing" -> "opening"
           [] owner = "up" -> "open"
           [] owner \in {"notifying", "freeing"} -> "closing"
           [] owner \in {"failed", "gone", "undefined"} -> "closed"

Free == IF owner = "up" THEN Range(available) ELSE {}

Pool == INSTANCE ConnectionPool WITH phase <- Phase, free <- Free

\* RedisClient implements ConnectionPool: whatever way execute ends no context is
\* lost while the client is up, and none is leased once it shuts down, when
\* contexts are freed.
ImplementsPool == Pool!Spec

\* Unless threads keep calling an open client for ever, any of which may take a
\* connection before the thread that was woken for it, every call of execute returns
\* or throws; those the destructor overtakes may end in undefined behaviour instead.
CallsReturn ==
  <>[][(\E w \in Workers : Call(w)) => shuttingDown]_vars =>
    \A w \in Workers : pc[w] = "lock" ~> pc[w] \in {"out", "undefined"}
-----------------------------------------------------------------------------
(* The inductive invariant behind the theorems of RedisPoolProofs.           *)

\* Where a thread is tells what it has: the mutex, a lease, a place among the
\* sleeping; and what it saw under the mutex holds as long as it has the mutex.
ThreadInv(w) ==
  /\ pc[w] = "undefined" <=> owner = "undefined"
  /\ pc[w] # "undefined" =>
       /\ mutex = w <=> pc[w] \in {"check", "block"}
       /\ w \in sleeping <=> pc[w] = "asleep"
       /\ lease[w] # None <=> pc[w] \in {"execute", "release"}
  /\ pc[w] = "block" => ~ shuttingDown /\ available = << >>
  /\ owner \in {"constructing", "failed"} => pc[w] = "out"

\* How far the owner is tells what is in the vectors and what has been freed: a
\* prefix of all, so that the next one to free is there.
OwnerInv ==
  /\ shuttingDown <=> owner \in {"notifying", "freeing", "gone", "undefined"}
  /\ owner = "constructing" => available = all
  /\ owner \in {"constructing", "up", "notifying"} => freed = {}
  /\ IsInjective(all)
  /\ owner = "freeing" => \E k \in 0..Len(all) : freed = {all[i] : i \in 1..k}

IInv == OwnerInv /\ (\A w \in Workers : ThreadInv(w)) /\ LeasesExclusive /\ NoLostWakeup
=============================================================================
