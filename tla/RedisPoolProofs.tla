--------------------------- MODULE RedisPoolProofs ---------------------------
(***************************************************************************)
(* Theorems about RedisPool for any number of threads, connections and      *)
(* calls: the inductive invariant IInv, from it that no wakeup is lost, and *)
(* that every behaviour implements ConnectionPool.                          *)
(***************************************************************************)
EXTENDS RedisPool, FiniteSetTheorems, TLAPS

USE PoolConstants
-----------------------------------------------------------------------------
(* Lemmas about sequences used as stacks and about sets that gain or lose   *)
(* one member.                                                              *)

\* Append puts its element on top of the stack.
LEMMA PushProperties ==
  ASSUME NEW S, NEW s \in Seq(S), NEW e \in S
  PROVE  /\ Append(s, e) \in Seq(S) /\ Len(Append(s, e)) = Len(s) + 1
         /\ Range(Append(s, e)) = Range(s) \cup {e}
         /\ \A i \in 1..Len(s) : Append(s, e)[i] = s[i]
         /\ Append(s, e)[Len(s) + 1] = e
         /\ IsInjective(s) /\ e \notin Range(s) => IsInjective(Append(s, e))
<1>1. /\ Append(s, e) \in Seq(S) /\ Len(Append(s, e)) = Len(s) + 1
      /\ DOMAIN s = 1..Len(s) /\ DOMAIN Append(s, e) = 1..(Len(s) + 1)
      /\ \A i \in 1..Len(s) : Append(s, e)[i] = s[i]
      /\ Append(s, e)[Len(s) + 1] = e
      /\ Len(s) \in Nat
  OBVIOUS
<1>2. Range(Append(s, e)) = Range(s) \cup {e}
  BY <1>1 DEF Range
<1>3. IsInjective(s) /\ e \notin Range(s) => IsInjective(Append(s, e))
  BY <1>1 DEF IsInjective, Range
<1> QED BY <1>1, <1>2, <1>3

\* Taking the top of a stack leaves the rest of it.
LEMMA PopProperties ==
  ASSUME NEW S, NEW s \in Seq(S), s # << >>
  PROVE  /\ Front(s) \in Seq(S) /\ Len(Front(s)) = Len(s) - 1 /\ Len(s) > 0
         /\ Last(s) \in Range(s) /\ Range(Front(s)) \subseteq Range(s)
         /\ IsInjective(s) => /\ IsInjective(Front(s))
                              /\ Range(Front(s)) = Range(s) \ {Last(s)}
<1>1. Len(s) \in Nat /\ Len(s) > 0 /\ DOMAIN s = 1..Len(s)
  OBVIOUS
<1>2. /\ Front(s) \in Seq(S) /\ Len(Front(s)) = Len(s) - 1
      /\ DOMAIN Front(s) = 1..(Len(s) - 1)
      /\ \A i \in 1..(Len(s) - 1) : Front(s)[i] = s[i]
  BY <1>1 DEF Front
<1>3. Last(s) = s[Len(s)]
  BY DEF Last
<1>4. Last(s) \in Range(s) /\ Range(Front(s)) \subseteq Range(s)
  BY <1>1, <1>2, <1>3 DEF Range
<1>5. ASSUME IsInjective(s)
      PROVE  IsInjective(Front(s)) /\ Range(Front(s)) = Range(s) \ {Last(s)}
  BY <1>1, <1>2, <1>3, <1>5 DEF IsInjective, Range
<1> QED BY <1>1, <1>2, <1>4, <1>5

\* The first k members of a sequence without repetition are k.
LEMMA PrefixSize ==
  ASSUME NEW S, NEW s \in Seq(S), IsInjective(s), NEW k \in 0..Len(s)
  PROVE  Cardinality({s[i] : i \in 1..k}) = k
<1> DEFINE T == {s[i] : i \in 1..k}
           f == [i \in 1..k |-> s[i]]
<1>1. Len(s) \in Nat /\ DOMAIN s = 1..Len(s) /\ k \in Nat
  OBVIOUS
<1>2. f \in Bijection(1..k, T)
  <2>1. f \in [1..k -> T] /\ \A i, j \in 1..k : f[i] = f[j] => i = j
    BY <1>1 DEF IsInjective
  <2>2. \A t \in T : \E i \in 1..k : f[i] = t
    OBVIOUS
  <2> QED BY <2>1, <2>2 DEF Bijection, Injection, Surjection, IsInjective
<1>3. ExistsBijection(1..k, T)
  BY <1>2 DEF ExistsBijection
<1> QED BY <1>1, <1>3, FS_CountingElements
-----------------------------------------------------------------------------
(* The invariant holds initially.                                            *)

LEMMA InitInv == Init => TypeOK /\ IInv
<1> SUFFICES ASSUME Init PROVE TypeOK /\ IInv
  OBVIOUS
<1>1. TypeOK
  <2>1. << >> \in Seq(Connections)
    OBVIOUS
  <2> QED BY <2>1 DEF Init, TypeOK, Labels
<1>2. OwnerInv
  BY DEF Init, OwnerInv, IsInjective
<1>3. \A w \in Workers : ThreadInv(w)
  BY DEF Init, ThreadInv
<1>4. LeasesExclusive
  BY DEF Init, LeasesExclusive, Leased, Range
<1>5. NoLostWakeup
  BY DEF Init, NoLostWakeup
<1> QED BY <1>1, <1>2, <1>3, <1>4, <1>5 DEF IInv
-----------------------------------------------------------------------------
(* Lemmas about the properties one at a time: which steps leave them true.   *)

LEMMA AlertFinite ==
  ASSUME TypeOK
  PROVE  IsFiniteSet(Alert) /\ Cardinality(Alert) \in Nat /\ Len(available) \in Nat
<1>1. Alert \in SUBSET Workers
  BY DEF Alert
<1> QED BY <1>1, FS_Subset, FS_CardinalityType DEF TypeOK

\* Leases are exclusive as long as no context is leased, given back or dropped.
LEMMA LeasesFrame ==
  ASSUME LeasesExclusive, UNCHANGED <<available, lease>>
  PROVE  LeasesExclusive'
BY DEF LeasesExclusive, Leased

\* A thread that becomes alert makes up for one connection more.
LEMMA AlertGained ==
  ASSUME TypeOK, NoLostWakeup, NEW w \in Workers, NEW l \in {"lock", "check", "notify"},
         pc' = [pc EXCEPT ![w] = l], sleeping' \subseteq sleeping, UNCHANGED shuttingDown,
         available' = available \/ (w \notin Alert /\ \E c \in Connections : available' = Append(available, c))
  PROVE  NoLostWakeup'
<1>1. Alert' = Alert \cup {w}
  BY DEF TypeOK, Alert
<1>2. Cardinality(Alert') = IF w \in Alert THEN Cardinality(Alert) ELSE Cardinality(Alert) + 1
  BY <1>1, AlertFinite, FS_AddElement
<1>3. Len(available') = Len(available)
      \/ (w \notin Alert /\ Len(available') = Len(available) + 1)
  BY DEF TypeOK
<1>4. sleeping' # {} => sleeping # {}
  OBVIOUS
<1> QED BY <1>2, <1>3, <1>4, AlertFinite DEF NoLostWakeup

\* A thread that was not alert and does not become so changes nothing.
LEMMA AlertFrame ==
  ASSUME TypeOK, NoLostWakeup, NEW w \in Workers, NEW l \in Labels, w \notin Alert,
         l \notin {"lock", "check", "notify"},
         pc' = [pc EXCEPT ![w] = l], UNCHANGED <<sleeping, shuttingDown, available>>
  PROVE  NoLostWakeup'
<1>1. Alert' = Alert
  BY DEF TypeOK, Alert
<1> QED BY <1>1 DEF NoLostWakeup

\* With nothing to lease there is nothing to wake up for.
LEMMA NothingToTake ==
  ASSUME TypeOK', available' = << >> \/ shuttingDown' \/ sleeping' = {}
  PROVE  NoLostWakeup'
<1>1. Alert' \in SUBSET Workers
  BY DEF Alert, TypeOK
<1>2. Cardinality(Alert') \in Nat
  BY <1>1, FS_Subset, FS_CardinalityType
<1> QED BY <1>2 DEF NoLostWakeup
-----------------------------------------------------------------------------
(* Steps of the owner.                                                       *)

LEMMA ConnectInv ==
  ASSUME TypeOK, IInv, NEW c \in Connections, Connect(c)
  PROVE  TypeOK' /\ IInv'
<1> USE DEF Connect, pool, thread
<1>1. /\ Append(all, c) \in Seq(Connections) /\ Range(Append(all, c)) = Range(all) \cup {c}
      /\ IsInjective(Append(all, c)) /\ available = all
  BY PushProperties DEF TypeOK, IInv, OwnerInv
<1>2. \A w \in Workers : pc[w] = "out" /\ lease[w] = None /\ w \notin sleeping
  BY DEF IInv, ThreadInv
<1>3. TypeOK'
  BY <1>1 DEF TypeOK
<1>4. OwnerInv'
  BY <1>1 DEF IInv, OwnerInv
<1>5. \A w \in Workers : ThreadInv(w)'
  BY DEF IInv, ThreadInv
<1>6. LeasesExclusive'
  <2>1. Leased' = {}
    BY <1>2 DEF Leased
  <2> QED BY <1>1, <1>2, <2>1 DEF LeasesExclusive, IsInjective
<1>7. NoLostWakeup'
  BY <1>2, <1>3, NothingToTake DEF TypeOK
<1> QED BY <1>3, <1>4, <1>5, <1>6, <1>7 DEF IInv

LEMMA ConnectFailsInv ==
  ASSUME TypeOK, IInv, ConnectFails
  PROVE  TypeOK' /\ IInv'
<1> USE DEF ConnectFails, thread
<1>1. TypeOK'
  <2>1. Range(all) \subseteq Connections
    BY DEF TypeOK, Range
  <2> QED BY <2>1 DEF TypeOK
<1>2. OwnerInv'
  BY DEF IInv, OwnerInv, IsInjective
<1>3. \A w \in Workers : ThreadInv(w)'
  BY DEF IInv, ThreadInv
<1>4. LeasesExclusive'
  BY DEF IInv, LeasesExclusive, Leased, Range
<1> QED BY <1>1, <1>2, <1>3, <1>4, NothingToTake DEF IInv

LEMMA ShutdownInv ==
  ASSUME TypeOK, IInv, Shutdown
  PROVE  TypeOK' /\ IInv'
<1> USE DEF Shutdown, thread
<1>1. TypeOK'
  BY DEF TypeOK
<1>2. OwnerInv'
  BY DEF IInv, OwnerInv
<1>3. \A w \in Workers : ThreadInv(w)'
  BY DEF IInv, ThreadInv
<1> QED BY <1>1, <1>2, <1>3, LeasesFrame, NothingToTake DEF IInv

LEMMA NotifyAllInv ==
  ASSUME TypeOK, IInv, NotifyAll
  PROVE  TypeOK' /\ IInv'
<1> USE DEF NotifyAll, pool
<1>1. TypeOK'
  BY DEF TypeOK, Labels
<1>2. OwnerInv'
  <2>1. Len(all) \in Nat /\ freed = {all[i] : i \in 1..0}
    BY DEF TypeOK, IInv, OwnerInv
  <2>2. 0 \in 0..Len(all)
    BY <2>1
  <2> QED BY <2>1, <2>2 DEF IInv, OwnerInv
<1>3. \A w \in Workers : ThreadInv(w)'
  BY DEF TypeOK, IInv, OwnerInv, ThreadInv
<1>4. NoLostWakeup'
  BY <1>1, NothingToTake
<1> QED BY <1>1, <1>2, <1>3, <1>4, LeasesFrame DEF IInv

\* Since what is freed is a prefix of all, the next context to free is there.
LEMMA FreeNextInv ==
  ASSUME TypeOK, IInv, FreeNext
  PROVE  TypeOK' /\ IInv'
<1> USE DEF FreeNext, thread
<1>0. shuttingDown /\ owner = "freeing"
  BY DEF IInv, OwnerInv
<1>1. TypeOK' /\ OwnerInv'
  <2>1. CASE Range(all) \subseteq freed
    BY <1>0, <2>1 DEF TypeOK, IInv, OwnerInv, IsInjective
  <2>2. CASE ~ (Range(all) \subseteq freed)
    <3>1. PICK k \in 0..Len(all) : freed = {all[i] : i \in 1..k}
      BY <1>0 DEF IInv, OwnerInv
    <3>2. Len(all) \in Nat /\ DOMAIN all = 1..Len(all) /\ \A i \in 1..Len(all) : all[i] \in Connections
      BY DEF TypeOK
    <3>3. k # Len(all)
      BY <2>2, <3>1, <3>2 DEF Range
    <3>4. Cardinality(freed) = k
      BY <3>1, PrefixSize DEF TypeOK, IInv, OwnerInv
    <3>5. k + 1 \in 1..Len(all) /\ k + 1 \in 0..Len(all)
      <4>1. k \in Nat /\ Len(all) \in Nat /\ k <= Len(all)
        BY <3>2
      <4> QED BY ONLY <3>3, <4>1
    <3>6. 1..(k + 1) = (1..k) \cup {k + 1}
      BY <3>2
    <3>7. freed' = {all[i] : i \in 1..(k + 1)} /\ UNCHANGED <<owner, all, available>>
      BY <2>2, <3>1, <3>4, <3>6
    <3>8. freed' \subseteq Connections
      BY <3>2, <3>5, <3>7
    <3>9. TypeOK'
      BY <3>7, <3>8 DEF TypeOK
    <3>10. OwnerInv'
      BY <1>0, <3>5, <3>7 DEF IInv, OwnerInv
    <3> QED BY <3>9, <3>10
  <2> QED BY <2>1, <2>2
<1>2. \A w \in Workers : ThreadInv(w)'
  BY <1>0 DEF IInv, ThreadInv
<1>3. LeasesExclusive'
  BY DEF IInv, LeasesExclusive, Leased, Range
<1> QED BY <1>0, <1>1, <1>2, <1>3, NothingToTake DEF IInv
-----------------------------------------------------------------------------
(* Steps of a thread.                                                        *)

LEMMA CallInv ==
  ASSUME TypeOK, IInv, NEW w \in Workers, Call(w)
  PROVE  TypeOK' /\ IInv'
<1> USE DEF Call, Goto, pool
<1>1. TypeOK'
  BY DEF TypeOK, Labels
<1>2. OwnerInv'
  BY DEF IInv, OwnerInv
<1>3. \A q \in Workers : ThreadInv(q)'
  BY DEF TypeOK, IInv, ThreadInv
<1>4. NoLostWakeup'
  BY AlertGained DEF IInv
<1> QED BY <1>1, <1>2, <1>3, <1>4, LeasesFrame DEF IInv

LEMMA LockInv ==
  ASSUME TypeOK, IInv, NEW w \in Workers, Lock(w)
  PROVE  TypeOK' /\ IInv'
<1> USE DEF Lock, Goto, pool
<1>1. TypeOK'
  BY DEF TypeOK, Labels
<1>2. OwnerInv'
  BY DEF IInv, OwnerInv
<1>3. \A q \in Workers : ThreadInv(q)'
  BY DEF TypeOK, IInv, ThreadInv
<1>4. NoLostWakeup'
  BY AlertGained DEF IInv
<1> QED BY <1>1, <1>2, <1>3, <1>4, LeasesFrame DEF IInv

LEMMA MustWaitInv ==
  ASSUME TypeOK, IInv, NEW w \in Workers, MustWait(w)
  PROVE  TypeOK' /\ IInv'
<1> USE DEF MustWait, Goto, pool
<1>1. TypeOK'
  BY DEF TypeOK, Labels
<1>2. OwnerInv'
  BY DEF IInv, OwnerInv
<1>3. \A q \in Workers : ThreadInv(q)'
  BY DEF TypeOK, IInv, ThreadInv
<1> QED BY <1>1, <1>2, <1>3, LeasesFrame, NothingToTake DEF IInv

\* What the thread saw under the mutex still holds when it begins to wait.
LEMMA BlockInv ==
  ASSUME TypeOK, IInv, NEW w \in Workers, Block(w)
  PROVE  TypeOK' /\ IInv'
<1> USE DEF Block, Goto, pool
<1>1. TypeOK'
  BY DEF TypeOK, Labels
<1>2. OwnerInv'
  BY DEF IInv, OwnerInv
<1>3. \A q \in Workers : ThreadInv(q)'
  BY DEF TypeOK, IInv, ThreadInv
<1>4. available' = << >>
  BY DEF IInv, ThreadInv
<1> QED BY <1>1, <1>2, <1>3, <1>4, LeasesFrame, NothingToTake DEF IInv

LEMMA SpuriousWakeupInv ==
  ASSUME TypeOK, IInv, NEW w \in Workers, SpuriousWakeup(w)
  PROVE  TypeOK' /\ IInv'
<1> USE DEF SpuriousWakeup, Goto, pool
<1>1. TypeOK'
  BY DEF TypeOK, Labels
<1>2. OwnerInv'
  BY DEF IInv, OwnerInv
<1>3. \A q \in Workers : ThreadInv(q)'
  BY DEF TypeOK, IInv, ThreadInv
<1>4. NoLostWakeup'
  BY AlertGained DEF IInv
<1> QED BY <1>1, <1>2, <1>3, <1>4, LeasesFrame DEF IInv

LEMMA RefuseInv ==
  ASSUME TypeOK, IInv, NEW w \in Workers, Refuse(w)
  PROVE  TypeOK' /\ IInv'
<1> USE DEF Refuse, Goto, pool
<1>1. TypeOK'
  BY DEF TypeOK, Labels
<1>2. OwnerInv'
  BY DEF IInv, OwnerInv
<1>3. \A q \in Workers : ThreadInv(q)'
  BY DEF TypeOK, IInv, ThreadInv
<1> QED BY <1>1, <1>2, <1>3, LeasesFrame, NothingToTake DEF IInv

\* The thread that takes a connection is no longer alert, and there is one
\* connection less to take.
LEMMA TakeInv ==
  ASSUME TypeOK, IInv, NEW w \in Workers, Take(w)
  PROVE  TypeOK' /\ IInv'
<1> USE DEF Take, Goto
<1>0. /\ Front(available) \in Seq(Connections) /\ Len(Front(available)) = Len(available) - 1
      /\ Last(available) \in Range(available) /\ Last(available) \in Connections
      /\ IsInjective(Front(available))
      /\ Range(Front(available)) = Range(available) \ {Last(available)}
  <2>1. IsInjective(available)
    BY DEF IInv, LeasesExclusive, IsInjective
  <2>2. Range(available) \subseteq Connections
    BY DEF TypeOK, Range
  <2> QED BY <2>1, <2>2, PopProperties DEF TypeOK
<1>1. TypeOK'
  BY <1>0 DEF TypeOK, Labels
<1>2. OwnerInv'
  <2>1. owner # "constructing"
    BY DEF IInv, ThreadInv
  <2> QED BY <2>1 DEF IInv, OwnerInv
<1>3. \A q \in Workers : ThreadInv(q)'
  BY <1>0 DEF TypeOK, IInv, ThreadInv
<1>4. LeasesExclusive'
  <2>1. Last(available) \notin Leased
    BY <1>0 DEF IInv, LeasesExclusive
  <2>2. \A q \in Workers : q # w => lease'[q] = lease[q] /\ lease[q] # Last(available)
    BY <1>0, <2>1 DEF TypeOK, Leased
  <2>3. lease'[w] = Last(available)
    BY DEF TypeOK
  <2>4. Leased' = Leased \cup {Last(available)}
    <3>1. lease[w] = None
      BY DEF IInv, ThreadInv
    <3> QED BY <1>0, <2>2, <2>3, <3>1 DEF Leased
  <2>5. \A q, v \in Workers : lease'[q] # None /\ lease'[q] = lease'[v] => q = v
    BY <2>2, <2>3 DEF IInv, LeasesExclusive
  <2>6. Range(available') \cap Leased' = {}
    BY <1>0, <2>4 DEF IInv, LeasesExclusive
  <2> QED BY <1>0, <2>5, <2>6 DEF LeasesExclusive, IsInjective
<1>5. NoLostWakeup'
  <2>1. Alert' = Alert \ {w} /\ w \in Alert
    BY DEF TypeOK, Alert
  <2>2. Cardinality(Alert') = Cardinality(Alert) - 1
    BY <2>1, AlertFinite, FS_RemoveElement
  <2> QED BY <1>0, <2>2, AlertFinite DEF IInv, NoLostWakeup
<1> QED BY <1>1, <1>2, <1>3, <1>4, <1>5 DEF IInv

LEMMA ExecuteInv ==
  ASSUME TypeOK, IInv, NEW w \in Workers, Execute(w)
  PROVE  TypeOK' /\ IInv'
<1> USE DEF Execute, Goto, pool
<1>1. TypeOK'
  <2>1. lease[w] \in Connections
    BY DEF TypeOK, IInv, ThreadInv
  <2> QED BY <2>1 DEF TypeOK, Labels
<1>2. OwnerInv'
  BY DEF IInv, OwnerInv
<1>3. \A q \in Workers : ThreadInv(q)'
  BY DEF TypeOK, IInv, ThreadInv
<1>4. NoLostWakeup'
  <2>1. w \notin Alert
    BY DEF Alert
  <2> QED BY <2>1, AlertFrame DEF IInv, Labels
<1> QED BY <1>1, <1>2, <1>3, <1>4, LeasesFrame DEF IInv

\* The thread that gives a connection back is alert until it has notified.
LEMMA ReleaseInv ==
  ASSUME TypeOK, IInv, NEW w \in Workers, Release(w)
  PROVE  TypeOK' /\ IInv'
<1> USE DEF Release, Goto
<1>0. /\ lease[w] \in Connections /\ owner # "constructing"
      /\ lease[w] \notin Range(available) /\ IsInjective(available)
  BY DEF TypeOK, IInv, ThreadInv, LeasesExclusive, Leased, IsInjective
<1> DEFINE pushed == Append(available, lease[w])
<1>1. /\ pushed \in Seq(Connections) /\ IsInjective(pushed)
      /\ Range(pushed) = Range(available) \cup {lease[w]}
  BY <1>0, PushProperties DEF TypeOK
<1>2. TypeOK'
  BY <1>1 DEF TypeOK, Labels
<1>3. OwnerInv'
  BY <1>0 DEF IInv, OwnerInv
<1>4. \A q \in Workers : ThreadInv(q)'
  BY DEF TypeOK, IInv, ThreadInv
<1>5. LeasesExclusive'
  <2>1. lease'[w] = None /\ \A q \in Workers : q # w => lease'[q] = lease[q] /\ lease[q] # lease[w]
    BY <1>0 DEF TypeOK, IInv, LeasesExclusive
  <2>2. Leased' \subseteq Leased \ {lease[w]}
    BY <2>1 DEF Leased
  <2>3. \A q, v \in Workers : lease'[q] # None /\ lease'[q] = lease'[v] => q = v
    BY <2>1 DEF IInv, LeasesExclusive
  <2>4. Range(available') \cap Leased' = {}
    BY <1>1, <2>2 DEF IInv, LeasesExclusive
  <2>5. IsInjective(available')
    BY <1>0, <1>1
  <2> QED BY <2>3, <2>4, <2>5 DEF LeasesExclusive, IsInjective
<1>6. NoLostWakeup'
  <2>1. CASE shuttingDown
    BY <1>2, <2>1, NothingToTake
  <2>2. CASE ~ shuttingDown
    <3>1. w \notin Alert
      BY DEF Alert
    <3> QED BY <1>0, <2>2, <3>1, AlertGained DEF IInv
  <2> QED BY <2>1, <2>2
<1> QED BY <1>2, <1>3, <1>4, <1>5, <1>6 DEF IInv

\* Nobody sleeps any more, so no wakeup can be lost.
LEMMA UseFreedInv ==
  ASSUME TypeOK, IInv, NEW w \in Workers, UseFreed(w)
  PROVE  TypeOK' /\ IInv'
<1> USE DEF UseFreed, Alive, pool
<1>0. shuttingDown
  BY DEF TypeOK, IInv, OwnerInv, ThreadInv
<1>1. TypeOK'
  BY DEF TypeOK, Labels
<1>2. OwnerInv'
  BY <1>0 DEF IInv, OwnerInv
<1>3. \A q \in Workers : ThreadInv(q)'
  BY <1>0 DEF TypeOK, IInv, OwnerInv, ThreadInv
<1> QED BY <1>0, <1>1, <1>2, <1>3, LeasesFrame, NothingToTake DEF IInv

\* The notification passes the alert from one thread to another.
LEMMA NotifyOneInv ==
  ASSUME TypeOK, IInv, NEW w \in Workers, NotifyOne(w)
  PROVE  TypeOK' /\ IInv'
<1> USE DEF NotifyOne, Goto, pool
<1>1. TypeOK'
  BY DEF TypeOK, Labels
<1>2. OwnerInv'
  BY DEF IInv, OwnerInv
<1>3. \A q \in Workers : ThreadInv(q)'
  BY DEF TypeOK, IInv, ThreadInv
<1>4. NoLostWakeup'
  <2>1. CASE sleeping' = {}
    BY <1>1, <2>1, NothingToTake
  <2>2. ASSUME NEW q \in sleeping, pc' = [pc EXCEPT ![w] = "out", ![q] = "lock"]
        PROVE  NoLostWakeup'
    <3>1. q \in Workers /\ pc[q] = "asleep" /\ q # w
      BY DEF TypeOK, IInv, ThreadInv
    <3>2. Alert' = (Alert \ {w}) \cup {q} /\ w \in Alert /\ q \notin Alert
      BY <2>2, <3>1 DEF TypeOK, Alert
    <3>3. IsFiniteSet(Alert \ {w}) /\ Cardinality(Alert \ {w}) = Cardinality(Alert) - 1
      BY <3>2, AlertFinite, FS_RemoveElement
    <3>4. Cardinality(Alert') = Cardinality(Alert)
      <4>1. Cardinality((Alert \ {w}) \cup {q}) = Cardinality(Alert \ {w}) + 1
        BY <3>2, <3>3, FS_AddElement
      <4> QED BY <3>2, <3>3, <4>1, AlertFinite
    <3> QED BY <3>4 DEF IInv, NoLostWakeup
  <2> QED BY <2>1, <2>2
<1> QED BY <1>1, <1>2, <1>3, <1>4, LeasesFrame DEF IInv
-----------------------------------------------------------------------------
(* The theorems.                                                             *)

LEMMA StepInv == TypeOK /\ IInv /\ [Next]_vars => TypeOK' /\ IInv'
<1> SUFFICES ASSUME TypeOK, IInv, [Next]_vars PROVE TypeOK' /\ IInv'
  OBVIOUS
<1>1. ASSUME NEW c \in Connections, Connect(c) PROVE TypeOK' /\ IInv'
  BY <1>1, ConnectInv
<1>2. CASE ConnectFails
  BY <1>2, ConnectFailsInv
<1>3. CASE Shutdown
  BY <1>3, ShutdownInv
<1>4. CASE Destroy
  BY <1>4, NotifyAllInv, FreeNextInv DEF Destroy
<1>5. ASSUME NEW w \in Workers, Call(w) \/ Run(w) \/ SpuriousWakeup(w) PROVE TypeOK' /\ IInv'
  BY <1>5, CallInv, LockInv, MustWaitInv, BlockInv, RefuseInv, TakeInv, ExecuteInv,
     ReleaseInv, NotifyOneInv, UseFreedInv, SpuriousWakeupInv DEF Run
<1>6. CASE UNCHANGED vars
  <2>1. TypeOK'
    BY <1>6 DEF TypeOK, vars, pool, thread
  <2>2. OwnerInv' /\ \A w \in Workers : ThreadInv(w)'
    BY <1>6 DEF IInv, OwnerInv, ThreadInv, vars, pool, thread
  <2>3. LeasesExclusive' /\ NoLostWakeup'
    BY <1>6 DEF IInv, LeasesExclusive, Leased, NoLostWakeup, Alert, vars, pool, thread
  <2> QED BY <2>1, <2>2, <2>3 DEF IInv
<1> QED BY <1>1, <1>2, <1>3, <1>4, <1>5, <1>6 DEF Next

\* Variables keep their types and the invariant holds, in every behaviour.
THEOREM Invariance == Spec => [](TypeOK /\ IInv)
BY InitInv, StepInv, PTL DEF Spec

\* RedisClient never lets two threads use one context, nor leases one that is
\* also in availableConnections_.
THEOREM Exclusive == Spec => []LeasesExclusive
BY Invariance, PTL DEF IInv

\* The notifications of releaseConnection are enough: while a thread waits on
\* poolCondition_, every available connection has a thread that will look for it.
THEOREM Wakeups == Spec => []NoLostWakeup
BY Invariance, PTL DEF IInv
-----------------------------------------------------------------------------
(* RedisClient implements ConnectionPool.                                    *)

LEMMA PoolInit == Init => Pool!Init
BY DEF Init, Pool!Init, Phase, Free

\* The owner opens the pool with its last connection, and closes it.
LEMMA OwnerStep ==
  ASSUME TypeOK, IInv,
         (\E c \in Connections : Connect(c)) \/ ConnectFails \/ Shutdown \/ Destroy
  PROVE  [Pool!Next]_(Pool!vars)
<1> USE DEF Phase, Free, Pool!vars
<1>1. ASSUME NEW c \in Connections, Connect(c)
      PROVE  Pool!Open \/ UNCHANGED Pool!vars
  <2>1. CASE owner' = "up"
    <3>1. Free' = Range(available) \cup {c}
      BY <1>1, <2>1, PushProperties DEF Connect, TypeOK
    <3>2. Range(available) \subseteq Connections
      BY DEF TypeOK, Range
    <3> QED BY <1>1, <2>1, <3>1, <3>2 DEF Connect, thread, Pool!Open
  <2>2. CASE owner' # "up"
    <3>1. owner' = "constructing" /\ UNCHANGED lease /\ owner = "constructing"
      BY <1>1, <2>2 DEF Connect, thread
    <3> QED BY <3>1
  <2> QED BY <2>1, <2>2
<1>2. ASSUME ConnectFails PROVE Pool!Open
  BY <1>2 DEF ConnectFails, thread, Pool!Open
<1>3. ASSUME Shutdown PROVE Pool!Close
  BY <1>3 DEF Shutdown, thread, Pool!Close
<1>4. ASSUME NotifyAll PROVE UNCHANGED Pool!vars
  BY <1>4 DEF NotifyAll
<1>5. ASSUME FreeNext PROVE Pool!Close \/ UNCHANGED Pool!vars
  BY <1>5 DEF FreeNext, thread, Pool!Close
<1> QED BY <1>1, <1>2, <1>3, <1>4, <1>5 DEF Destroy, Pool!Next

\* A thread leases what it pops and returns what it pushes.
LEMMA ThreadStep ==
  ASSUME TypeOK, IInv, NEW w \in Workers, Call(w) \/ Run(w) \/ SpuriousWakeup(w)
  PROVE  [Pool!Next]_(Pool!vars)
<1> USE DEF Phase, Free, Pool!vars
<1>1. ASSUME Call(w) \/ Lock(w) \/ MustWait(w) \/ Block(w) \/ SpuriousWakeup(w) \/ Refuse(w)
             \/ Execute(w) \/ NotifyOne(w)
      PROVE  UNCHANGED Pool!vars
  <2>1. UNCHANGED <<owner, available, lease>>
    BY <1>1 DEF Call, Lock, MustWait, Block, SpuriousWakeup, Refuse, Execute, NotifyOne, pool
  <2> QED BY <2>1
<1>2. ASSUME Take(w) PROVE Pool!Lease(w)
  <2>1. owner = "up" /\ lease[w] = None
    BY <1>2 DEF Take, TypeOK, IInv, OwnerInv, ThreadInv
  <2>2. IsInjective(available)
    BY DEF IInv, LeasesExclusive, IsInjective
  <2>3. /\ Last(available) \in Range(available)
        /\ Range(Front(available)) = Range(available) \ {Last(available)}
    BY <1>2, <2>2, PopProperties DEF Take, TypeOK
  <2> QED BY <1>2, <2>1, <2>3 DEF Take, Pool!Lease
<1>3. ASSUME Release(w) PROVE Pool!Return(w)
  <2>1. lease[w] # None /\ lease[w] \in Connections /\ owner # "constructing"
    BY <1>3 DEF Release, TypeOK, IInv, ThreadInv
  <2>2. shuttingDown <=> owner # "up"
    BY <1>3, <2>1 DEF Release, TypeOK, IInv, OwnerInv, ThreadInv
  <2>3. Range(Append(available, lease[w])) = Range(available) \cup {lease[w]}
    BY <2>1, PushProperties DEF TypeOK
  <2>4. (Phase = "open" <=> owner = "up") /\ UNCHANGED Phase
    BY <1>3 DEF Release, TypeOK
  <2>5. lease' = [lease EXCEPT ![w] = None]
    BY <1>3 DEF Release
  <2>6. Free' = IF Phase = "open" THEN Free \cup {lease[w]} ELSE Free
    BY <1>3, <2>2, <2>3, <2>4 DEF Release
  <2> QED BY <2>1, <2>4, <2>5, <2>6 DEF Pool!Return
<1>4. ASSUME UseFreed(w) PROVE Pool!Close \/ UNCHANGED Pool!vars
  <2>1. owner \in {"freeing", "gone"} /\ owner' = "undefined" /\ UNCHANGED lease
    BY <1>4 DEF UseFreed, Alive, TypeOK, IInv, OwnerInv, ThreadInv
  <2> QED BY <2>1 DEF Pool!Close
<1> QED BY <1>1, <1>2, <1>3, <1>4 DEF Run, Pool!Next

\* Whatever way execute ends and whenever the destructor starts, no context is
\* lost while the client is up and none is leased once it shuts down.
THEOREM Refinement == Spec => ImplementsPool
<1>1. TypeOK /\ IInv /\ [Next]_vars => [Pool!Next]_(Pool!vars)
  <2> SUFFICES ASSUME TypeOK, IInv, [Next]_vars PROVE [Pool!Next]_(Pool!vars)
    OBVIOUS
  <2>1. CASE UNCHANGED vars
    BY <2>1 DEF vars, pool, thread, Pool!vars, Phase, Free
  <2> QED BY <2>1, OwnerStep, ThreadStep DEF Next
<1> QED BY <1>1, PoolInit, Invariance, PTL DEF Spec, ImplementsPool, Pool!Spec
=============================================================================
