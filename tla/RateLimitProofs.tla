--------------------------- MODULE RateLimitProofs ---------------------------
(***************************************************************************)
(* Theorems about RateLimit for any number of threads and requests, any     *)
(* limit and any delays.  That the key's time to live does not overflow is  *)
(* a hypothesis of the theorems that need it, never an assumption: the      *)
(* constructor of RateLimitCache accepts windows for which it does.         *)
(***************************************************************************)
EXTENDS RateLimit, FiniteSetTheorems, TLAPS

USE RateLimitConstants
-----------------------------------------------------------------------------
(* The sorted set never exceeds the limit.                                   *)

LEMMA TtlType == TtlMs \in Int /\ (TtlFits => TtlMs = 2 * WindowMs)
BY DEF TtlMs, Wrapped, TtlFits

\* A purge leaves a finite part of a finite set.
LEMMA WindowPart ==
  ASSUME IsFiniteSet(entries), NEW c
  PROVE  /\ Window(c) \subseteq entries
         /\ IsFiniteSet(Window(c)) /\ Cardinality(Window(c)) \in Nat
         /\ Cardinality(Window(c)) <= Cardinality(entries)
<1>1. Window(c) \in SUBSET entries
  BY DEF Window, Live
<1> QED BY <1>1, FS_Subset, FS_CardinalityType

LEMMA InitInv == Init => TypeOK /\ IInv
<1> SUFFICES ASSUME Init PROVE TypeOK /\ IInv
  OBVIOUS
<1>1. TypeOK
  BY DEF Init, TypeOK
<1>2. IInv
  BY FS_EmptySet DEF Init, IInv, WithinLimit, CallInv
<1> QED BY <1>1, <1>2

LEMMA BeginInv ==
  ASSUME TypeOK, IInv, NEW w \in Threads, NEW id \in Ids, Begin(w, id)
  PROVE  TypeOK' /\ IInv'
<1>1. [id |-> id, at |-> clock] \in Requests
  BY DEF TypeOK, Requests
<1>2. TypeOK'
  BY <1>1 DEF Begin, TypeOK
<1>3. CallInv'
  BY DEF Begin, TypeOK, IInv, CallInv
<1> QED BY <1>2, <1>3 DEF Begin, IInv, WithinLimit

\* The script without ZADD: what it leaves is what it purged.
LEMMA PurgeInv ==
  ASSUME TypeOK, IInv, NEW w \in Threads, EvalRetry(w) \/ EvalReject(w)
  PROVE  TypeOK' /\ IInv'
<1> DEFINE c == call[w]
           kept == Window(c)
<1>1. /\ kept \subseteq entries /\ IsFiniteSet(kept) /\ Cardinality(kept) \in Nat
      /\ Cardinality(kept) <= Cardinality(entries) /\ Cardinality(entries) \in Nat
  BY WindowPart, FS_CardinalityType DEF IInv
<1>2. c \in Requests
  BY DEF EvalRetry, EvalReject, TypeOK
<1>3. /\ entries' = kept /\ call' = [call EXCEPT ![w] = None]
      /\ UNCHANGED <<clock, admitted>>
      /\ expireAt' = expireAt \/ expireAt' = clock + TtlMs
      /\ \E allowed \in BOOLEAN :
           decision' = [call |-> c, allowed |-> allowed, count |-> Cardinality(kept)]
  BY DEF EvalRetry, EvalReject
<1> HIDE DEF c, kept
<1>4. TypeOK'
  BY <1>1, <1>2, <1>3, TtlType DEF TypeOK
<1>5. WithinLimit'
  BY <1>1, <1>3 DEF IInv, WithinLimit
<1>6. CallInv'
  BY <1>3 DEF TypeOK, IInv, CallInv
<1> QED BY <1>1, <1>3, <1>4, <1>5, <1>6 DEF IInv

\* ZADD: there was room, and the id was not there.
LEMMA EvalAdmitInv ==
  ASSUME TypeOK, IInv, NEW w \in Threads, EvalAdmit(w)
  PROVE  TypeOK' /\ IInv'
<1> DEFINE c == call[w]
           kept == Window(c)
<1>1. /\ kept \subseteq entries /\ IsFiniteSet(kept) /\ Cardinality(kept) \in Nat
      /\ Cardinality(kept) < Limit
  BY WindowPart DEF IInv, EvalAdmit, HasRoom
<1>2. c \in Requests /\ \A e \in kept : e.id # c.id
  BY DEF EvalAdmit, TypeOK
<1>3. /\ entries' = kept \cup {c} /\ call' = [call EXCEPT ![w] = None]
      /\ clock' = clock /\ admitted' = admitted \cup {c} /\ expireAt' = clock + TtlMs
      /\ decision' = [call |-> c, allowed |-> TRUE, count |-> Cardinality(kept) + 1]
  BY DEF EvalAdmit
<1> HIDE DEF c, kept
<1>4. /\ IsFiniteSet(kept \cup {c})
      /\ Cardinality(kept \cup {c}) = Cardinality(kept) \/ Cardinality(kept \cup {c}) = Cardinality(kept) + 1
  BY <1>1, FS_AddElement
<1>5. TypeOK'
  BY <1>1, <1>2, <1>3, TtlType DEF TypeOK
<1>6. WithinLimit'
  BY <1>1, <1>2, <1>3, <1>4 DEF IInv, WithinLimit
<1>7. CallInv'
  BY <1>3 DEF TypeOK, IInv, CallInv
<1> QED BY <1>3, <1>4, <1>5, <1>6, <1>7 DEF IInv

LEMMA StepInv == TypeOK /\ IInv /\ [Next]_vars => TypeOK' /\ IInv'
<1> SUFFICES ASSUME TypeOK, IInv, [Next]_vars PROVE TypeOK' /\ IInv'
  OBVIOUS
<1>1. CASE Tick
  <2>1. TypeOK'
    BY <1>1 DEF Tick, TypeOK
  <2>2. CallInv'
    BY <1>1 DEF Tick, TypeOK, IInv, CallInv, Requests
  <2> QED BY <1>1, <2>1, <2>2 DEF Tick, IInv, WithinLimit
<1>2. ASSUME NEW w \in Threads, Drop(w) PROVE TypeOK' /\ IInv'
  BY <1>2 DEF Drop, TypeOK, IInv, WithinLimit, CallInv
<1>3. ASSUME NEW w \in Threads, Eval(w) PROVE TypeOK' /\ IInv'
  BY <1>3, PurgeInv, EvalAdmitInv DEF Eval
<1>4. CASE UNCHANGED vars
  BY <1>4 DEF vars, TypeOK, IInv, WithinLimit, CallInv
<1> QED BY <1>1, <1>2, <1>3, <1>4, BeginInv DEF Next

THEOREM Invariance == Spec => [](TypeOK /\ IInv)
BY InitInv, StepInv, PTL DEF Spec

\* However many threads call checkAndRecord and however late their calls reach
\* Redis, the set never exceeds the limit and no caller is told a count that does.
THEOREM Limited == Spec => []WithinLimit
BY Invariance, PTL DEF IInv
-----------------------------------------------------------------------------
(* Nothing that counts is forgotten, if the time to live does not overflow.   *)

LEMMA ExpiryInit == ASSUME TtlFits, Init PROVE ExpiryInv
<1> TtlMs \in Nat
  BY TtlType
<1> QED BY DEF Init, ExpiryInv

\* What was admitted in the window that ends now survives every purge: the key
\* has not expired, and the purge is that of a window that ended earlier.
LEMMA CountedSurvives ==
  ASSUME TypeOK, IInv, ExpiryInv, TtlFits, NEW w \in Threads, call[w] # None,
         NEW a \in admitted, a.at > clock - WindowMs
  PROVE  a \in Live /\ a \in Window(call[w])
<1>1. a.at \in Int /\ clock \in Int /\ expireAt \in Int /\ call[w].at \in Int /\ call[w].at <= clock
  BY DEF TypeOK, Requests, IInv, CallInv
<1>2. a \in entries /\ a.at + 2 * WindowMs <= expireAt
  BY TtlType DEF ExpiryInv
<1>3. a \in Live
  BY <1>1, <1>2 DEF Live
<1> QED BY <1>1, <1>3 DEF Window

LEMMA ExpiryStep ==
  ASSUME TypeOK, IInv, ExpiryInv, TtlFits, [Next]_vars
  PROVE  ExpiryInv'
<1> TtlMs = 2 * WindowMs /\ TtlMs' = TtlMs /\ TtlMs \in Nat
  BY TtlType DEF TtlMs, Wrapped
<1>0. /\ clock \in Int /\ expireAt \in Int /\ \A a \in admitted : a.at \in Int
      /\ \A w \in Threads : call[w] # None => call[w].at \in Int /\ call[w].at <= clock
  BY DEF TypeOK, Requests, IInv, CallInv
<1>1. CASE Tick
  BY <1>0, <1>1 DEF Tick, ExpiryInv
<1>2. ASSUME NEW w \in Threads, Drop(w) \/ \E id \in Ids : Begin(w, id) PROVE ExpiryInv'
  BY <1>2 DEF Drop, Begin, ExpiryInv
<1>3. ASSUME NEW w \in Threads, EvalRetry(w) \/ EvalReject(w) PROVE ExpiryInv'
  <2>1. /\ call[w] # None /\ entries' = Window(call[w]) /\ UNCHANGED <<clock, admitted>>
        /\ expireAt' = expireAt \/ expireAt' = clock + TtlMs
    BY <1>3 DEF EvalRetry, EvalReject
  <2>2. entries' \subseteq admitted'
    BY <2>1, WindowPart DEF IInv, ExpiryInv
  <2>3. \A a \in admitted' : a.at > clock' - WindowMs => a \in entries'
    BY <2>1, CountedSurvives
  <2>4. expireAt <= expireAt' /\ expireAt' <= clock + TtlMs
    BY <1>0, <2>1 DEF ExpiryInv
  <2>5. \A a \in admitted' : a.at <= clock' /\ a.at + TtlMs <= expireAt'
    BY <1>0, <2>1, <2>4 DEF TypeOK, ExpiryInv
  <2> QED BY <2>1, <2>2, <2>3, <2>4, <2>5 DEF ExpiryInv
<1>4. ASSUME NEW w \in Threads, EvalAdmit(w) PROVE ExpiryInv'
  <2>1. /\ call[w] # None /\ entries' = Window(call[w]) \cup {call[w]}
        /\ admitted' = admitted \cup {call[w]}
        /\ clock' = clock /\ expireAt' = clock + TtlMs
    BY <1>4 DEF EvalAdmit
  <2>2. entries' \subseteq admitted'
    BY <2>1, WindowPart DEF IInv, ExpiryInv
  <2>3. \A a \in admitted' : a.at > clock' - WindowMs => a \in entries'
    BY <2>1, CountedSurvives
  <2>4. expireAt <= expireAt' /\ expireAt' <= clock + TtlMs
    BY <1>0, <2>1 DEF ExpiryInv
  <2>5. \A a \in admitted : a.at <= clock' /\ a.at + TtlMs <= expireAt'
    BY <1>0, <2>1, <2>4 DEF ExpiryInv
  <2>6. call[w].at <= clock' /\ call[w].at + TtlMs <= expireAt'
    BY <1>0, <2>1
  <2> QED BY <2>1, <2>2, <2>3, <2>4, <2>5, <2>6 DEF ExpiryInv
<1>5. CASE UNCHANGED vars
  BY <1>5 DEF vars, ExpiryInv
<1> QED BY <1>1, <1>2, <1>3, <1>4, <1>5 DEF Next, Eval

LEMMA Expiry == ASSUME TtlFits PROVE Spec => []ExpiryInv
<1>1. TypeOK /\ IInv /\ ExpiryInv /\ [Next]_vars => ExpiryInv'
  BY ExpiryStep
<1> QED BY <1>1, ExpiryInit, Invariance, PTL DEF Spec

\* The set holds the very requests admitted in the window that ends now: no purge
\* by another thread and no expiry of the key forgets one.
THEOREM Tracked == ASSUME TtlFits PROVE Spec => []TracksWindow
<1>1. TypeOK /\ ExpiryInv => TracksWindow
  <2> SUFFICES ASSUME TypeOK, ExpiryInv PROVE TracksWindow
    OBVIOUS
  <2>1. Live \subseteq admitted
    BY DEF Live, ExpiryInv
  <2>2. ASSUME NEW a \in admitted, a.at > clock - WindowMs PROVE a \in Live
    <3>1. a.at \in Int /\ clock \in Int /\ expireAt \in Int
      BY DEF TypeOK, Requests
    <3>2. a \in entries /\ a.at + 2 * WindowMs <= expireAt
      BY <2>2, TtlType DEF ExpiryInv
    <3> QED BY <2>2, <3>1, <3>2 DEF Live
  <2> QED BY <2>1, <2>2 DEF TracksWindow
<1> QED BY <1>1, Expiry, Invariance, PTL

\* A request admitted in the window that ends now is admitted again when it is
\* retried, however full the window, and is not counted twice.
THEOREM Retried == ASSUME TtlFits PROVE Spec => RetriesAdmitted
<1> DEFINE Again(w) ==
      Eval(w) /\ (\E a \in admitted : a.id = call[w].id /\ a.at > clock - WindowMs)
        => decision'.allowed /\ UNCHANGED admitted
<1>1. TypeOK /\ IInv /\ ExpiryInv => \A w \in Threads : Again(w)
  <2> SUFFICES ASSUME TypeOK, IInv, ExpiryInv, NEW w \in Threads, Eval(w),
                      NEW a \in admitted, a.id = call[w].id, a.at > clock - WindowMs
               PROVE  decision'.allowed /\ UNCHANGED admitted
    OBVIOUS
  <2>1. call[w] # None
    BY DEF Eval, EvalRetry, EvalReject, EvalAdmit
  <2>2. a \in Window(call[w])
    BY <2>1, CountedSurvives
  <2>3. EvalRetry(w)
    BY <2>2 DEF Eval, EvalReject, EvalAdmit
  <2> QED BY <2>3 DEF EvalRetry
<1> QED BY <1>1, Expiry, Invariance, PTL DEF RetriesAdmitted
-----------------------------------------------------------------------------
(* What is left of "Maximum number of orders allowed within the window": a call  *)
(* that executes late can shorten the window by its delay, and no more; run       *)
(* rate_limit_late shows that it does.                                            *)

LEMMA DelayStep ==
  ASSUME TypeOK, DelayInv, [Next]_vars
  PROVE  DelayInv'
<1>1. ASSUME NEW w \in Threads, NEW id \in Ids, Begin(w, id) PROVE DelayInv'
  BY <1>1 DEF Begin, TypeOK, DelayInv
<1>2. ASSUME NEW w \in Threads, Drop(w) \/ Eval(w) PROVE DelayInv'
  BY <1>2 DEF Drop, Eval, EvalRetry, EvalReject, EvalAdmit, TypeOK, DelayInv
<1>3. ASSUME Tick PROVE DelayInv'
  BY <1>3 DEF Tick, TypeOK, DelayInv, Requests
<1>4. CASE UNCHANGED vars
  BY <1>4 DEF vars, DelayInv
<1> QED BY <1>1, <1>2, <1>3, <1>4 DEF Next

IdsIn(S) == {a.id : a \in S}

\* There are at most as many ids as requests.
LEMMA IdsOf ==
  ASSUME NEW S, IsFiniteSet(S)
  PROVE  IsFiniteSet(IdsIn(S)) /\ Cardinality(IdsIn(S)) \in Nat
         /\ Cardinality(IdsIn(S)) <= Cardinality(S)
<1> DEFINE f == [a \in S |-> a.id]
<1>1. f \in Surjection(S, IdsIn(S))
  BY DEF IdsIn, Surjection
<1> QED BY <1>1, FS_Surjection, FS_CardinalityType

Shorter == WindowMs - MaxDelay

\* A shortened window that ends now, or ended up to MaxDelay ago, has counted no
\* more than the set holds.
OpenWindows == \A t \in 1..MaxTime :
  t + MaxDelay >= clock => Cardinality(AdmittedIn(t, Shorter)) <= Limit

LEMMA OpenWindowsHeld ==
  ASSUME TypeOK, IInv, ExpiryInv
  PROVE  OpenWindows
<1> SUFFICES ASSUME NEW t \in 1..MaxTime, t + MaxDelay >= clock
             PROVE  Cardinality(AdmittedIn(t, Shorter)) <= Limit
  BY DEF OpenWindows
<1> DEFINE Those == {b \in admitted : t - Shorter < b.at /\ b.at <= t}
<1>1. Those \in SUBSET entries
  <2>1. \A a \in admitted : a.at \in Int /\ clock \in Int
    BY DEF TypeOK, Requests
  <2>2. t - Shorter >= clock - WindowMs
    BY <2>1 DEF TypeOK, Shorter
  <2>3. \A a \in Those : a.at > clock - WindowMs
    BY <2>1, <2>2 DEF TypeOK, Shorter
  <2> QED BY <2>3 DEF ExpiryInv
<1>2. IsFiniteSet(Those) /\ Cardinality(Those) <= Limit /\ Cardinality(Those) \in Nat
  <2>1. IsFiniteSet(Those) /\ Cardinality(Those) <= Cardinality(entries)
    BY <1>1, FS_Subset DEF IInv
  <2> HIDE DEF Those
  <2> QED BY <2>1, FS_CardinalityType DEF IInv, WithinLimit
<1>3. AdmittedIn(t, Shorter) = IdsIn(Those)
  BY DEF AdmittedIn, IdsIn
<1> HIDE DEF Those
<1> QED BY <1>2, <1>3, IdsOf

\* In no window of WindowMs less the longest delay are more than Limit different
\* requests admitted, whichever calls overtake which on their way to Redis.
THEOREM ShorterWindowKept == ASSUME TtlFits PROVE Spec => []WindowLessDelay
<1>1. Init => DelayInv /\ WindowLessDelay
  <2>1. Init => \A t \in 1..MaxTime : AdmittedIn(t, Shorter) = {}
    BY DEF Init, AdmittedIn
  <2> QED BY <2>1, FS_EmptySet DEF Init, DelayInv, WindowLessDelay, Shorter
<1>2. TypeOK /\ DelayInv /\ WindowLessDelay /\ [Next]_vars /\ OpenWindows' => WindowLessDelay'
  <2> SUFFICES ASSUME TypeOK, DelayInv, WindowLessDelay, [Next]_vars, OpenWindows',
                      NEW t \in 1..MaxTime
               PROVE  Cardinality(AdmittedIn(t, Shorter))' <= Limit
    BY DEF WindowLessDelay, Shorter
  <2>1. ASSUME AdmittedIn(t, Shorter)' = AdmittedIn(t, Shorter)
        PROVE  Cardinality(AdmittedIn(t, Shorter))' <= Limit
    BY <2>1 DEF WindowLessDelay, Shorter
  <2>2. ASSUME NEW w \in Threads, EvalAdmit(w)
        PROVE  Cardinality(AdmittedIn(t, Shorter))' <= Limit
    <3>1. admitted' = admitted \cup {call[w]} /\ call[w] # None /\ clock' = clock
      BY <2>2 DEF EvalAdmit
    <3>2. call[w].at + MaxDelay >= clock /\ clock \in Int /\ call[w].at \in Int
      BY <3>1 DEF DelayInv, TypeOK, Requests
    <3>3. CASE t >= call[w].at
      <4>1. t + MaxDelay >= clock'
        BY <3>1, <3>2, <3>3
      <4> QED BY <4>1 DEF OpenWindows
    <3>4. CASE ~ (t >= call[w].at)
      BY <2>1, <3>1, <3>2, <3>4 DEF AdmittedIn
    <3> QED BY <3>3, <3>4
  <2>3. CASE ~ \E w \in Threads : EvalAdmit(w)
    <3>1. UNCHANGED admitted
      BY <2>3 DEF Next, Tick, Drop, Begin, Eval, EvalRetry, EvalReject, vars
    <3> QED BY <2>1, <3>1 DEF AdmittedIn
  <2> QED BY <2>2, <2>3
<1>3. TypeOK /\ DelayInv /\ [Next]_vars => DelayInv'
  BY DelayStep
<1>4. TypeOK /\ IInv /\ ExpiryInv => OpenWindows
  BY OpenWindowsHeld
<1> QED BY <1>1, <1>2, <1>3, <1>4, Expiry, Invariance, PTL DEF Spec
=============================================================================
