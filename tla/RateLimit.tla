------------------------------ MODULE RateLimit ------------------------------
(***************************************************************************)
(* RateLimitCache of the risk service for one user: threads call            *)
(* checkAndRecord with a request id and the time they took before they got  *)
(* a Redis connection; Redis runs the Lua script as one step on the sorted  *)
(* set of the requests it admitted.  Time is one clock of callers and Redis. *)
(***************************************************************************)
EXTENDS Integers, FiniteSets

CONSTANTS Threads,   \* threads in checkAndRecord at once
          Ids,       \* request ids; a retry repeats one
          Limit,     \* limit_
          WindowMs,  \* windowMs_
          MaxInt,    \* the largest std::int64_t
          MaxTime,   \* bound: the last value of the clock
          MaxDelay,  \* bound: age of a timestamp when its script runs
          None       \* no call

ASSUME RateLimitConstants ==
  /\ MaxInt \in Nat
  /\ Limit \in Nat \ {0} /\ WindowMs \in 1..MaxInt  \* the constructor throws otherwise
  /\ MaxTime \in Nat \ {0} /\ MaxDelay \in Nat
  /\ None \notin [id : Ids, at : 1..MaxTime]

VARIABLES clock,     \* milliseconds; checkAndRecord rejects a timestamp of 0
          entries,   \* the sorted set ratelimit:orders:{userId}: member and score
          expireAt,  \* when PEXPIRE makes the key go
          call,      \* the request id and timestampMs each thread is about to send
          admitted,  \* history: every request the script recorded, with its time
          decision   \* history: the last call executed and what the script returned

vars == <<clock, entries, expireAt, call, admitted, decision>>

Requests == [id : Ids, at : 1..MaxTime]

\* Mutant: the key lives half a window.
TtlShort == WindowMs \div 2

\* An overflow is undefined; the processor's multiplication wraps around.
Wrapped(n) == IF n > MaxInt THEN n - 2 * (MaxInt + 1) ELSE n

\* "slightly longer than the actual window"; PEXPIRE deletes the key at once if it
\* is negative.
TtlMs == Wrapped(WindowMs * 2)

Init ==
  /\ clock = 1
  /\ entries = {}
  /\ expireAt = 1
  /\ call = [w \in Threads |-> None]
  /\ admitted = {}
  /\ decision = [call |-> None, allowed |-> FALSE, count |-> 0]

\* Time passes, up to MaxDelay while a call waits for its connection.
Tick ==
  /\ clock < MaxTime
  /\ \A w \in Threads : call[w] # None => clock < call[w].at + MaxDelay
  /\ clock' = clock + 1
  /\ UNCHANGED <<entries, expireAt, call, admitted, decision>>

\* checkAndRecord is called; the thread now waits for a connection.
Begin(w, id) ==
  /\ call[w] = None
  /\ call' = [call EXCEPT ![w] = [id |-> id, at |-> clock]]
  /\ UNCHANGED <<clock, entries, expireAt, admitted, decision>>

\* execute throws before the script reached Redis.
Drop(w) ==
  /\ call[w] # None
  /\ call' = [call EXCEPT ![w] = None]
  /\ UNCHANGED <<clock, entries, expireAt, admitted, decision>>

\* The entries of the set unless its key has expired.
Live == IF clock >= expireAt THEN {} ELSE entries

\* Mutant: windowStart is a millisecond too late.
WindowShort(c) == {e \in Live : e.at > c.at - WindowMs + 1}

\* ZREMRANGEBYSCORE key -inf windowStart: what is left.
Window(c) == {e \in Live : e.at > c.at - WindowMs}

\* Mutant: the limit is off by one.
RoomForOneMore(kept) == Cardinality(kept) <= Limit

\* The limit is not reached yet.
HasRoom(kept) == Cardinality(kept) < Limit

\* ZSCORE key requestId found the member: a retry.
EvalRetry(w) ==
  LET c == call[w]  kept == Window(c) IN
  /\ c # None /\ \E e \in kept : e.id = c.id
  /\ entries' = kept /\ expireAt' = clock + TtlMs
  /\ decision' = [call |-> c, allowed |-> TRUE, count |-> Cardinality(kept)]
  /\ call' = [call EXCEPT ![w] = None]
  /\ UNCHANGED <<clock, admitted>>

\* Limit reached: the entries outside the window are gone, the TTL stays.
EvalReject(w) ==
  LET c == call[w]  kept == Window(c) IN
  /\ c # None /\ \A e \in kept : e.id # c.id
  /\ ~ HasRoom(kept)
  /\ entries' = kept
  /\ decision' = [call |-> c, allowed |-> FALSE, count |-> Cardinality(kept)]
  /\ call' = [call EXCEPT ![w] = None]
  /\ UNCHANGED <<clock, expireAt, admitted>>

\* ZADD, PEXPIRE.
EvalAdmit(w) ==
  LET c == call[w]  kept == Window(c) IN
  /\ c # None /\ \A e \in kept : e.id # c.id
  /\ HasRoom(kept)
  /\ entries' = kept \cup {c} /\ expireAt' = clock + TtlMs
  /\ admitted' = admitted \cup {c}
  /\ decision' = [call |-> c, allowed |-> TRUE, count |-> Cardinality(kept) + 1]
  /\ call' = [call EXCEPT ![w] = None]
  /\ UNCHANGED clock

Eval(w) == EvalRetry(w) \/ EvalReject(w) \/ EvalAdmit(w)

Next ==
  \/ Tick
  \/ \E w \in Threads : Drop(w) \/ Eval(w) \/ \E id \in Ids : Begin(w, id)

Spec == Init /\ [][Next]_vars
-----------------------------------------------------------------------------
(* Properties. *)

\* Every variable has its type.
TypeOK ==
  /\ clock \in 1..MaxTime /\ expireAt \in Int
  /\ entries \subseteq Requests /\ admitted \subseteq Requests
  /\ call \in [Threads -> Requests \cup {None}]
  /\ decision \in [call : Requests \cup {None}, allowed : BOOLEAN, count : Nat]

\* However calls interleave, the set never holds more than Limit members, each
\* id at most once, and the count the caller is told never exceeds the limit.
WithinLimit ==
  /\ Cardinality(entries) <= Limit
  /\ \A e, f \in entries : e.id = f.id => e = f
  /\ decision.count <= Limit

\* The requests admitted whose timestamps lie in the window of that length up to t.
AdmittedIn(t, length) == {a.id : a \in {b \in admitted : t - length < b.at /\ b.at <= t}}

\* "Maximum number of orders allowed within the window": in no window of
\* WindowMs are more than Limit different requests admitted.
SlidingWindow == \A t \in 1..MaxTime : Cardinality(AdmittedIn(t, WindowMs)) <= Limit

\* What the code keeps of that promise: calls that are delayed shorten the window
\* the limit holds in, by the longest delay and no more, however they overtake.
WindowLessDelay == \A t \in 1..MaxTime : Cardinality(AdmittedIn(t, WindowMs - MaxDelay)) <= Limit

\* Nothing that counts is forgotten, by another thread's purge or by the key's
\* expiry, "slightly longer than the actual window": the set holds the very
\* requests admitted in the window that ends now.
TracksWindow ==
  {e \in Live : e.at > clock - WindowMs} = {a \in admitted : a.at > clock - WindowMs}

\* A retry of a request admitted in the window that ends now is admitted again,
\* in a full window too, and is not counted twice, however late it executes.
RetriesAdmitted == [][\A w \in Threads :
  Eval(w) /\ (\E a \in admitted : a.id = call[w].id /\ a.at > clock - WindowMs)
  => decision'.allowed /\ UNCHANGED admitted]_vars
-----------------------------------------------------------------------------
(* The inductive invariants behind the theorems of RateLimitProofs.          *)

\* A timestamp is taken before its call executes.
CallInv == \A w \in Threads : call[w] # None => call[w].at <= clock

IInv == IsFiniteSet(entries) /\ WithinLimit /\ CallInv

\* The doubled window does not overflow.
TtlFits == WindowMs * 2 <= MaxInt

\* If TtlFits, the key outlives whatever counts: every admission pushed the expiry a
\* time to live away, and no purge looks back less than the window.
ExpiryInv ==
  /\ entries \subseteq admitted
  /\ \A a \in admitted :
       /\ a.at <= clock /\ a.at + TtlMs <= expireAt
       /\ a.at > clock - WindowMs => a \in entries
  /\ expireAt <= clock + TtlMs

\* No call executes later than MaxDelay after its timestamp.
DelayInv == \A w \in Threads : call[w] # None => clock <= call[w].at + MaxDelay
=============================================================================
