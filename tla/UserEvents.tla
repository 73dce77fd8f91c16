------------------------------ MODULE UserEvents ------------------------------
(***************************************************************************)
(* The wallet service's consumer of user events: its start, step by step,   *)
(* and the handling of one partition's messages.  The broker and kafkajs    *)
(* are modelled from how the code uses them: fromBeginning is false, so a   *)
(* group without a committed offset starts at the end of the log; offsets   *)
(* are committed automatically, some time after a handler returned; a       *)
(* handler that throws gets the same message again, a bounded number of     *)
(* times, and then the consumer is restarted in the same process, which     *)
(* asks for the group's offset as a new process does.  The process may die  *)
(* at any time; its shutdown hooks are not enabled, so it never disconnects.*)
(***************************************************************************)
EXTENDS Integers, Sequences

CONSTANTS Kinds,       \* kinds of messages produced
          MaxMessages, \* bound: messages of the partition
          Retries,     \* kafka.retry.retries
          MaxCrashes,  \* bound: times the process dies, or fails to start
          None         \* no offset

\* "user": an event with data; "empty": no value; "garbage": no JSON;
\* "envelope": the user service's KafkaEvent, with metadata and payload but no data.
ASSUME UserEventsConstants ==
  /\ Kinds \subseteq {"user", "empty", "garbage", "envelope"}
  /\ MaxMessages \in Nat /\ Retries \in Nat /\ MaxCrashes \in Nat /\ None \notin Nat

VARIABLES log,        \* the partition
          committed,  \* the group's committed offset: messages before it are done
          pc,         \* where the process is in its start, or "running"
          position,   \* messages the running consumer has behind it
          attempts,   \* failed attempts at the message behind position
          handled,    \* history: indices of the messages whose handler finished
          start,      \* history: the position of the last start without an offset
          crashes

vars == <<log, committed, pc, position, attempts, handled, start, crashes>>

Init ==
  /\ log = << >> /\ committed = None
  /\ pc = "down" /\ position = 0 /\ attempts = 0
  /\ handled = {} /\ start = 0 /\ crashes = 0

\* The user service (or another producer) publishes.
Produce(kind) ==
  /\ Len(log) < MaxMessages
  /\ log' = Append(log, kind)
  /\ UNCHANGED <<committed, pc, position, attempts, handled, start, crashes>>

\* Nest calls the onModuleInit hooks of the module's providers side by side: the
\* consumer is created and connects, then it subscribes, whether or not the
\* producer, which nothing uses, has connected yet.
CreateConsumer == pc = "down" /\ pc' = "consumer"
Subscribe      == pc = "consumer" /\ pc' = "subscribed"

Boot ==
  /\ CreateConsumer \/ Subscribe
  /\ UNCHANGED <<log, committed, position, attempts, handled, start, crashes>>

\* Mutant: a committed offset is not looked at.
RunAtEnd ==
  /\ pc = "subscribed"
  /\ pc' = "running"
  /\ position' = Len(log)
  /\ start' = Len(log)
  /\ UNCHANGED <<log, committed, attempts, handled, crashes>>

\* consumer.run: the group joined, fetching begins.
Run ==
  /\ pc = "subscribed"
  /\ pc' = "running"
  /\ position' = IF committed = None THEN Len(log) ELSE committed
  /\ start' = IF committed = None THEN Len(log) ELSE start
  /\ UNCHANGED <<log, committed, attempts, handled, crashes>>

HasMessage == pc = "running" /\ position < Len(log)
Message    == log[position + 1]

\* Mutant: a message without a value is parsed like any other, and throws until
\* the consumer starts again.
ThrowOnEmpty ==
  /\ HasMessage /\ Message = "empty"
  /\ pc' = "subscribed" /\ position' = 0
  /\ UNCHANGED <<log, committed, attempts, handled, start, crashes>>

\* handleMessage returns at once: no value.
SkipEmpty ==
  /\ HasMessage /\ Message = "empty"
  /\ position' = position + 1
  /\ UNCHANGED <<log, committed, pc, attempts, handled, start, crashes>>

\* handleUserRegistered or handleUserSuspended.
Handle ==
  /\ HasMessage /\ Message = "user"
  /\ handled' = handled \cup {position + 1}
  /\ position' = position + 1
  /\ UNCHANGED <<log, committed, pc, attempts, start, crashes>>

\* Mutant: the error is logged and not thrown again.
SwallowError ==
  /\ HasMessage /\ Message \in {"garbage", "envelope"}
  /\ position' = position + 1
  /\ UNCHANGED <<log, committed, pc, attempts, handled, start, crashes>>

\* JSON.parse throws, or event.data is undefined; the error is logged and thrown
\* on.  The runner commits what was resolved before, if it can.
Fails ==
  /\ HasMessage /\ Message \in {"garbage", "envelope"}
  /\ committed' \in {committed} \cup (IF position > start THEN {position} ELSE {})
  /\ UNCHANGED <<log, handled, start, crashes>>

\* It waits and hands the message out again, as often as the retries allow.
Throw ==
  /\ Fails /\ attempts < Retries
  /\ attempts' = attempts + 1
  /\ UNCHANGED <<pc, position>>

\* The retries are used up: the consumer leaves the group and starts again.
GiveUp ==
  /\ Fails /\ attempts = Retries
  /\ attempts' = 0
  /\ pc' = "subscribed" /\ position' = 0

\* The automatic commit of what was resolved.
CommitOffset ==
  /\ pc = "running" /\ position > start
  /\ committed' = position
  /\ UNCHANGED <<log, pc, position, attempts, handled, start, crashes>>

\* The process dies, or a connect of its start, the producer's included, throws
\* and bootstrap with it; it is started again.
Crash ==
  /\ crashes < MaxCrashes
  /\ crashes' = crashes + 1
  /\ pc' = "down"
  /\ position' = 0 /\ attempts' = 0
  /\ UNCHANGED <<log, committed, handled, start>>

Consume == SkipEmpty \/ Handle \/ Throw \/ GiveUp

Next ==
  \/ \E kind \in Kinds : Produce(kind)
  \/ Boot \/ Run \/ Consume \/ CommitOffset \/ Crash

Spec == Init /\ [][Next]_vars

\* A process that does not die starts, and its runner goes on with the messages.
FairSpec == Spec /\ WF_vars(Boot) /\ WF_vars(Run) /\ WF_vars(Consume)
-----------------------------------------------------------------------------
(* Properties. *)

\* Every variable has its type.
TypeOK ==
  /\ log \in Seq(Kinds) /\ Len(log) <= MaxMessages
  /\ committed \in Nat \cup {None}
  /\ pc \in {"down", "consumer", "subscribed", "running"}
  /\ position \in 0..Len(log) /\ attempts \in 0..Retries /\ start \in 0..Len(log)
  /\ handled \subseteq DOMAIN log
  /\ crashes \in 0..MaxCrashes

\* A message the group is done with, if it ever is: it was handled or was empty.
Settled(i) == i \in handled \/ log[i] = "empty"

\* The runner has passed a message, or the group has committed it.
Passes(i) ==
  \/ pc = "running" /\ i <= position
  \/ committed # None /\ i <= committed

\* Messages are handled in order and at least once: behind the offset the group
\* started from, every message that was passed or committed was handled or was
\* empty, whenever the process died between a handler and its commit.
NothingSkipped == \A i \in start + 1..Len(log) : Passes(i) => Settled(i)

\* Once the group has committed an offset, what lies behind it is kept: no restart,
\* of the process or of the consumer alone, ever takes up the log behind a message
\* that was not handled, though "fromBeginning: false" does so before the first
\* commit.
EventsKept == \A i \in 1..MaxMessages :
  [](committed # None /\ committed < i => [](Passes(i) => Settled(i)))

\* No message of the log up to i, from the start of the group, makes a handler throw.
Clean(i) == i \in DOMAIN log /\ \A j \in start + 1..i : log[j] \in {"user", "empty"}

\* A user event behind the start of the group is handled, provided no message
\* before it is one a handler throws on and the process stays up long enough: a
\* restart before the first commit, which such a message causes too, starts the
\* group anew at the end of the log and may lose what came in between.
CleanEventsHandled == \A i \in 1..MaxMessages :
  (pc = "running" /\ Clean(i) /\ i > start /\ log[i] = "user") ~> (i \in handled \/ start >= i)

\* Every user event behind the start of the group is handled, whatever else the
\* user service publishes, its own "Generic Kafka event envelope."
\* (user/.../kafka.types.ts:10) included.
EventsHandled == \A i \in 1..MaxMessages :
  (pc = "running" /\ i \in DOMAIN log /\ i > start /\ log[i] = "user")
    ~> (i \in handled \/ start >= i)
-----------------------------------------------------------------------------
(* The inductive invariant behind the theorems of UserEventsProofs.          *)

\* Offsets lie behind the start of the group, and the runner's position is
\* forgotten when the process dies.
OffsetsInv ==
  /\ committed # None => start < committed /\ committed <= Len(log)
  /\ IF pc = "running" THEN start <= position ELSE position = 0

IInv == OffsetsInv /\ NothingSkipped
=============================================================================
