------------------------------ MODULE Messaging ------------------------------
(***************************************************************************)
(* One process of a Nest service, the wallet's or the users', seen from its *)
(* clients: the hooks that connect Kafka and the databases before requests  *)
(* are served, the events requests publish to one topic, and an orderly     *)
(* stop.  The two services differ in their producer and in when they can be *)
(* stopped.  No code calls publish yet; the model calls it from any request.*)
(* Nest, kafkajs and the broker are modelled from how they are configured.  *)
(***************************************************************************)
EXTENDS Integers, Sequences, SequencesExt, FiniteSets

CONSTANTS Features,    \* the feature modules, each with a PrismaService of its own
          Callers,     \* requests that publish
          MaxEvents,   \* bound: events they publish in all, each one after the other
          Users,       \* userIds, the keys of the events
          Partitions,
          MaxRetries   \* bound: attempts of one send after the first

\* What a module that instantiates this one assumes of the constants.
MessagingConstants ==
  /\ Partitions # {}
  /\ {"producer", "consumer"} \cap Features = {}
  /\ MaxRetries \in Nat

VARIABLES service,   \* "wallet" or "user"
          brokers,   \* KAFKA_BROKERS: "unset", "blank" or "named"
          boot,      \* where bootstrap is
          client,    \* the state of each client's connection
          stop,      \* how far the stop is
          todo,      \* the clients whose onModuleDestroy is still to run
          held,      \* history: the clients that were connected when the stop began
          hash,      \* the partition of each key
          event,     \* the event each request publishes, or its last one
          pc,        \* where its publish is
          attempts,  \* attempts of its send
          number,    \* the number the producer gives its next attempt, by partition
          wire,      \* attempts that timed out and may still reach the broker
          log,       \* the partitions
          done,      \* history: publishes that succeeded, each with the number it ended with
          late       \* history: events an attempt of which timed out

process == <<service, brokers, boot, client, stop, todo, held>>
sends   == <<hash, event, pc, attempts, number, wire, log, done, late>>
vars    == <<process, sends>>

Event == [by : Callers, n : Nat, user : Users]

Kafka   == IF service = "wallet" THEN {"producer", "consumer"} ELSE {"producer"}
Clients == Features \cup Kafka
AnyClient == Features \cup {"producer", "consumer"}

Init ==
  /\ service \in {"wallet", "user"} /\ brokers \in {"unset", "blank", "named"}
  /\ boot = "construct" /\ stop = "none" /\ todo = {} /\ held = {}
  /\ client = [h \in AnyClient |-> "off"]
  /\ hash \in [Users -> Partitions]
  /\ event \in [Callers -> {[by |-> c, n |-> 0, user |-> u] : c \in Callers, u \in Users}]
  /\ \A c \in Callers : event[c].by = c
  /\ pc = [c \in Callers |-> "idle"] /\ attempts = [c \in Callers |-> 0]
  /\ number = [p \in Partitions |-> 0] /\ log = [p \in Partitions |-> << >>]
  /\ wire = {} /\ done = {} /\ late = {}
-----------------------------------------------------------------------------
(* Start. *)

\* kafka.config.ts: a blank KAFKA_BROKERS leaves no broker.
WalletBrokers == CASE brokers = "unset" -> {"localhost:9092"}
                   [] brokers = "blank" -> {}
                   [] brokers = "named" -> {"broker"}

\* The user service splits the text as it is.
UserBrokers == CASE brokers = "unset" -> {"localhost:9092"}
                 [] brokers = "blank" -> {""}
                 [] brokers = "named" -> {"broker"}

BrokerList == IF service = "wallet" THEN WalletBrokers ELSE UserBrokers

\* The constructors; kafkajs throws if there is no broker at all.
Construct ==
  /\ boot = "construct"
  /\ boot' = IF BrokerList = {} THEN "dead" ELSE "hooks"
  /\ UNCHANGED <<service, brokers, client, stop, todo, held, sends>>

\* onModuleInit of client h is under way: the clients of the global Kafka module come
\* first, together, then those of the feature modules.
Due(h) ==
  /\ boot = "hooks" /\ h \in Clients /\ client[h] = "off"
  /\ h \in Features => \A k \in Kafka : client[k] # "off"

Connect(h) ==
  /\ Due(h) /\ (h \in Kafka => BrokerList # {""})
  /\ client' = [client EXCEPT ![h] = "on"]
  /\ UNCHANGED <<service, brokers, boot, stop, todo, held, sends>>

\* Mutant: the error is logged and not thrown on.
ConnectIgnored(h) ==
  /\ Due(h)
  /\ client' = [client EXCEPT ![h] = "failed"]
  /\ UNCHANGED <<service, brokers, boot, stop, todo, held, sends>>

\* A connect that fails throws: bootstrap rejects and the process ends.
ConnectFails(h) ==
  /\ Due(h)
  /\ client' = [client EXCEPT ![h] = "failed"]
  /\ boot' = "dead"
  /\ UNCHANGED <<service, brokers, stop, todo, held, sends>>

\* app.listen: every hook has finished.
Listen ==
  /\ boot = "hooks" /\ \A h \in Clients : client[h] # "off"
  /\ boot' = "listening"
  /\ UNCHANGED <<service, brokers, client, stop, todo, held, sends>>
-----------------------------------------------------------------------------
(* Publish. *)

\* A request, before the server is closed, publishes its next event.
Publish(c) ==
  /\ boot = "listening" /\ stop # "closing"
  /\ pc[c] \in {"idle", "sent", "failed"}
  /\ Cardinality(UNION {{d} \X (1..event[d].n) : d \in Callers}) < MaxEvents
  /\ event' = [event EXCEPT ![c].n = @ + 1]
  /\ pc' = [pc EXCEPT ![c] = "sending"]
  /\ attempts' = [attempts EXCEPT ![c] = 0]
  /\ UNCHANGED <<process, hash, number, wire, log, done, late>>

\* Where an attempt may go: publishX of the wallet's producer keys its event with
\* the userId; the key of the user service's publish is optional.
Targets(e) == IF service = "wallet" THEN {hash[e.user]} ELSE Partitions

\* Mutant: the producer as kafkajs configures it by default.
NotIdempotent == FALSE

\* idempotent of the producer: attempts carry numbers.
Idempotent == service = "wallet"

\* The broker takes event e, numbered n, into partition p: a number it has seen is
\* the retry of what it has, whatever event comes with it.
Appended(e, p, n) ==
  IF Idempotent /\ n # Len(log[p]) THEN log ELSE [log EXCEPT ![p] = Append(@, e)]

\* An attempt reaches the broker and is acknowledged; the next event gets the next
\* number.  kafkajs has one attempt under way at a time for each broker.
Acknowledged(c) ==
  /\ pc[c] = "sending" /\ client["producer"] = "on"
  /\ \E p \in Targets(event[c]) :
       /\ log' = Appended(event[c], p, number[p])
       /\ done' = done \cup {[event |-> event[c], partition |-> p, number |-> number[p]]}
       /\ number' = IF Idempotent THEN [number EXCEPT ![p] = @ + 1] ELSE number
  /\ pc' = [pc EXCEPT ![c] = "sent"]
  /\ UNCHANGED <<process, hash, event, attempts, wire, late>>

\* Its answer is lost, or it is late: the number is given back, and the send is
\* tried again until retries are used up.
TimedOut(c) ==
  /\ pc[c] = "sending" /\ client["producer"] = "on"
  /\ \E p \in Targets(event[c]) : wire' = wire \cup
       {[event |-> event[c], partition |-> p, number |-> number[p], attempt |-> attempts[c]]}
  /\ late' = late \cup {event[c]}
  /\ attempts' = [attempts EXCEPT ![c] = @ + 1]
  /\ pc' = [pc EXCEPT ![c] = IF attempts[c] = MaxRetries THEN "failed" ELSE @]
  /\ UNCHANGED <<process, hash, event, number, log, done>>

\* An attempt that timed out arrives late, or never.
ArriveLate(a) ==
  /\ a \in wire
  /\ wire' = wire \ {a}
  /\ log' = Appended(a.event, a.partition, a.number)
  /\ UNCHANGED <<process, hash, event, pc, attempts, number, done, late>>

\* send throws: the producer is not connected.
Refused(c) ==
  /\ pc[c] = "sending" /\ client["producer"] # "on"
  /\ pc' = [pc EXCEPT ![c] = "refused"]
  /\ UNCHANGED <<process, hash, event, attempts, number, wire, log, done, late>>
-----------------------------------------------------------------------------
(* Stop: onModuleDestroy of every client, then the server. *)

\* The user service enables the shutdown hooks before it listens, so a signal may
\* come while it starts; the wallet service is closed only by app.close(), as its
\* e2e test does, and killed by a signal.
Stop ==
  /\ stop = "none"
  /\ boot \in IF service = "user" THEN {"hooks", "listening"} ELSE {"listening"}
  /\ stop' = "hooks" /\ todo' = Clients
  /\ held' = {h \in Clients : client[h] = "on"}
  /\ UNCHANGED <<service, brokers, boot, client, sends>>

\* The hooks run in the opposite order of the start: the feature modules', then the
\* Kafka module's, which takes the consumer first.
Turn(h) ==
  /\ boot # "dead" /\ stop = "hooks" /\ h \in todo
  /\ h \notin Features => todo \cap Features = {}
  /\ h = "producer" => "consumer" \notin todo

Disconnect(h) ==
  /\ Turn(h)
  /\ client' = IF client[h] = "on" THEN [client EXCEPT ![h] = "left"] ELSE client
  /\ todo' = todo \ {h}
  /\ UNCHANGED <<service, brokers, boot, stop, held, sends>>

\* A disconnect of Kafka that fails is logged, and the stop goes on.
DisconnectLogged(h) ==
  /\ h \notin Features /\ Turn(h) /\ client[h] = "on"
  /\ client' = [client EXCEPT ![h] = "stuck"]
  /\ todo' = todo \ {h}
  /\ UNCHANGED <<service, brokers, boot, stop, held, sends>>

\* One of a database is not caught: no further hook runs.  The user service exits
\* (Kill), the wallet service's app.close() rejects.
DisconnectThrows(h) ==
  /\ h \in Features /\ Turn(h) /\ client[h] = "on"
  /\ client' = [client EXCEPT ![h] = "stuck"]
  /\ stop' = "aborted"
  /\ UNCHANGED <<service, brokers, boot, todo, held, sends>>

\* Every hook has run: the server is closed.
CloseServer ==
  /\ boot # "dead" /\ stop = "hooks" /\ todo = {}
  /\ stop' = "closing"
  /\ UNCHANGED <<service, brokers, boot, client, todo, held, sends>>

\* The server has closed, the requests it had are answered, the process ends.
Exit ==
  /\ stop = "closing" /\ boot # "dead" /\ \A c \in Callers : pc[c] # "sending"
  /\ boot' = "dead"
  /\ UNCHANGED <<service, brokers, client, stop, todo, held, sends>>

\* The process is killed.
Kill ==
  /\ boot # "dead"
  /\ boot' = "dead"
  /\ pc' = [c \in Callers |-> IF pc[c] = "sending" THEN "lost" ELSE pc[c]]
  /\ UNCHANGED <<service, brokers, client, stop, todo, held>>
  /\ UNCHANGED <<hash, event, attempts, number, wire, log, done, late>>

Next ==
  \/ Construct \/ Listen \/ Stop \/ CloseServer \/ Exit \/ Kill
  \/ \E h \in Clients : \/ Connect(h) \/ ConnectFails(h)
                       \/ Disconnect(h) \/ DisconnectLogged(h) \/ DisconnectThrows(h)
  \/ \E c \in Callers : Publish(c) \/ Acknowledged(c) \/ TimedOut(c) \/ Refused(c)
  \/ \E a \in wire : ArriveLate(a)

Spec == Init /\ [][Next]_vars
-----------------------------------------------------------------------------
(* Properties. *)

\* What done and wire hold.
Success == [event : Event, partition : Partitions, number : Nat]
Attempt == [event : Event, partition : Partitions, number : Nat, attempt : 0..MaxRetries]

\* Every variable has its type.
TypeOK ==
  /\ service \in {"wallet", "user"} /\ brokers \in {"unset", "blank", "named"}
  /\ boot \in {"construct", "hooks", "listening", "dead"}
  /\ client \in [AnyClient -> {"off", "on", "failed", "left", "stuck"}]
  /\ stop \in {"none", "hooks", "aborted", "closing"} /\ todo \subseteq Clients /\ held \subseteq Clients
  /\ hash \in [Users -> Partitions] /\ event \in [Callers -> Event]
  /\ pc \in [Callers -> {"idle", "sending", "sent", "failed", "refused", "lost"}]
  /\ attempts \in [Callers -> 0..MaxRetries + 1]
  /\ number \in [Partitions -> Nat] /\ log \in [Partitions -> Seq(Event)]
  /\ wire \subseteq Attempt /\ done \subseteq Success /\ late \subseteq Event

\* Until it is stopped, a service takes requests only with every client connected,
\* and no publish meets a producer that is not.  A stop refuses a publish only after
\* every database was disconnected, and closes the server only after that too, and
\* after the disconnects of Kafka, whether they succeeded or not.  A stop that a
\* database cuts short leaves Kafka as it was.
StartsWholeStopsInOrder ==
  LET DatabasesLeft == \A h \in held \cap Features : client[h] = "left" IN
  /\ boot = "listening" /\ stop = "none" => \A h \in Clients : client[h] = "on"
  /\ \A c \in Callers : pc[c] = "refused" => stop # "none" /\ DatabasesLeft
  /\ stop = "closing" => DatabasesLeft /\ \A h \in held \cap Kafka : client[h] \in {"left", "stuck"}
  /\ stop = "aborted" => \A h \in held \cap Kafka : client[h] = "on"

\* What stands at the number that a publish ended with.
At(d) == log[d.partition][d.number + 1]

Displaced(d) == At(d) # d.event

\* A publish of the user service that succeeded is in the log.  One of the wallet
\* service has a place of its own there, behind the places of what the same request
\* published before into that partition; the events of one user are in one partition.
\* At its place is the event itself or, for numbers that were given back are used
\* again, another one whose answer was lost: another request's, or an earlier one of
\* the same request whose publish did not succeed.  And only an event that displaced
\* another is in the log twice.  While no answer is lost, every event is there once.
OnceUnlessDisplaced ==
  /\ service = "user" => \A d \in done : d.event \in Range(log[d.partition])
  /\ service = "wallet" =>
       /\ \A d \in done :
            /\ d.number < Len(log[d.partition])
            /\ Displaced(d) =>
                 /\ At(d) \in late
                 /\ At(d).by = d.event.by =>
                      At(d).n < d.event.n /\ \A f \in done : f.event # At(d)
       /\ \A d, f \in done : d # f /\ d.partition = f.partition =>
            /\ d.number # f.number
            /\ d.event.by = f.event.by /\ d.event.n < f.event.n => d.number < f.number
       /\ \A p \in Partitions : \A i, j \in DOMAIN log[p] : i < j /\ log[p][i] = log[p][j] =>
            \E d \in done : d.partition = p /\ d.number = i - 1 /\ Displaced(d)
       /\ \A p, q \in Partitions : \A i \in DOMAIN log[p], j \in DOMAIN log[q] :
            log[p][i].user = log[q][j].user => p = q
-----------------------------------------------------------------------------
(* The inductive invariant behind the theorems about a process.             *)

\* A service that has not begun to stop has no client that failed, sends only while
\* it listens, and a stop has dealt with every client it has passed.
ProcessInv ==
  /\ boot = "construct" => stop = "none" /\ \A h \in Clients : client[h] = "off"
  /\ boot # "dead" => \A h \in AnyClient : client[h] # "failed"
  /\ boot = "listening" => client["producer"] # "off"
  /\ stop = "none" => \A h \in AnyClient : client[h] \notin {"left", "stuck"}
  /\ stop # "none" /\ todo \cap Features # {} => Kafka \subseteq todo
  /\ stop = "aborted" => todo \cap Features # {}
  /\ stop = "closing" => todo = {}
  /\ \A h \in held \cap todo : \/ client[h] = "on"
                               \/ stop = "aborted" /\ h \in Features /\ client[h] = "stuck"
  /\ \A h \in held \ todo : client[h] = "left" \/ (h \in Kafka /\ client[h] = "stuck")
  /\ client["producer"] \in {"left", "stuck"} => todo \cap Features = {}
  /\ \A c \in Callers : pc[c] = "sending" => boot = "listening" /\ attempts[c] <= MaxRetries

\* An event that was sent, once or more often, by the request it names, and where
\* the wallet service sends it.
Sent(e) == e.n <= event[e.by].n /\ e.user = event[e.by].user
Addressed(e, p) == service = "wallet" => p = hash[e.user]

\* Event e was acknowledged.
Succeeded(e) == \E d \in done : d.event = e

EventsInv ==
  /\ \A c \in Callers : event[c].by = c /\ (pc[c] = "sending" => ~ Succeeded(event[c]))
  /\ \A a \in wire : Sent(a.event) /\ Addressed(a.event, a.partition)
  /\ \A p \in Partitions : \A i \in DOMAIN log[p] : Sent(log[p][i]) /\ Addressed(log[p][i], p)
  /\ \A d \in done : Sent(d.event) /\ Addressed(d.event, d.partition)

\* The producer's next number is the broker's, or one behind, when what stands last
\* was appended by an attempt that timed out and has not been acknowledged.  Every
\* number before it was acknowledged once, and no attempt has a later one, nor one
\* after the number its event was acknowledged with.
NumbersInv ==
  service = "wallet" =>
    /\ \A p \in Partitions :
         /\ Len(log[p]) \in {number[p], number[p] + 1}
         /\ Len(log[p]) = number[p] + 1 =>
              log[p][Len(log[p])] \in late /\ ~ Succeeded(log[p][Len(log[p])])
         /\ \A k \in 0..number[p] - 1 : \E d \in done : d.partition = p /\ d.number = k
    /\ \A d \in done : d.number < number[d.partition]
    /\ \A a \in wire : /\ a.number <= number[a.partition] /\ a.event \in late
                       /\ \A d \in done : d.event = a.event => a.number <= d.number

IInv == ProcessInv /\ EventsInv /\ NumbersInv /\ StartsWholeStopsInOrder /\ OnceUnlessDisplaced
=============================================================================
