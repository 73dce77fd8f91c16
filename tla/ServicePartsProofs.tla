-------------------------- MODULE ServicePartsProofs --------------------------
(***************************************************************************)
(* Theorems about the parts of MCParts that belong to the wallet service    *)
(* and the risk service, and about the process every Nest service runs: its *)
(* start, its stop and the events it publishes; the list of transactions; a *)
(* call of the risk service and a call of the wallet service; the parsing   *)
(* of decimal numbers.  Each is proved of the module of the part and        *)
(* carried over to MCParts.                                                 *)
(***************************************************************************)
EXTENDS MCParts, FiniteSetTheorems, SequenceTheorems, TLAPS
-----------------------------------------------------------------------------
(* A process of a Nest service: start, stop, and the events it publishes.    *)

LEMMA ProcessInit == Process!Init => Process!TypeOK /\ Process!IInv
<1> SUFFICES ASSUME Process!Init PROVE Process!TypeOK /\ Process!IInv
  OBVIOUS
<1>1. event \in [Callers -> Process!Event]
  BY DEF Process!Init, Process!Event
<1>2. Process!TypeOK
  <2>1. MaxRetries \in Nat
    BY PartsConstants DEF Process!MessagingConstants
  <2>2. log \in [Partitions -> Seq(Process!Event)] /\ number \in [Partitions -> Nat]
    BY DEF Process!Init
  <2>3. sendPc \in [Callers -> {"idle"}] /\ attempts \in [Callers -> {0}] /\ 0 \in 0..MaxRetries + 1
    BY <2>1 DEF Process!Init
  <2> QED BY <1>1, <2>2, <2>3 DEF Process!Init, Process!TypeOK, Process!Clients
<1>3. Process!ProcessInv /\ Process!StartsWholeStopsInOrder
  BY DEF Process!Init, Process!ProcessInv, Process!StartsWholeStopsInOrder, Process!Clients,
     Process!AnyClient, Process!Kafka
<1>4. \A p \in Partitions : DOMAIN log[p] = {} /\ Len(log[p]) = 0 /\ number[p] = 0
  BY DEF Process!Init
<1>5. Process!EventsInv /\ Process!NumbersInv /\ Process!OnceUnlessDisplaced
  BY <1>4 DEF Process!Init, Process!EventsInv, Process!NumbersInv, Process!OnceUnlessDisplaced
<1> QED BY <1>2, <1>3, <1>5 DEF Process!IInv

\* Steps of the process itself: the clients connect and disconnect.
Passing(h) == Process!Disconnect(h) \/ Process!DisconnectLogged(h) \/ Process!DisconnectThrows(h)

Serving ==
  \/ Process!Construct \/ Process!Listen \/ Process!Stop \/ Process!CloseServer \/ Process!Exit
  \/ \E h \in Process!Clients : Process!Connect(h) \/ Process!ConnectFails(h) \/ Passing(h)

\* What the stop makes of one client: it is disconnected, or stuck, if it was connected.
LEMMA ClientPassed ==
  ASSUME Process!TypeOK, NEW h \in Process!Clients, Passing(h)
  PROVE  /\ kafkaClient' \in [Process!AnyClient -> {"off", "on", "failed", "left", "stuck"}]
         /\ \A g \in Process!AnyClient \ {h} : kafkaClient'[g] = kafkaClient[g]
         /\ \/ todo' = todo \ {h} /\ stop' = stop
               /\ IF kafkaClient[h] = "on"
                  THEN kafkaClient'[h] = "left" \/ (h \notin Features /\ kafkaClient'[h] = "stuck")
                  ELSE kafkaClient'[h] = kafkaClient[h]
            \/ todo' = todo /\ stop' = "aborted" /\ h \in Features /\ kafkaClient[h] = "on"
               /\ kafkaClient'[h] = "stuck"
         /\ stop = "hooks" /\ boot # "dead" /\ h \in todo
         /\ h \notin Features => todo \cap Features = {}
         /\ UNCHANGED <<service, brokers, boot, held>> /\ UNCHANGED Process!sends
<1>1. h \in Process!AnyClient
  BY DEF Process!Clients, Process!Kafka, Process!AnyClient
<1> QED BY <1>1 DEF Passing, Process!TypeOK, Process!Disconnect, Process!DisconnectLogged,
        Process!DisconnectThrows, Process!Turn

LEMMA ServingInv ==
  ASSUME Process!TypeOK, Process!ProcessInv, Process!StartsWholeStopsInOrder, Serving \/ Process!Kill
  PROVE  Process!ProcessInv' /\ Process!StartsWholeStopsInOrder'
<1>0. /\ Process!Kafka \subseteq {"producer", "consumer"} /\ "producer" \in Process!Kafka
      /\ Features \cap Process!Kafka = {} /\ Process!Clients \subseteq Process!AnyClient
      /\ Process!Clients = Features \cup Process!Kafka
  BY PartsConstants DEF Process!MessagingConstants, Process!Kafka, Process!Clients, Process!AnyClient
<1>1. CASE Process!Construct
  BY <1>1 DEF Process!TypeOK, Process!ProcessInv, Process!StartsWholeStopsInOrder, Process!Construct,
     Process!Clients, Process!Kafka, Process!sends
<1>2. CASE Process!Listen
  <2>1. /\ boot = "hooks" /\ boot' = "listening" /\ \A h \in Process!Clients : kafkaClient[h] # "off"
        /\ UNCHANGED <<service, kafkaClient, stop, todo, held, sendPc, attempts>>
    BY <1>2 DEF Process!Listen, Process!sends
  <2>2. Process!Kafka' = Process!Kafka /\ Process!Clients' = Process!Clients
    BY <2>1 DEF Process!Kafka, Process!Clients
  <2>3. Process!ProcessInv'
    BY <1>0, <2>1, <2>2 DEF Process!ProcessInv, Process!AnyClient
  <2>4. stop = "none" => \A h \in Process!Clients : kafkaClient[h] = "on"
    BY <1>0, <2>1 DEF Process!ProcessInv, Process!TypeOK
  <2> QED BY <2>1, <2>2, <2>3, <2>4 DEF Process!StartsWholeStopsInOrder
<1>3. CASE Process!Stop
  <2>1. /\ stop = "none" /\ boot \in {"hooks", "listening"} /\ stop' = "hooks"
        /\ todo' = Process!Clients /\ held' = {h \in Process!Clients : kafkaClient[h] = "on"}
        /\ UNCHANGED <<service, boot, kafkaClient, sendPc, attempts>>
    BY <1>3 DEF Process!Stop, Process!sends
  <2>2. Process!Kafka' = Process!Kafka /\ Process!Clients' = Process!Clients
    BY <2>1 DEF Process!Kafka, Process!Clients
  <2>3. \A c \in Callers : sendPc[c] # "refused"
    BY <2>1 DEF Process!StartsWholeStopsInOrder
  <2>4. Process!StartsWholeStopsInOrder'
    BY <2>1, <2>2, <2>3 DEF Process!StartsWholeStopsInOrder
  <2>5. kafkaClient["producer"] \notin {"left", "stuck"}
    BY <2>1 DEF Process!ProcessInv, Process!AnyClient
  <2>6. held' \ todo' = {} /\ \A h \in held' : kafkaClient[h] = "on"
    BY <2>1
  <2>7. Process!Kafka \subseteq Process!Clients /\ Process!AnyClient' = Process!AnyClient
    BY <1>0 DEF Process!AnyClient
  <2> QED BY <2>1, <2>2, <2>4, <2>5, <2>6, <2>7 DEF Process!ProcessInv
<1>4. CASE Process!CloseServer
  BY <1>0, <1>4 DEF Process!TypeOK, Process!ProcessInv, Process!StartsWholeStopsInOrder,
     Process!CloseServer, Process!Clients, Process!Kafka, Process!sends
<1>5. CASE Process!Exit \/ Process!Kill
  BY <1>5 DEF Process!TypeOK, Process!ProcessInv, Process!StartsWholeStopsInOrder, Process!Exit,
     Process!Kill, Process!Clients, Process!Kafka, Process!sends
<1>6. ASSUME NEW h \in Process!Clients, Process!Connect(h) \/ Process!ConnectFails(h)
      PROVE  Process!ProcessInv' /\ Process!StartsWholeStopsInOrder'
  <2>1. /\ boot = "hooks" /\ kafkaClient[h] = "off" /\ h \in Process!AnyClient
        /\ \/ boot' = boot /\ kafkaClient'[h] = "on"
           \/ boot' = "dead" /\ kafkaClient'[h] = "failed"
        /\ \A g \in Process!AnyClient \ {h} : kafkaClient'[g] = kafkaClient[g]
        /\ UNCHANGED <<service, stop, todo, held, sendPc, attempts>>
    BY <1>0, <1>6 DEF Process!TypeOK, Process!Connect, Process!ConnectFails, Process!Due, Process!sends
  <2>2. Process!Kafka' = Process!Kafka /\ Process!Clients' = Process!Clients
    BY <2>1 DEF Process!Kafka, Process!Clients
  <2>3. h \notin held /\ held \subseteq Process!Clients
    BY <1>0, <2>1 DEF Process!TypeOK, Process!ProcessInv
  <2>4. \A g \in held : kafkaClient'[g] = kafkaClient[g]
    BY <1>0, <2>1, <2>3
  <2>5. Process!StartsWholeStopsInOrder'
    BY <1>0, <2>1, <2>2, <2>3, <2>4 DEF Process!StartsWholeStopsInOrder
  <2>6. kafkaClient'["producer"] \in {"left", "stuck"} => kafkaClient["producer"] \in {"left", "stuck"}
    BY <2>1 DEF Process!AnyClient
  <2>7. \A g \in Process!AnyClient : kafkaClient'[g] \in {kafkaClient[g], "on", "failed"}
    BY <2>1
  <2> QED BY <1>0, <2>1, <2>2, <2>4, <2>5, <2>6, <2>7 DEF Process!ProcessInv
<1>7. ASSUME NEW h \in Process!Clients, Passing(h)
      PROVE  Process!ProcessInv' /\ Process!StartsWholeStopsInOrder'
  <2>1. /\ \A g \in Process!AnyClient \ {h} : kafkaClient'[g] = kafkaClient[g]
        /\ \/ todo' = todo \ {h} /\ stop' = "hooks"
              /\ IF kafkaClient[h] = "on"
                 THEN kafkaClient'[h] = "left" \/ (h \notin Features /\ kafkaClient'[h] = "stuck")
                 ELSE kafkaClient'[h] = kafkaClient[h]
           \/ todo' = todo /\ stop' = "aborted" /\ h \in Features /\ kafkaClient[h] = "on"
              /\ kafkaClient'[h] = "stuck"
        /\ stop = "hooks" /\ boot # "dead" /\ h \in todo
        /\ h \notin Features => todo \cap Features = {}
        /\ UNCHANGED <<service, boot, held, sendPc, attempts>>
    BY <1>7, ClientPassed DEF Process!sends
  <2>2. Process!Kafka' = Process!Kafka /\ Process!Clients' = Process!Clients
    BY <2>1 DEF Process!Kafka, Process!Clients
  <2>3. held \subseteq Process!Clients /\ todo \subseteq Process!Clients /\ h \in Process!AnyClient
    BY <1>0 DEF Process!TypeOK
  <2>4. boot # "construct" /\ kafkaClient["producer"] \in {"left", "stuck"} => todo \cap Features = {}
    BY <2>1 DEF Process!ProcessInv
  <2>5. \A g \in held \cap todo' : \/ kafkaClient'[g] = "on"
                                   \/ stop' = "aborted" /\ g \in Features /\ kafkaClient'[g] = "stuck"
    BY <1>0, <2>1, <2>3 DEF Process!ProcessInv
  <2>6. \A g \in held \ todo' : kafkaClient'[g] = "left" \/ (g \in Process!Kafka /\ kafkaClient'[g] = "stuck")
    <3> SUFFICES ASSUME NEW g \in held \ todo'
                 PROVE  kafkaClient'[g] = "left" \/ (g \in Process!Kafka /\ kafkaClient'[g] = "stuck")
      OBVIOUS
    <3>1. CASE g = h
      <4>1. kafkaClient[h] = "on"
        BY <2>1, <3>1 DEF Process!ProcessInv
      <4> QED BY <1>0, <2>1, <2>3, <3>1, <4>1
    <3>2. CASE g # h
      BY <1>0, <2>1, <2>3, <3>2 DEF Process!ProcessInv
    <3> QED BY <3>1, <3>2
  <2>7. /\ todo' \cap Features # {} => Process!Kafka \subseteq todo'
        /\ stop' = "aborted" => todo' \cap Features # {} /\ \A g \in Process!Kafka : kafkaClient'[g] = kafkaClient[g]
    BY <1>0, <2>1, <2>3 DEF Process!ProcessInv, Process!AnyClient
  <2>8. kafkaClient'["producer"] \in {"left", "stuck"} => todo' \cap Features = {}
    <3>1. CASE h = "producer"
      BY <1>0, <2>1, <3>1
    <3>2. CASE h # "producer"
      BY <2>1, <3>2 DEF Process!ProcessInv, Process!AnyClient
    <3> QED BY <3>1, <3>2
  <2>9. Process!ProcessInv'
    <3>1. \A g \in Process!AnyClient : kafkaClient'[g] \in {kafkaClient[g], "left", "stuck"}
      BY <2>1
    <3>2. "producer" \in Process!AnyClient /\ Process!AnyClient' = Process!AnyClient
      BY DEF Process!AnyClient
    <3> QED BY <2>1, <2>2, <2>4, <2>5, <2>6, <2>7, <2>8, <3>1, <3>2 DEF Process!ProcessInv
  <2>10. Process!StartsWholeStopsInOrder'
    <3>1. stop # "none" /\ stop' \notin {"none", "closing"}
      BY <2>1
    <3>2. ASSUME NEW c \in Callers, sendPc'[c] = "refused", NEW g \in held \cap Features
          PROVE  kafkaClient'[g] = "left"
      <4>1. kafkaClient[g] = "left" /\ g \in Process!AnyClient
        BY <2>1, <3>2 DEF Process!StartsWholeStopsInOrder, Process!AnyClient
      <4> QED BY <2>1, <4>1
    <3>3. ASSUME stop' = "aborted", NEW g \in held \cap Process!Kafka PROVE kafkaClient'[g] = "on"
      BY <1>0, <2>1, <2>7, <3>3 DEF Process!ProcessInv
    <3> QED BY <2>1, <2>2, <3>1, <3>2, <3>3 DEF Process!StartsWholeStopsInOrder
  <2> QED BY <2>9, <2>10
<1> QED BY <1>1, <1>2, <1>3, <1>4, <1>5, <1>6, <1>7 DEF Serving

LEMMA ServingType ==
  ASSUME Process!TypeOK, Serving \/ Process!Kill
  PROVE  Process!TypeOK'
<1>1. CASE Process!Construct \/ Process!Listen \/ Process!Stop \/ Process!CloseServer \/ Process!Exit
  BY <1>1 DEF Process!TypeOK, Process!Construct, Process!Listen, Process!Stop, Process!CloseServer,
     Process!Exit, Process!Clients, Process!Kafka, Process!sends
<1>2. CASE Process!Kill
  BY <1>2 DEF Process!TypeOK, Process!Kill, Process!Clients, Process!Kafka
<1>3. ASSUME NEW h \in Process!Clients, Process!Connect(h) \/ Process!ConnectFails(h)
      PROVE  Process!TypeOK'
  <2>1. kafkaClient' \in [Process!AnyClient -> {"off", "on", "failed", "left", "stuck"}]
    BY <1>3 DEF Process!TypeOK, Process!Connect, Process!ConnectFails
  <2>2. /\ boot' \in {boot, "dead"} /\ UNCHANGED <<service, brokers, stop, todo, held>>
        /\ UNCHANGED Process!sends
    BY <1>3 DEF Process!Connect, Process!ConnectFails
  <2> QED BY <2>1, <2>2 DEF Process!TypeOK, Process!Clients, Process!Kafka, Process!sends
<1>4. ASSUME NEW h \in Process!Clients, Passing(h)
      PROVE  Process!TypeOK'
  BY <1>4, ClientPassed DEF Process!TypeOK, Process!Clients, Process!Kafka, Process!sends
<1> QED BY <1>1, <1>2, <1>3, <1>4 DEF Serving

\* The process' steps leave the events alone.
LEMMA ServingEvents ==
  ASSUME Process!TypeOK, Process!EventsInv, Process!NumbersInv, Process!OnceUnlessDisplaced,
         Serving \/ Process!Kill
  PROVE  Process!EventsInv' /\ Process!NumbersInv' /\ Process!OnceUnlessDisplaced'
<1>1. UNCHANGED <<service, hash, event, number, wire, log, done, late>>
  BY DEF Serving, Passing, Process!Construct, Process!Listen, Process!Stop, Process!CloseServer,
     Process!Disconnect, Process!DisconnectLogged, Process!DisconnectThrows, Process!Exit,
     Process!Connect, Process!ConnectFails, Process!Kill, Process!sends
<1>2. \A c \in Callers : sendPc'[c] = "sending" => sendPc[c] = "sending"
  <2>1. CASE Serving
    BY <2>1 DEF Serving, Passing, Process!Construct, Process!Listen, Process!Stop, Process!CloseServer,
       Process!Disconnect, Process!DisconnectLogged, Process!DisconnectThrows, Process!Exit,
       Process!Connect, Process!ConnectFails, Process!sends
  <2>2. CASE Process!Kill
    BY <2>2 DEF Process!Kill
  <2> QED BY <2>1, <2>2
<1>3. Process!EventsInv'
  BY <1>1, <1>2 DEF Process!EventsInv, Process!Sent, Process!Addressed, Process!Succeeded
<1>4. Process!NumbersInv' /\ Process!OnceUnlessDisplaced'
  BY <1>1 DEF Process!NumbersInv, Process!OnceUnlessDisplaced, Process!Succeeded, Process!Displaced,
     Process!At, Process!Range
<1> QED BY <1>3, <1>4

\* What the broker makes of event x, numbered n, in partition p: the log keeps what it
\* has, and grows by x or not at all; in the wallet service's partition it grows when n
\* is the number it waits for.
LEMMA BrokerStep ==
  ASSUME Process!TypeOK, NEW x \in Process!Event, NEW p \in Partitions, NEW n \in Nat,
         log' = Process!Appended(x, p, n)
  PROVE  /\ log' \in [Partitions -> Seq(Process!Event)]
         /\ \A q \in Partitions : \A i \in DOMAIN log[q] : i \in DOMAIN log'[q] /\ log'[q][i] = log[q][i]
         /\ \A q \in Partitions \ {p} : log'[q] = log[q]
         /\ \A q \in Partitions : Len(log[q]) \in Nat /\ DOMAIN log[q] = 1..Len(log[q])
         /\ \A q \in Partitions : Len(log'[q]) \in Nat /\ DOMAIN log'[q] = 1..Len(log'[q])
         /\ \/ log' = log /\ service = "wallet" /\ n # Len(log[p])
            \/ /\ Len(log'[p]) = Len(log[p]) + 1 /\ log'[p][Len(log[p]) + 1] = x
               /\ service = "wallet" => n = Len(log[p])
<1>1. log \in [Partitions -> Seq(Process!Event)] /\ log[p] \in Seq(Process!Event)
  BY DEF Process!TypeOK
<1>2. CASE service = "wallet" /\ n # Len(log[p])
  BY <1>1, <1>2 DEF Process!Appended, Process!Idempotent
<1>3. CASE ~ (service = "wallet" /\ n # Len(log[p]))
  <2>1. log' = [log EXCEPT ![p] = Append(log[p], x)]
    BY <1>3 DEF Process!Appended, Process!Idempotent
  <2>2. log' \in [Partitions -> Seq(Process!Event)]
    BY <1>1, <2>1
  <2>3. /\ \A q \in Partitions \ {p} : log'[q] = log[q]
        /\ log'[p] = Append(log[p], x)
    BY <1>1, <2>1
  <2>4. /\ Len(log'[p]) = Len(log[p]) + 1 /\ log'[p][Len(log[p]) + 1] = x
        /\ \A i \in DOMAIN log[p] : i \in DOMAIN log'[p] /\ log'[p][i] = log[p][i]
    BY <1>1, <2>3
  <2>5. \A q \in Partitions : /\ Len(log[q]) \in Nat /\ DOMAIN log[q] = 1..Len(log[q])
                              /\ Len(log'[q]) \in Nat /\ DOMAIN log'[q] = 1..Len(log'[q])
    BY <1>1, <2>2
  <2> QED BY <1>3, <2>2, <2>3, <2>4, <2>5
<1> QED BY <1>2, <1>3

\* The log after a step holds what it held and, in partition p, perhaps x behind it.
LEMMA LogAddressed ==
  ASSUME Process!TypeOK, Process!EventsInv, NEW x \in Process!Event, NEW p \in Partitions, NEW n \in Nat,
         log' = Process!Appended(x, p, n), Process!Sent(x), Process!Addressed(x, p)
  PROVE  \A q \in Partitions : \A i \in DOMAIN log'[q] :
           Process!Sent(log'[q][i]) /\ Process!Addressed(log'[q][i], q)
<1> SUFFICES ASSUME NEW q \in Partitions, NEW i \in DOMAIN log'[q]
             PROVE  Process!Sent(log'[q][i]) /\ Process!Addressed(log'[q][i], q)
  OBVIOUS
<1>1. CASE i \in DOMAIN log[q]
  BY <1>1, BrokerStep DEF Process!EventsInv
<1>2. CASE i \notin DOMAIN log[q]
  <2>1. q = p /\ i = Len(log[p]) + 1 /\ log'[q][i] = x
    BY <1>2, BrokerStep
  <2> QED BY <2>1
<1> QED BY <1>1, <1>2

\* Types and places of what was acknowledged, in the wallet service.
LEMMA Placed ==
  ASSUME Process!TypeOK, Process!EventsInv, Process!NumbersInv, service = "wallet"
  PROVE  /\ \A d \in done :
              /\ d.event \in Process!Event /\ d.partition \in Partitions /\ d.number \in Nat
              /\ d.number + 1 \in DOMAIN log[d.partition] /\ d.number < number[d.partition]
              /\ d.number < Len(log[d.partition])
              /\ d.partition = hash[d.event.user] /\ d.event.n <= event[d.event.by].n
              /\ d.event.user = event[d.event.by].user
              /\ Process!At(d) \in Process!Event /\ Process!Sent(Process!At(d))
              /\ hash[Process!At(d).user] = d.partition
         /\ \A p \in Partitions : number[p] \in Nat /\ Len(log[p]) \in {number[p], number[p] + 1}
                                  /\ DOMAIN log[p] = 1..Len(log[p])
<1>1. \A p \in Partitions : /\ number[p] \in Nat /\ Len(log[p]) \in {number[p], number[p] + 1}
                            /\ DOMAIN log[p] = 1..Len(log[p]) /\ log[p] \in Seq(Process!Event)
  BY DEF Process!TypeOK, Process!NumbersInv
<1>2. ASSUME NEW d \in done
      PROVE  /\ d.event \in Process!Event /\ d.partition \in Partitions /\ d.number \in Nat
             /\ d.number + 1 \in DOMAIN log[d.partition] /\ d.number < number[d.partition]
             /\ d.number < Len(log[d.partition])
             /\ d.partition = hash[d.event.user] /\ d.event.n <= event[d.event.by].n
             /\ d.event.user = event[d.event.by].user
             /\ Process!At(d) \in Process!Event /\ Process!Sent(Process!At(d))
             /\ hash[Process!At(d).user] = d.partition
  <2>1. d.event \in Process!Event /\ d.partition \in Partitions /\ d.number \in Nat
    BY DEF Process!TypeOK, Process!Success
  <2>2. d.number < number[d.partition]
    BY DEF Process!NumbersInv
  <2>3. d.number + 1 \in DOMAIN log[d.partition] /\ d.number < Len(log[d.partition])
    BY <1>1, <2>1, <2>2
  <2>4. d.partition = hash[d.event.user] /\ d.event.n <= event[d.event.by].n
        /\ d.event.user = event[d.event.by].user
    BY DEF Process!EventsInv, Process!Sent, Process!Addressed
  <2>5. Process!At(d) \in Process!Event
    BY <1>1, <2>1, <2>3 DEF Process!At
  <2>6. Process!Sent(Process!At(d)) /\ hash[Process!At(d).user] = d.partition
    BY <2>1, <2>3 DEF Process!EventsInv, Process!Addressed, Process!At
  <2> QED BY <2>1, <2>2, <2>3, <2>4, <2>5, <2>6
<1> QED BY <1>1, <1>2

\* An attempt that arrives late keeps the numbers and the places.
LEMMA LateNumbers ==
  ASSUME Process!TypeOK, Process!EventsInv, Process!NumbersInv, Process!OnceUnlessDisplaced,
         service = "wallet", NEW a \in wire, Process!ArriveLate(a)
  PROVE  Process!NumbersInv' /\ Process!OnceUnlessDisplaced'
<1> DEFINE x == a.event
           p == a.partition
<1>1. /\ x \in Process!Event /\ p \in Partitions /\ a.number \in Nat /\ x \in late
      /\ Process!Sent(x) /\ Process!Addressed(x, p) /\ a.number <= number[p] /\ p = hash[x.user]
  BY DEF Process!TypeOK, Process!Attempt, Process!EventsInv, Process!NumbersInv, Process!Addressed
<1>2. /\ log' = Process!Appended(x, p, a.number) /\ wire' = wire \ {a}
      /\ UNCHANGED <<service, hash, event, number, done, late>>
  BY DEF Process!ArriveLate, Process!process
<1>3. CASE log' = log
  BY <1>2, <1>3 DEF Process!NumbersInv, Process!OnceUnlessDisplaced, Process!Succeeded, Process!Displaced,
     Process!At, Process!Range
<1>4. CASE log' # log
  <2>1. /\ Len(log'[p]) = Len(log[p]) + 1 /\ log'[p][Len(log[p]) + 1] = x /\ a.number = Len(log[p])
        /\ \A q \in Partitions \ {p} : log'[q] = log[q]
        /\ \A q \in Partitions : \A i \in DOMAIN log[q] : i \in DOMAIN log'[q] /\ log'[q][i] = log[q][i]
        /\ \A q \in Partitions : DOMAIN log'[q] = 1..Len(log'[q])
    BY <1>1, <1>2, <1>4, BrokerStep
  <2>2. number[p] = Len(log[p]) /\ number[p] \in Nat
    BY <1>1, <2>1, Placed
  <2>3. ~ Process!Succeeded(x)
    <3> SUFFICES ASSUME NEW d \in done, d.event = x PROVE FALSE
      BY DEF Process!Succeeded
    <3>1. a.number <= d.number /\ d.number < number[p]
      BY <1>1, Placed DEF Process!NumbersInv
    <3> QED BY <2>1, <2>2, <3>1, Placed
  <2>4. \A d \in done : Process!At(d)' = Process!At(d) /\ (Process!Displaced(d)' <=> Process!Displaced(d))
    BY <1>2, <2>1, Placed DEF Process!At, Process!Displaced
  <2>5. Process!NumbersInv'
    <3>1. ASSUME NEW q \in Partitions
          PROVE  /\ Len(log'[q]) \in {number'[q], number'[q] + 1}
                 /\ Len(log'[q]) = number'[q] + 1 =>
                      /\ log'[q][Len(log'[q])] \in late'
                      /\ \A d \in done' : d.event # log'[q][Len(log'[q])]
                 /\ \A k \in 0..number'[q] - 1 : \E d \in done' : d.partition = q /\ d.number = k
      <4>1. \A k \in 0..number'[q] - 1 : \E d \in done' : d.partition = q /\ d.number = k
        BY <1>2 DEF Process!NumbersInv
      <4>2. CASE q = p
        <5>1. \A d \in done' : d.event # x
          BY <1>2, <2>3 DEF Process!Succeeded
        <5>2. Len(log'[q]) = number'[q] + 1 /\ log'[q][Len(log'[q])] = x
          BY <1>2, <2>1, <2>2, <4>2
        <5> QED BY <1>1, <1>2, <4>1, <5>1, <5>2
      <4>3. CASE q # p
        <5>1. log'[q] = log[q] /\ number'[q] = number[q]
          BY <1>2, <2>1, <4>3
        <5> QED BY <1>2, <4>1, <5>1 DEF Process!NumbersInv, Process!Succeeded
      <4> QED BY <4>2, <4>3
    <3>2. \A d \in done' : d.number < number'[d.partition]
      BY <1>2 DEF Process!NumbersInv
    <3>3. \A b \in wire' : /\ b.number <= number'[b.partition] /\ b.event \in late'
                          /\ \A d \in done' : d.event = b.event => b.number <= d.number
      BY <1>2 DEF Process!NumbersInv
    <3> QED BY <3>1, <3>2, <3>3 DEF Process!NumbersInv, Process!Succeeded
  <2>6. ASSUME NEW q \in Partitions, NEW i \in DOMAIN log'[q], NEW j \in DOMAIN log'[q], i < j,
               log'[q][i] = log'[q][j]
        PROVE  \E d \in done' : d.partition = q /\ d.number = i - 1 /\ Process!Displaced(d)'
    <3>1. CASE i \in DOMAIN log[q] /\ j \in DOMAIN log[q]
      <4>1. PICK d \in done : d.partition = q /\ d.number = i - 1 /\ Process!Displaced(d)
        BY <2>1, <2>6, <3>1 DEF Process!OnceUnlessDisplaced
      <4> QED BY <1>2, <2>4, <4>1
    <3>2. CASE ~ (i \in DOMAIN log[q] /\ j \in DOMAIN log[q])
      <4>1. q = p /\ j = Len(log[p]) + 1 /\ i \in 1..Len(log[p]) /\ log[p][i] = x
        BY <2>1, <2>2, <2>6, <3>2, Placed
      <4>2. i - 1 \in 0..number[p] - 1
        BY <2>2, <4>1
      <4>3. PICK d \in done : d.partition = p /\ d.number = i - 1
        BY <1>1, <4>2 DEF Process!NumbersInv
      <4>4. Process!At(d) = x
        BY <4>1, <4>3 DEF Process!At
      <4>5. Process!Displaced(d)
        BY <2>3, <4>4 DEF Process!Displaced, Process!Succeeded
      <4> QED BY <1>2, <2>4, <4>1, <4>3, <4>5
    <3> QED BY <3>1, <3>2
  <2>7. \A q, r \in Partitions : \A i \in DOMAIN log'[q], j \in DOMAIN log'[r] :
          log'[q][i].user = log'[r][j].user => q = r
    <3>1. \A q \in Partitions : \A i \in DOMAIN log'[q] : Process!Addressed(log'[q][i], q)
      BY <1>1, <1>2, LogAddressed
    <3> QED BY <3>1 DEF Process!Addressed
  <2>8. \A d \in done : d.number < Len(log'[d.partition])
    BY <2>1, Placed
  <2> QED BY <1>2, <2>4, <2>5, <2>6, <2>7, <2>8 DEF Process!OnceUnlessDisplaced
<1> QED BY <1>3, <1>4

\* Request c's event x is acknowledged with number n in partition p: success w.
Taking(c, x, p, n, w) ==
  /\ x = event[c] /\ x.by = c /\ ~ Process!Succeeded(x) /\ n = number[p] /\ hash[x.user] = p
  /\ w.event = x /\ w.partition = p /\ w.number = n
  /\ log' = Process!Appended(x, p, n) /\ done' = done \cup {w}
  /\ number' = [number EXCEPT ![p] = n + 1] /\ UNCHANGED <<service, hash, event, wire, late>>

\* It takes its number, and with it a place that is its event's or was taken by an event
\* whose answer was lost.
LEMMA NumberTaken ==
  ASSUME Process!TypeOK, Process!EventsInv, Process!NumbersInv, Process!OnceUnlessDisplaced,
         service = "wallet", NEW c \in Callers, NEW x \in Process!Event, NEW p \in Partitions,
         NEW n \in Nat, NEW w, Taking(c, x, p, n, w)
  PROVE  Process!NumbersInv' /\ Process!OnceUnlessDisplaced'
<1>1. log' = Process!Appended(x, p, n)
  BY DEF Taking
<1>2. UNCHANGED <<service, hash, event, wire, late>> /\ ~ Process!Succeeded(x)
  BY DEF Taking
<1>3. /\ Process!Sent(x) /\ Process!Addressed(x, p) /\ x.n \in Nat /\ x.by = c /\ hash[x.user] = p
      /\ x = event[c] /\ number[p] = n
  BY DEF Taking, Process!Sent, Process!Addressed, Process!Event
<1>4. /\ w.event = x /\ w.partition = p /\ w.number = n /\ w \notin done
      /\ done' = done \cup {w}
      /\ number'[p] = n + 1 /\ \A q \in Partitions \ {p} : number'[q] = number[q]
  BY DEF Taking, Process!TypeOK, Process!Succeeded
<1>5. /\ \A q \in Partitions \ {p} : log'[q] = log[q]
      /\ \A q \in Partitions : \A i \in DOMAIN log[q] : i \in DOMAIN log'[q] /\ log'[q][i] = log[q][i]
      /\ \A q \in Partitions : Len(log'[q]) \in Nat /\ DOMAIN log'[q] = 1..Len(log'[q])
      /\ \A q \in Partitions : Len(log[q]) \in Nat /\ DOMAIN log[q] = 1..Len(log[q])
      /\ \/ log' = log /\ n # Len(log[p])
         \/ Len(log'[p]) = Len(log[p]) + 1 /\ log'[p][Len(log[p]) + 1] = x /\ n = Len(log[p])
  BY <1>1, BrokerStep
<1>6. Len(log'[p]) = n + 1 /\ log'[p][n + 1] \in Process!Event
  <2>1. Len(log[p]) \in {n, n + 1}
    BY <1>3, Placed
  <2>2. Len(log'[p]) = n + 1 /\ n + 1 \in DOMAIN log'[p]
    BY <1>3, <1>4, <1>5, <2>1
  <2>3. log'[p] \in Seq(Process!Event)
    BY <1>1, BrokerStep
  <2> QED BY <2>2, <2>3
<1>7. \A d \in done : Process!At(d)' = Process!At(d) /\ (Process!Displaced(d)' <=> Process!Displaced(d))
  BY <1>5, Placed DEF Process!At, Process!Displaced
<1>8. Process!At(w)' = log'[p][n + 1]
  BY <1>4 DEF Process!At
<1>9. Process!NumbersInv'
  <2>1. ASSUME NEW q \in Partitions
        PROVE  /\ Len(log'[q]) \in {number'[q], number'[q] + 1}
               /\ Len(log'[q]) = number'[q] + 1 =>
                    /\ log'[q][Len(log'[q])] \in late'
                    /\ \A d \in done' : d.event # log'[q][Len(log'[q])]
               /\ \A k \in 0..number'[q] - 1 : \E d \in done' : d.partition = q /\ d.number = k
    <3>1. CASE q = p
      <4>1. \A k \in 0..n - 1 : \E d \in done : d.partition = p /\ d.number = k
        BY <1>3 DEF Process!NumbersInv
      <4> QED BY <1>4, <1>6, <3>1, <4>1
    <3>2. CASE q # p
      <4>1. log'[q] = log[q] /\ number'[q] = number[q]
        BY <1>4, <1>5, <3>2
      <4>2. Len(log[q]) = number[q] + 1 => x # log[q][Len(log[q])]
        <5>1. Len(log[q]) = number[q] + 1 => hash[log[q][Len(log[q])].user] = q
          BY Placed DEF Process!EventsInv, Process!Addressed
        <5> QED BY <1>3, <3>2, <5>1
      <4>3. \A k \in 0..number[q] - 1 : \E d \in done : d.partition = q /\ d.number = k
        BY DEF Process!NumbersInv
      <4> QED BY <1>2, <1>4, <4>1, <4>2, <4>3 DEF Process!NumbersInv, Process!Succeeded
    <3> QED BY <3>1, <3>2
  <2>2. ASSUME NEW d \in done' PROVE d.number < number'[d.partition]
    <3>1. CASE d = w
      BY <1>4, <3>1
    <3>2. CASE d \in done /\ d.partition = p
      <4>1. d.number \in Nat /\ d.number < number[p]
        BY <3>2, Placed
      <4> QED BY <1>3, <1>4, <3>2, <4>1
    <3>3. CASE d \in done /\ d.partition # p
      <4>1. d.partition \in Partitions /\ d.number < number[d.partition]
        BY <3>3, Placed
      <4> QED BY <1>4, <3>3, <4>1
    <3> QED BY <1>4, <3>1, <3>2, <3>3
  <2>3. ASSUME NEW a \in wire
        PROVE  /\ a.number <= number'[a.partition] /\ a.event \in late'
               /\ \A d \in done' : d.event = a.event => a.number <= d.number
    <3>1. /\ a.partition \in Partitions /\ a.number \in Nat /\ a.number <= number[a.partition]
          /\ a.partition = hash[a.event.user] /\ number[a.partition] \in Nat
      BY DEF Process!TypeOK, Process!Attempt, Process!NumbersInv, Process!EventsInv, Process!Addressed
    <3>2. a.event = x => a.number <= n
      BY <1>3, <3>1
    <3>3. a.number <= number'[a.partition]
      <4>1. CASE a.partition = p
        BY <1>3, <1>4, <3>1, <4>1
      <4>2. CASE a.partition # p
        BY <1>4, <3>1, <4>2
      <4> QED BY <4>1, <4>2
    <3>4. a.event \in late /\ \A d \in done : d.event = a.event => a.number <= d.number
      BY DEF Process!NumbersInv
    <3> QED BY <1>2, <1>4, <3>2, <3>3, <3>4
  <2> QED BY <1>2, <2>1, <2>2, <2>3 DEF Process!NumbersInv, Process!Succeeded
<1>10. ASSUME NEW d \in done'
       PROVE  /\ d.number < Len(log'[d.partition])
              /\ Process!Displaced(d)' =>
                   /\ Process!At(d)' \in late'
                   /\ Process!At(d)'.by = d.event.by =>
                        Process!At(d)'.n < d.event.n /\ \A f \in done' : f.event # Process!At(d)'
  <2>1. CASE d \in done
    <3>1. d.number < Len(log'[d.partition])
      BY <1>5, <2>1, Placed
    <3>2. ASSUME Process!Displaced(d), Process!At(d).by = d.event.by
          PROVE  x # Process!At(d)
      <4>1. Process!At(d).n < d.event.n /\ d.event.n <= event[d.event.by].n
        BY <2>1, <3>2, Placed DEF Process!OnceUnlessDisplaced
      <4>2. Process!At(d).n \in Nat /\ d.event.n \in Nat /\ event[d.event.by].n \in Nat
        BY <2>1, Placed DEF Process!TypeOK, Process!Event
      <4> QED BY <1>3, <3>2, <4>1, <4>2
    <3> QED BY <1>2, <1>4, <1>7, <2>1, <3>1, <3>2 DEF Process!OnceUnlessDisplaced
  <2>2. CASE d = w
    <3>1. d.number < Len(log'[d.partition])
      BY <1>4, <1>6, <2>2
    <3>2. ASSUME log'[p][n + 1] # x
          PROVE  /\ log'[p][n + 1] \in late
                 /\ log'[p][n + 1].by = c =>
                      log'[p][n + 1].n < x.n /\ \A f \in done' : f.event # log'[p][n + 1]
      <4>1. log' = log /\ Len(log[p]) = n + 1 /\ n + 1 \in DOMAIN log[p]
        BY <1>3, <1>4, <1>5, <1>6, <3>2
      <4>2. log[p][n + 1] \in late /\ \A f \in done : f.event # log[p][n + 1]
        BY <1>3, <4>1 DEF Process!NumbersInv, Process!Succeeded
      <4>3. log[p][n + 1].by = c => log[p][n + 1].n < x.n
        <5> SUFFICES ASSUME NEW y \in Process!Event, y = log[p][n + 1], y.by = c
                     PROVE  y.n < x.n
          BY <1>6, <4>1
        <5>1. y # x /\ y.n \in Nat
          BY <3>2, <4>1 DEF Process!Event
        <5>2. y.n <= x.n /\ y.user = x.user
          BY <1>3, <4>1 DEF Process!EventsInv, Process!Sent
        <5>3. y = [by |-> y.by, n |-> y.n, user |-> y.user] /\ x = [by |-> x.by, n |-> x.n, user |-> x.user]
          BY DEF Process!Event
        <5>4. y.n # x.n
          BY <1>3, <5>1, <5>2, <5>3
        <5> QED BY <1>3, <5>1, <5>2, <5>4
      <4> QED BY <1>4, <3>2, <4>1, <4>2, <4>3
    <3> QED BY <1>2, <1>3, <1>4, <1>8, <2>2, <3>1, <3>2 DEF Process!Displaced
  <2> QED BY <1>4, <2>1, <2>2
<1>11. ASSUME NEW d \in done', NEW f \in done', d # f, d.partition = f.partition
       PROVE  /\ d.number # f.number
              /\ d.event.by = f.event.by /\ d.event.n < f.event.n => d.number < f.number
  <2>1. ASSUME NEW e \in done
        PROVE  /\ e.partition = p => e.number < n /\ e.number \in Nat
               /\ e.event.by = c => e.event.n <= x.n /\ e.event.n \in Nat
    <3>1. e.event \in Process!Event /\ e.number \in Nat /\ e.number < number[e.partition]
          /\ e.event.n <= event[e.event.by].n
      BY Placed
    <3> QED BY <1>3, <3>1 DEF Process!Event
  <2>2. CASE d \in done /\ f \in done
    BY <1>11, <2>2 DEF Process!OnceUnlessDisplaced
  <2> QED BY <1>3, <1>4, <1>11, <2>1, <2>2
<1>12. ASSUME NEW q \in Partitions, NEW i \in DOMAIN log'[q], NEW j \in DOMAIN log'[q], i < j,
              log'[q][i] = log'[q][j]
       PROVE  \E d \in done' : d.partition = q /\ d.number = i - 1 /\ Process!Displaced(d)'
  <2>1. CASE i \in DOMAIN log[q] /\ j \in DOMAIN log[q]
    <3>1. PICK d \in done : d.partition = q /\ d.number = i - 1 /\ Process!Displaced(d)
      BY <1>5, <1>12, <2>1 DEF Process!OnceUnlessDisplaced
    <3> QED BY <1>4, <1>7, <3>1
  <2>2. CASE ~ (i \in DOMAIN log[q] /\ j \in DOMAIN log[q])
    <3>1. q = p /\ n = Len(log[p]) /\ Len(log'[p]) = n + 1 /\ log'[p][n + 1] = x
      BY <1>4, <1>5, <1>12, <2>2
    <3>0. i \in 1..n /\ j = n + 1
      <4>1. i \in 1..n + 1 /\ j \in 1..n + 1 /\ ~ (i \in 1..n /\ j \in 1..n)
        BY <1>5, <2>2, <3>1
      <4> QED BY <1>4, <1>12, <4>1
    <3>6. log[p][i] = x
      BY <1>5, <1>12, <3>0, <3>1
    <3>2. i - 1 \in 0..n - 1
      BY <1>4, <3>0
    <3>3. PICK d \in done : d.partition = p /\ d.number = i - 1
      BY <1>3, <3>2 DEF Process!NumbersInv
    <3>4. Process!At(d) = x
      <4>1. i - 1 + 1 = i
        BY <3>0
      <4> QED BY <3>6, <3>3, <4>1 DEF Process!At
    <3>5. Process!Displaced(d)
      BY <1>2, <3>4 DEF Process!Displaced, Process!Succeeded
    <3> QED BY <1>4, <1>7, <3>1, <3>3, <3>5
  <2> QED BY <2>1, <2>2
<1>13. \A q, r \in Partitions : \A i \in DOMAIN log'[q], j \in DOMAIN log'[r] :
         log'[q][i].user = log'[r][j].user => q = r
  <2>1. \A q \in Partitions : \A i \in DOMAIN log'[q] : Process!Addressed(log'[q][i], q)
    BY <1>1, <1>3, LogAddressed
  <2> QED BY <2>1 DEF Process!Addressed
<1> QED BY <1>2, <1>9, <1>10, <1>11, <1>12, <1>13 DEF Process!OnceUnlessDisplaced

LEMMA AcknowledgedNumbers ==
  ASSUME Process!TypeOK, Process!EventsInv, Process!NumbersInv, Process!OnceUnlessDisplaced,
         service = "wallet", NEW c \in Callers, Process!Acknowledged(c)
  PROVE  Process!NumbersInv' /\ Process!OnceUnlessDisplaced'
<1>1. PICK p \in Process!Targets(event[c]) :
        /\ log' = Process!Appended(event[c], p, number[p])
        /\ done' = done \cup {[event |-> event[c], partition |-> p, number |-> number[p]]}
        /\ number' = [number EXCEPT ![p] = number[p] + 1]
  BY DEF Process!Acknowledged, Process!Idempotent
<1>2. UNCHANGED <<service, hash, event, wire, late>> /\ ~ Process!Succeeded(event[c])
  BY DEF Process!Acknowledged, Process!process, Process!EventsInv
<1>3. /\ event[c] \in Process!Event /\ event[c].by = c /\ p \in Partitions /\ hash[event[c].user] = p
      /\ number[p] \in Nat
  BY DEF Process!TypeOK, Process!EventsInv, Process!Targets, Process!Event
<1>4. PICK w : w = [event |-> event[c], partition |-> p, number |-> number[p]]
  OBVIOUS
<1>5. w.event = event[c] /\ w.partition = p /\ w.number = number[p] /\ done' = done \cup {w}
  BY <1>1, <1>4
<1>6. Taking(c, event[c], p, number[p], w)
  BY <1>1, <1>2, <1>3, <1>5 DEF Taking
<1> QED BY <1>3, <1>6, NumberTaken
\* The user service's log holds what was acknowledged: an attempt always appends.
LEMMA UserLog ==
  ASSUME Process!TypeOK, Process!OnceUnlessDisplaced, service = "user", service' = service,
         NEW x \in Process!Event, NEW p \in Partitions, NEW n \in Nat, log' = Process!Appended(x, p, n),
         \A d \in done' : d \in done \/ (d.event = x /\ d.partition = p)
  PROVE  Process!NumbersInv' /\ Process!OnceUnlessDisplaced'
<1>1. /\ \A q \in Partitions : \A i \in DOMAIN log[q] : i \in DOMAIN log'[q] /\ log'[q][i] = log[q][i]
      /\ Len(log[p]) + 1 \in DOMAIN log'[p] /\ log'[p][Len(log[p]) + 1] = x
  BY BrokerStep
<1>2. ASSUME NEW d \in done' PROVE d.event \in Process!Range(log'[d.partition])
  <2>1. CASE d \in done
    <3>1. d.partition \in Partitions /\ d.event \in Process!Range(log[d.partition])
      BY <2>1 DEF Process!TypeOK, Process!Success, Process!OnceUnlessDisplaced
    <3> QED BY <1>1, <3>1 DEF Process!Range
  <2>2. CASE d.event = x /\ d.partition = p
    BY <1>1, <2>2 DEF Process!Range
  <2> QED BY <1>2, <2>1, <2>2
<1> QED BY <1>2 DEF Process!NumbersInv, Process!OnceUnlessDisplaced, Process!Range

\* What a request does leaves the process as it is, and is refused in order.
LEMMA SendProcess ==
  ASSUME Process!TypeOK, Process!ProcessInv, Process!StartsWholeStopsInOrder, NEW c \in Callers,
         Process!Publish(c) \/ Process!Acknowledged(c) \/ Process!TimedOut(c) \/ Process!Refused(c)
  PROVE  /\ Process!ProcessInv' /\ Process!StartsWholeStopsInOrder'
         /\ UNCHANGED <<service, brokers, boot, kafkaClient, stop, todo, held, hash>>
         /\ sendPc' \in [Callers -> {"idle", "sending", "sent", "failed", "refused", "lost"}]
         /\ attempts' \in [Callers -> 0..MaxRetries + 1]
         /\ \A d \in Callers \ {c} : sendPc'[d] = sendPc[d]
<1>1. /\ UNCHANGED <<service, brokers, boot, kafkaClient, stop, todo, held, hash>>
      /\ MaxRetries \in Nat
      /\ \A d \in Callers \ {c} : sendPc'[d] = sendPc[d] /\ attempts'[d] = attempts[d]
      /\ sendPc' \in [Callers -> {"idle", "sending", "sent", "failed", "refused", "lost"}]
  BY PartsConstants DEF Process!TypeOK, Process!Publish, Process!Acknowledged, Process!TimedOut,
     Process!Refused, Process!process, Process!MessagingConstants
<1>2. Process!Clients' = Process!Clients /\ Process!Kafka' = Process!Kafka
  BY <1>1 DEF Process!Clients, Process!Kafka
<1>3. /\ attempts' \in [Callers -> 0..MaxRetries + 1]
      /\ sendPc'[c] = "sending" => boot = "listening" /\ attempts'[c] <= MaxRetries
  <2>1. attempts[c] \in 0..MaxRetries + 1 /\ (sendPc[c] = "sending" => attempts[c] <= MaxRetries /\ boot = "listening")
    BY DEF Process!TypeOK, Process!ProcessInv
  <2>2. CASE Process!Publish(c)
    BY <1>1, <2>2 DEF Process!TypeOK, Process!Publish
  <2>3. CASE Process!TimedOut(c)
    BY <1>1, <2>1, <2>3 DEF Process!TypeOK, Process!TimedOut
  <2>4. CASE Process!Acknowledged(c) \/ Process!Refused(c)
    BY <2>4 DEF Process!TypeOK, Process!Acknowledged, Process!Refused
  <2> QED BY <2>2, <2>3, <2>4
<1>4. Process!ProcessInv'
  BY <1>1, <1>2, <1>3 DEF Process!ProcessInv, Process!AnyClient
<1>5. sendPc'[c] = "refused" => stop # "none" /\ \A h \in held \cap Features : kafkaClient[h] = "left"
  <2> SUFFICES ASSUME sendPc'[c] = "refused"
               PROVE  stop # "none" /\ \A h \in held \cap Features : kafkaClient[h] = "left"
    OBVIOUS
  <2>1. sendPc[c] = "sending" /\ kafkaClient["producer"] # "on"
    BY <1>1 DEF Process!TypeOK, Process!Publish, Process!Acknowledged, Process!TimedOut, Process!Refused
  <2>2. boot = "listening" /\ "producer" \in Process!AnyClient
    BY <2>1 DEF Process!ProcessInv, Process!AnyClient
  <2>3. kafkaClient["producer"] \in {"left", "stuck"}
    BY <2>1, <2>2 DEF Process!TypeOK, Process!ProcessInv
  <2>4. stop # "none" /\ todo \cap Features = {}
    BY <2>2, <2>3 DEF Process!ProcessInv
  <2>5. Process!Kafka \cap Features = {}
    BY PartsConstants DEF Process!MessagingConstants, Process!Kafka
  <2> QED BY <2>4, <2>5 DEF Process!ProcessInv
<1>6. Process!StartsWholeStopsInOrder'
  BY <1>1, <1>2, <1>5 DEF Process!StartsWholeStopsInOrder
<1> QED BY <1>1, <1>3, <1>4, <1>6

\* A request publishes its next event: no event that was published before is that one.
LEMMA PublishInv ==
  ASSUME Process!TypeOK, Process!IInv, NEW c \in Callers, Process!Publish(c)
  PROVE  Process!TypeOK' /\ Process!IInv'
<1>1. /\ Process!ProcessInv' /\ Process!StartsWholeStopsInOrder'
      /\ UNCHANGED <<service, brokers, boot, kafkaClient, stop, todo, held, hash>>
      /\ sendPc' \in [Callers -> {"idle", "sending", "sent", "failed", "refused", "lost"}]
      /\ attempts' \in [Callers -> 0..MaxRetries + 1]
      /\ \A d \in Callers \ {c} : sendPc'[d] = sendPc[d]
  BY SendProcess DEF Process!IInv
<1>2. UNCHANGED <<number, wire, log, done, late>>
      /\ event' = [event EXCEPT ![c] = [event[c] EXCEPT !.n = event[c].n + 1]]
  BY DEF Process!Publish
<1>3. \A d \in Callers : event[d] \in Process!Event /\ event[d].by = d /\ event[d].n \in Nat
  BY DEF Process!TypeOK, Process!IInv, Process!EventsInv, Process!Event
<1>4. /\ event'[c] \in Process!Event /\ event'[c].user = event[c].user /\ event'[c].by = c
      /\ event'[c].n = event[c].n + 1
      /\ \A d \in Callers \ {c} : event'[d] = event[d]
  <2>1. PICK e : e = [event[c] EXCEPT !.n = event[c].n + 1]
    OBVIOUS
  <2>2. event[c] = [by |-> c, n |-> event[c].n, user |-> event[c].user] /\ event[c].user \in Users
    BY <1>3 DEF Process!Event
  <2>3. e \in Process!Event /\ e.user = event[c].user /\ e.by = c /\ e.n = event[c].n + 1
    BY <1>3, <2>1, <2>2 DEF Process!Event
  <2>4. event' = [event EXCEPT ![c] = e] /\ event \in [Callers -> Process!Event]
    BY <1>2, <2>1 DEF Process!TypeOK
  <2> QED BY <2>3, <2>4
<1>5. event' \in [Callers -> Process!Event]
  BY <1>2, <1>3, <1>4 DEF Process!TypeOK
<1>6. Process!TypeOK'
  BY <1>1, <1>2, <1>5 DEF Process!TypeOK, Process!Clients, Process!Kafka
<1>7. ASSUME NEW e \in Process!Event, Process!Sent(e)
      PROVE  Process!Sent(e)' /\ e # event'[c]
  <2>1. e.by \in Callers /\ e.n \in Nat /\ e.n <= event[e.by].n /\ e.user = event[e.by].user
    BY <1>7 DEF Process!Event, Process!Sent
  <2>2. CASE e.by = c
    <3>1. e.n <= event[c].n /\ e.user = event[c].user
      BY <2>1, <2>2
    <3>2. e.n <= event'[c].n /\ e.n # event'[c].n /\ e.user = event'[c].user
      BY <1>3, <1>4, <2>1, <3>1
    <3> QED BY <2>2, <3>2 DEF Process!Sent
  <2>3. CASE e.by # c
    BY <1>4, <2>1, <2>3 DEF Process!Sent
  <2> QED BY <2>2, <2>3
<1>8. /\ \A a \in wire : a.event \in Process!Event
      /\ \A d \in done : d.event \in Process!Event
      /\ \A p \in Partitions : \A i \in DOMAIN log[p] : log[p][i] \in Process!Event
  BY DEF Process!TypeOK, Process!Attempt, Process!Success
<1>9. ASSUME NEW d \in Callers
      PROVE  event'[d].by = d /\ (sendPc'[d] = "sending" => \A e \in done' : e.event # event'[d])
  <2>1. CASE d = c
    <3>1. \A e \in done : Process!Sent(e.event)
      BY DEF Process!IInv, Process!EventsInv
    <3> QED BY <1>2, <1>4, <1>7, <1>8, <2>1, <3>1
  <2>2. CASE d # c
    BY <1>1, <1>2, <1>4, <2>2 DEF Process!IInv, Process!EventsInv, Process!Succeeded
  <2> QED BY <2>1, <2>2
<1>10. Process!EventsInv'
  <2>1. /\ \A a \in wire : Process!Sent(a.event)' /\ Process!Addressed(a.event, a.partition)
        /\ \A p \in Partitions : \A i \in DOMAIN log[p] :
             Process!Sent(log[p][i])' /\ Process!Addressed(log[p][i], p)
        /\ \A d \in done : Process!Sent(d.event)' /\ Process!Addressed(d.event, d.partition)
    <3>1. /\ \A a \in wire : Process!Sent(a.event) /\ Process!Addressed(a.event, a.partition)
          /\ \A p \in Partitions : \A i \in DOMAIN log[p] :
               Process!Sent(log[p][i]) /\ Process!Addressed(log[p][i], p)
          /\ \A d \in done : Process!Sent(d.event) /\ Process!Addressed(d.event, d.partition)
      BY DEF Process!IInv, Process!EventsInv
    <3>2. \A e \in Process!Event : Process!Sent(e) => Process!Sent(e)'
      BY <1>7
    <3> QED BY <1>2, <1>8, <3>1, <3>2 DEF Process!Sent
  <2> QED BY <1>1, <1>2, <1>9, <2>1 DEF Process!EventsInv, Process!Succeeded, Process!Sent,
          Process!Addressed
<1>11. Process!NumbersInv' /\ Process!OnceUnlessDisplaced'
  BY <1>1, <1>2 DEF Process!IInv, Process!NumbersInv, Process!OnceUnlessDisplaced, Process!Succeeded,
     Process!Displaced, Process!At, Process!Range
<1> QED BY <1>1, <1>6, <1>10, <1>11 DEF Process!IInv

\* An attempt is acknowledged.
LEMMA AcknowledgedInv ==
  ASSUME Process!TypeOK, Process!IInv, NEW c \in Callers, Process!Acknowledged(c)
  PROVE  Process!TypeOK' /\ Process!IInv'
<1>1. /\ Process!ProcessInv' /\ Process!StartsWholeStopsInOrder'
      /\ UNCHANGED <<service, brokers, boot, kafkaClient, stop, todo, held, hash>>
      /\ sendPc' \in [Callers -> {"idle", "sending", "sent", "failed", "refused", "lost"}]
      /\ attempts' \in [Callers -> 0..MaxRetries + 1]
      /\ \A d \in Callers \ {c} : sendPc'[d] = sendPc[d]
  BY SendProcess DEF Process!IInv
<1>2. PICK p \in Process!Targets(event[c]) :
        /\ log' = Process!Appended(event[c], p, number[p])
        /\ done' = done \cup {[event |-> event[c], partition |-> p, number |-> number[p]]}
        /\ number' = IF Process!Idempotent THEN [number EXCEPT ![p] = number[p] + 1] ELSE number
  BY DEF Process!Acknowledged
<1>3. UNCHANGED <<event, wire, late>> /\ sendPc'[c] = "sent" /\ sendPc[c] = "sending"
  BY DEF Process!Acknowledged, Process!TypeOK
<1>4. /\ event[c] \in Process!Event /\ event[c].by = c /\ p \in Partitions /\ number[p] \in Nat
      /\ Process!Addressed(event[c], p) /\ event[c].n \in Nat /\ Process!Sent(event[c])
  BY DEF Process!TypeOK, Process!IInv, Process!EventsInv, Process!Targets, Process!Event,
     Process!Addressed, Process!Sent
<1>5. [event |-> event[c], partition |-> p, number |-> number[p]] \in Process!Success
  BY <1>4 DEF Process!Success
<1>6. log' \in [Partitions -> Seq(Process!Event)] /\ number' \in [Partitions -> Nat]
  <2>1. log' \in [Partitions -> Seq(Process!Event)]
    BY <1>2, <1>4, BrokerStep
  <2>2. number' \in [Partitions -> Nat]
    BY <1>2, <1>4 DEF Process!TypeOK
  <2> QED BY <2>1, <2>2
<1>7. Process!TypeOK'
  BY <1>1, <1>2, <1>3, <1>5, <1>6 DEF Process!TypeOK, Process!Clients, Process!Kafka
<1>8. Process!EventsInv'
  <2>1. \A q \in Partitions : \A i \in DOMAIN log'[q] :
          Process!Sent(log'[q][i]) /\ Process!Addressed(log'[q][i], q)
    BY <1>2, <1>4, LogAddressed DEF Process!IInv
  <2>2. \A d \in done' : d \in done \/ (d.event = event[c] /\ d.partition = p)
    BY <1>2
  <2>3. \A d \in done' : Process!Sent(d.event) /\ Process!Addressed(d.event, d.partition)
    BY <1>4, <2>2 DEF Process!IInv, Process!EventsInv
  <2>4. ASSUME NEW d \in Callers, sendPc'[d] = "sending", NEW e \in done'
        PROVE  e.event # event[d]
    <3>1. d # c /\ sendPc[d] = "sending" /\ event[d].by = d
      BY <1>1, <1>3, <2>4 DEF Process!IInv, Process!EventsInv
    <3> QED BY <1>4, <2>2, <3>1 DEF Process!IInv, Process!EventsInv, Process!Succeeded
  <2> QED BY <1>1, <1>3, <2>1, <2>3, <2>4 DEF Process!IInv, Process!EventsInv, Process!Succeeded,
          Process!Sent, Process!Addressed
<1>9. Process!NumbersInv' /\ Process!OnceUnlessDisplaced'
  <2>1. CASE service = "wallet"
    BY <2>1, AcknowledgedNumbers DEF Process!IInv
  <2>2. CASE service = "user"
    <3>1. \A d \in done' : d \in done \/ (d.event = event[c] /\ d.partition = p)
      BY <1>2
    <3> QED BY <1>1, <1>2, <1>4, <2>2, <3>1, UserLog DEF Process!IInv
  <2> QED BY <2>1, <2>2 DEF Process!TypeOK
<1> QED BY <1>1, <1>7, <1>8, <1>9 DEF Process!IInv

\* An attempt times out: it may still arrive, with the number that is given back.
LEMMA TimedOutInv ==
  ASSUME Process!TypeOK, Process!IInv, NEW c \in Callers, Process!TimedOut(c)
  PROVE  Process!TypeOK' /\ Process!IInv'
<1>1. /\ Process!ProcessInv' /\ Process!StartsWholeStopsInOrder'
      /\ UNCHANGED <<service, brokers, boot, kafkaClient, stop, todo, held, hash>>
      /\ sendPc' \in [Callers -> {"idle", "sending", "sent", "failed", "refused", "lost"}]
      /\ attempts' \in [Callers -> 0..MaxRetries + 1]
      /\ \A d \in Callers \ {c} : sendPc'[d] = sendPc[d]
  BY SendProcess DEF Process!IInv
<1>2. PICK p \in Process!Targets(event[c]) : wire' = wire \cup
        {[event |-> event[c], partition |-> p, number |-> number[p], attempt |-> attempts[c]]}
  BY DEF Process!TimedOut
<1>3. UNCHANGED <<event, number, log, done>> /\ late' = late \cup {event[c]} /\ sendPc[c] = "sending"
  BY DEF Process!TimedOut
<1>4. /\ event[c] \in Process!Event /\ event[c].by = c /\ p \in Partitions /\ number[p] \in Nat
      /\ Process!Addressed(event[c], p) /\ event[c].n \in Nat /\ Process!Sent(event[c])
      /\ ~ Process!Succeeded(event[c])
  BY <1>3 DEF Process!TypeOK, Process!IInv, Process!EventsInv, Process!Targets, Process!Event,
     Process!Addressed, Process!Sent
<1>5. attempts[c] \in 0..MaxRetries
  <2>1. MaxRetries \in Nat /\ attempts[c] \in 0..MaxRetries + 1 /\ attempts[c] <= MaxRetries
    BY <1>3, PartsConstants DEF Process!MessagingConstants, Process!TypeOK, Process!IInv, Process!ProcessInv
  <2> QED BY <2>1
<1>6. [event |-> event[c], partition |-> p, number |-> number[p], attempt |-> attempts[c]] \in Process!Attempt
  BY <1>4, <1>5 DEF Process!Attempt
<1>7. Process!TypeOK'
  BY <1>1, <1>2, <1>3, <1>4, <1>6 DEF Process!TypeOK, Process!Clients, Process!Kafka
<1>8. \A a \in wire' : a \in wire \/ (a.event = event[c] /\ a.partition = p /\ a.number = number[p])
  BY <1>2
<1>9. Process!EventsInv'
  <2>1. \A a \in wire' : Process!Sent(a.event) /\ Process!Addressed(a.event, a.partition)
    BY <1>4, <1>8 DEF Process!IInv, Process!EventsInv
  <2>2. \A d \in Callers : sendPc'[d] = "sending" => sendPc[d] = "sending"
    BY <1>1, <1>3
  <2> QED BY <1>1, <1>3, <2>1, <2>2 DEF Process!IInv, Process!EventsInv, Process!Succeeded,
          Process!Sent, Process!Addressed
<1>10. Process!NumbersInv'
  <2>1. CASE service = "wallet"
    <3>1. ASSUME NEW a \in wire'
          PROVE  /\ a.number <= number[a.partition] /\ a.event \in late'
                 /\ \A d \in done : d.event = a.event => a.number <= d.number
      <4>1. CASE a \in wire
        BY <1>3, <2>1, <4>1 DEF Process!IInv, Process!NumbersInv
      <4>2. CASE a.event = event[c] /\ a.partition = p /\ a.number = number[p]
        BY <1>3, <1>4, <4>2 DEF Process!Succeeded
      <4> QED BY <1>8, <4>1, <4>2
    <3>2. \A q \in Partitions :
            /\ Len(log[q]) \in {number[q], number[q] + 1}
            /\ Len(log[q]) = number[q] + 1 =>
                 log[q][Len(log[q])] \in late' /\ ~ Process!Succeeded(log[q][Len(log[q])])
            /\ \A k \in 0..number[q] - 1 : \E d \in done : d.partition = q /\ d.number = k
      BY <1>3, <2>1 DEF Process!IInv, Process!NumbersInv
    <3>3. \A d \in done : d.number < number[d.partition]
      BY <2>1 DEF Process!IInv, Process!NumbersInv
    <3> QED BY <1>3, <3>1, <3>2, <3>3 DEF Process!NumbersInv, Process!Succeeded
  <2>2. CASE service # "wallet"
    BY <1>1, <2>2 DEF Process!NumbersInv
  <2> QED BY <2>1, <2>2
<1>11. Process!OnceUnlessDisplaced'
  BY <1>1, <1>3 DEF Process!IInv, Process!OnceUnlessDisplaced, Process!Displaced, Process!At, Process!Range
<1> QED BY <1>1, <1>7, <1>9, <1>10, <1>11 DEF Process!IInv

\* A send is refused.
LEMMA RefusedInv ==
  ASSUME Process!TypeOK, Process!IInv, NEW c \in Callers, Process!Refused(c)
  PROVE  Process!TypeOK' /\ Process!IInv'
<1>1. /\ Process!ProcessInv' /\ Process!StartsWholeStopsInOrder'
      /\ UNCHANGED <<service, brokers, boot, kafkaClient, stop, todo, held, hash>>
      /\ sendPc' \in [Callers -> {"idle", "sending", "sent", "failed", "refused", "lost"}]
      /\ attempts' \in [Callers -> 0..MaxRetries + 1]
      /\ \A d \in Callers \ {c} : sendPc'[d] = sendPc[d]
  BY SendProcess DEF Process!IInv
<1>2. UNCHANGED <<event, number, wire, log, done, late>> /\ sendPc'[c] = "refused"
  BY DEF Process!Refused, Process!TypeOK
<1>3. Process!TypeOK'
  BY <1>1, <1>2 DEF Process!TypeOK, Process!Clients, Process!Kafka
<1>4. Process!EventsInv'
  <2>1. \A d \in Callers : sendPc'[d] = "sending" => sendPc[d] = "sending"
    BY <1>1, <1>2
  <2> QED BY <1>1, <1>2, <2>1 DEF Process!IInv, Process!EventsInv, Process!Succeeded, Process!Sent,
          Process!Addressed
<1>5. Process!NumbersInv' /\ Process!OnceUnlessDisplaced'
  BY <1>1, <1>2 DEF Process!IInv, Process!NumbersInv, Process!OnceUnlessDisplaced, Process!Succeeded,
     Process!Displaced, Process!At, Process!Range
<1> QED BY <1>1, <1>3, <1>4, <1>5 DEF Process!IInv

LEMMA LateInv ==
  ASSUME Process!TypeOK, Process!IInv, NEW a \in wire, Process!ArriveLate(a)
  PROVE  Process!TypeOK' /\ Process!IInv'
<1>1. /\ a.event \in Process!Event /\ a.partition \in Partitions /\ a.number \in Nat
      /\ Process!Sent(a.event) /\ Process!Addressed(a.event, a.partition)
  BY DEF Process!TypeOK, Process!Attempt, Process!IInv, Process!EventsInv
<1>2. /\ wire' = wire \ {a} /\ log' = Process!Appended(a.event, a.partition, a.number)
      /\ UNCHANGED <<service, brokers, boot, kafkaClient, stop, todo, held, hash, event, sendPc, attempts,
                     number, done, late>>
  BY DEF Process!ArriveLate, Process!process
<1>3. log' \in [Partitions -> Seq(Process!Event)]
  BY <1>1, <1>2, BrokerStep
<1>4. Process!TypeOK'
  BY <1>2, <1>3 DEF Process!TypeOK, Process!Clients, Process!Kafka
<1>5. Process!EventsInv'
  <2>1. \A q \in Partitions : \A i \in DOMAIN log'[q] :
          Process!Sent(log'[q][i]) /\ Process!Addressed(log'[q][i], q)
    BY <1>1, <1>2, LogAddressed DEF Process!IInv
  <2> QED BY <1>2, <2>1 DEF Process!IInv, Process!EventsInv, Process!Sent, Process!Addressed,
          Process!Succeeded
<1>6. Process!NumbersInv' /\ Process!OnceUnlessDisplaced'
  <2>1. CASE service = "wallet"
    BY <2>1, LateNumbers DEF Process!IInv
  <2>2. CASE service = "user"
    BY <1>1, <1>2, <2>2, UserLog DEF Process!IInv
  <2> QED BY <2>1, <2>2 DEF Process!TypeOK
<1>7. Process!ProcessInv' /\ Process!StartsWholeStopsInOrder'
  BY <1>2 DEF Process!IInv, Process!ProcessInv, Process!StartsWholeStopsInOrder, Process!Clients,
     Process!Kafka
<1> QED BY <1>4, <1>5, <1>6, <1>7 DEF Process!IInv

LEMMA ProcessNextInv ==
  ASSUME Process!TypeOK, Process!IInv, [Process!Next]_(Process!vars)
  PROVE  Process!TypeOK' /\ Process!IInv'
<1>1. CASE UNCHANGED Process!vars
  <2>1. Process!TypeOK'
    BY <1>1 DEF Process!vars, Process!process, Process!sends, Process!TypeOK, Process!Clients,
       Process!Kafka
  <2>2. Process!ProcessInv' /\ Process!StartsWholeStopsInOrder'
    BY <1>1 DEF Process!vars, Process!process, Process!sends, Process!IInv, Process!ProcessInv,
       Process!StartsWholeStopsInOrder, Process!Clients, Process!Kafka
  <2>3. Process!EventsInv' /\ Process!NumbersInv' /\ Process!OnceUnlessDisplaced'
    BY <1>1 DEF Process!vars, Process!process, Process!sends, Process!IInv, Process!EventsInv,
       Process!NumbersInv, Process!OnceUnlessDisplaced, Process!Sent, Process!Addressed,
       Process!Succeeded, Process!Displaced, Process!At, Process!Range
  <2> QED BY <2>1, <2>2, <2>3 DEF Process!IInv
<1>2. CASE Serving \/ Process!Kill
  BY <1>2, ServingInv, ServingType, ServingEvents DEF Process!IInv
<1>3. ASSUME NEW c \in Callers,
             Process!Publish(c) \/ Process!Acknowledged(c) \/ Process!TimedOut(c) \/ Process!Refused(c)
      PROVE  Process!TypeOK' /\ Process!IInv'
  BY <1>3, PublishInv, AcknowledgedInv, TimedOutInv, RefusedInv
<1>4. ASSUME NEW a \in wire, Process!ArriveLate(a)
      PROVE  Process!TypeOK' /\ Process!IInv'
  BY <1>4, LateInv
<1> QED BY <1>1, <1>2, <1>3, <1>4 DEF Process!Next, Serving, Passing

\* The process of a behaviour of all parts behaves as Messaging says.
LEMMA ProcessAlone == Spec => Process!Spec
<1>1. Init => Process!Init
  BY DEF Init
<1>2. [Next]_vars => [Process!Next]_(Process!vars)
  BY DEF Next, AccountStep, SessionStep, ListingStep, KeyListStep, HistoryStep, ProcessStep,
     DecimalStep, CheckStep, ClientStep, vars, walletVars, processVars, Process!vars, Process!process,
     Process!sends
<1> QED BY <1>1, <1>2, PTL DEF Spec, Process!Spec

LEMMA ProcessInvariant == Spec => [](Process!TypeOK /\ Process!IInv)
<1>1. Process!TypeOK /\ Process!IInv /\ [Process!Next]_(Process!vars)
        => (Process!TypeOK /\ Process!IInv)'
  BY ProcessNextInv
<1> QED BY <1>1, ProcessInit, ProcessAlone, PTL DEF Process!Spec

\* For any number of feature modules: a service listens with every client connected; its
\* stop refuses a publish, and closes the server, only after every database was
\* disconnected; and a stop that a database cuts short leaves Kafka connected.
THEOREM StartAndStop == Spec => []StartsWholeStopsInOrder
<1>1. Process!IInv => StartsWholeStopsInOrder
  BY DEF Process!IInv, StartsWholeStopsInOrder
<1> QED BY <1>1, ProcessInvariant, PTL

\* For any number of requests, events and retries, though failed sends give their numbers
\* back: an event whose publish succeeded is in the log, of the wallet's in a place of its
\* own, behind what its request published before, unless an event whose answer was lost
\* has that place; and only one that displaced another is there twice.
THEOREM Events == Spec => []OnceUnlessDisplaced
<1>1. Process!IInv => OnceUnlessDisplaced
  BY DEF Process!IInv, OnceUnlessDisplaced
<1> QED BY <1>1, ProcessInvariant, PTL
-----------------------------------------------------------------------------
(* A client that reads the list of transactions, page after page.           *)

\* The module of the list and this one mean the same by finite and by a cardinality.
LEMMA Counted ==
  ASSUME NEW S, History!IsFiniteSet(S)
  PROVE  IsFiniteSet(S) /\ History!Cardinality(S) = Cardinality(S)
BY DEF History!IsFiniteSet, IsFiniteSet, History!Cardinality, Cardinality

\* Any part of the ids has a number, and a part of that part a smaller one.
LEMMA CountedIds ==
  ASSUME NEW S \in SUBSET Ids, NEW T \in SUBSET S
  PROVE  /\ History!Cardinality(S) \in Nat /\ History!Cardinality(T) \in Nat
         /\ History!Cardinality(T) <= History!Cardinality(S)
         /\ T # S => History!Cardinality(T) < History!Cardinality(S)
<1>1. IsFiniteSet(Ids)
  BY PartsConstants, Counted DEF History!TransactionsConstants
<1>2. IsFiniteSet(S) /\ IsFiniteSet(T)
  BY <1>1, FS_Subset
<1>3. History!Cardinality(S) = Cardinality(S) /\ History!Cardinality(T) = Cardinality(T)
  BY DEF History!Cardinality, Cardinality
<1>4. Cardinality(S) \in Nat /\ Cardinality(T) \in Nat
  BY <1>2, FS_CardinalityType
<1>5. Cardinality(T) <= Cardinality(S) /\ (Cardinality(S) = Cardinality(T) => S = T)
  BY <1>2, FS_Subset
<1> QED BY <1>3, <1>4, <1>5

\* A page is not the last one exactly when rows are behind it.
LEMMA PageCount ==
  ASSUME NEW n \in Nat, NEW p \in Nat \ {0}, NEW l \in Nat \ {0}
  PROVE  p < (n + l - 1) \div l <=> (p - 1) * l + l < n
OBVIOUS

LEMMA PageTurned ==
  ASSUME NEW p \in Nat, NEW l \in Nat
  PROVE  (p - 1) * l \in Int /\ ((p + 1) - 1) * l = (p - 1) * l + l
OBVIOUS

LEMMA AppendRange ==
  ASSUME NEW s \in Seq(Ids), NEW i \in Ids
  PROVE  History!Range(Append(s, i)) = History!Range(s) \cup {i}
<1>1. /\ DOMAIN Append(s, i) = DOMAIN s \cup {Len(s) + 1}
      /\ Append(s, i)[Len(s) + 1] = i
      /\ \A k \in DOMAIN s : Append(s, i)[k] = s[k]
  OBVIOUS
<1> QED BY <1>1 DEF History!Range

\* Committed rows stay as they are.
LEMMA LedgerGrows ==
  ASSUME History!LedgerInv, NEW i \in Ids, History!Create(i) \/ History!CommitRow(i)
  PROVE  /\ createdAt' \in [Ids -> Nat \cup {Null}] /\ type' \in [Ids -> History!Types \cup {Null}]
         /\ posted' \in Seq(Ids) /\ \A j \in History!Range(posted)' : createdAt'[j] # Null
         /\ History!Range(posted) \subseteq History!Range(posted)'
         /\ \A j \in History!Range(posted) : createdAt'[j] = createdAt[j] /\ type'[j] = type[j]
         /\ UNCHANGED <<query, page, phase, balance, answer, total, got, base>>
<1>1. CASE History!Create(i)
  <2>1. /\ createdAt' = [createdAt EXCEPT ![i] = pageClock]
        /\ \E t \in History!Types : type' = [type EXCEPT ![i] = t]
        /\ UNCHANGED <<posted, query, page, phase, balance, answer, total, got, base>>
    BY <1>1 DEF History!Create, History!client
  <2>2. i \notin History!Range(posted) /\ Null \notin Nat /\ pageClock \in Nat
    BY <1>1, PartsConstants DEF History!Create, History!LedgerInv, History!TransactionsConstants
  <2>3. History!Range(posted) \subseteq Ids
    BY DEF History!LedgerInv, History!Range
  <2> QED BY <2>1, <2>2, <2>3 DEF History!LedgerInv, History!Range
<1>2. CASE History!CommitRow(i)
  <2>1. /\ posted' = Append(posted, i) /\ createdAt[i] # Null
        /\ UNCHANGED <<createdAt, type, query, page, phase, balance, answer, total, got, base>>
    BY <1>2 DEF History!CommitRow, History!client
  <2>2. History!Range(posted)' = History!Range(posted) \cup {i} /\ posted' \in Seq(Ids)
    BY <2>1, AppendRange DEF History!LedgerInv
  <2> QED BY <2>1, <2>2 DEF History!LedgerInv
<1> QED BY <1>1, <1>2

\* A row that was committed matches as it did, and the rows in front of it stay there.
LEMMA RankGrows ==
  ASSUME History!LedgerInv,
         createdAt' \in [Ids -> Nat \cup {Null}], posted' \in Seq(Ids), query' = query,
         History!Range(posted) \subseteq History!Range(posted)',
         \A j \in History!Range(posted) : createdAt'[j] = createdAt[j] /\ type'[j] = type[j]
  PROVE  /\ \A j \in History!Range(posted) : History!Where(j)' <=> History!Where(j)
         /\ History!Matching \subseteq History!Matching'
         /\ \A j \in History!Range(posted) :
              History!Rank(j) \in Nat /\ History!Rank(j)' \in Nat /\ History!Rank(j)' >= History!Rank(j)
<1>1. \A j \in History!Range(posted) : History!Where(j)' <=> History!Where(j)
  BY DEF History!Where, History!StatusOf
<1>2. History!Matching \subseteq History!Matching'
  BY <1>1 DEF History!Matching
<1>3. ASSUME NEW j \in History!Range(posted)
      PROVE  /\ History!Rank(j) \in Nat /\ History!Rank(j)' \in Nat
             /\ History!Rank(j)' >= History!Rank(j)
  <2> DEFINE front == {k \in History!Matching : History!Before(k, j)}
             later == {k \in History!Matching' : History!Before(k, j)'}
  <2>1. History!Matching \subseteq History!Range(posted)
    BY DEF History!Matching
  <2>2. History!Range(posted)' \subseteq Ids
    BY DEF History!Range
  <2>3. later \in SUBSET Ids
    BY <2>2 DEF History!Matching
  <2>4. front \in SUBSET later
    BY <1>2, <1>3, <2>1 DEF History!Before
  <2>5. History!Rank(j) = History!Cardinality(front) /\ History!Rank(j)' = History!Cardinality(later)
    BY DEF History!Rank
  <2> HIDE DEF front, later
  <2>6. /\ History!Cardinality(later) \in Nat /\ History!Cardinality(front) \in Nat
        /\ History!Cardinality(front) <= History!Cardinality(later)
    BY <2>3, <2>4, CountedIds
  <2> QED BY <2>5, <2>6
<1> QED BY <1>1, <1>2, <1>3

\* A row that matches has fewer rows in front of it than there are.
LEMMA RankBelow ==
  ASSUME History!LedgerInv, NEW i \in History!Matching
  PROVE  /\ History!Cardinality(History!Matching) \in Nat
         /\ History!Rank(i) \in Nat /\ History!Rank(i) < History!Cardinality(History!Matching)
<1> DEFINE front == {k \in History!Matching : History!Before(k, i)}
<1>1. History!Matching \in SUBSET Ids /\ i \in Ids /\ createdAt[i] \in Nat
  BY DEF History!LedgerInv, History!Matching, History!Range
<1>2. ~ History!Before(i, i)
  BY <1>1, PartsConstants DEF History!Before, History!TransactionsConstants
<1>3. front \in SUBSET History!Matching /\ front # History!Matching
  BY <1>2
<1>4. History!Rank(i) = History!Cardinality(front)
  BY DEF History!Rank
<1> HIDE DEF front
<1> QED BY <1>1, <1>3, <1>4, CountedIds

\* What reading leaves alone, the ledger and the query, fixes what matches and where.
LEMMA ReadsOnly ==
  ASSUME UNCHANGED <<createdAt, type, posted, query>>
  PROVE  /\ History!Matching' = History!Matching
         /\ \A i \in Ids : History!Rank(i)' = History!Rank(i) /\ (History!Where(i)' <=> History!Where(i))
<1>1. \A i \in Ids : History!Where(i)' <=> History!Where(i)
  BY DEF History!Where, History!StatusOf
<1>2. History!Matching' = History!Matching
  BY DEF History!Matching, History!Where, History!StatusOf, History!Range
<1>3. ASSUME NEW i \in Ids PROVE History!Rank(i)' = History!Rank(i)
  <2>1. {k \in History!Matching' : History!Before(k, i)'} = {k \in History!Matching : History!Before(k, i)}
    BY <1>2 DEF History!Before
  <2> QED BY <2>1 DEF History!Rank
<1> QED BY <1>1, <1>2, <1>3

LEMMA HistoryInit == History!Init => History!IInv
<1> SUFFICES ASSUME History!Init PROVE History!IInv
  OBVIOUS
<1>1. History!Range(posted) = {}
  BY DEF History!Init, History!Range
<1>2. History!LedgerInv
  BY <1>1 DEF History!Init, History!LedgerInv
<1> QED BY <1>1, <1>2 DEF History!IInv, History!Init, History!BalanceInv, History!AheadInv

\* While rows are created and commit, those ahead of the client stay ahead.
LEMMA GrowInv ==
  ASSUME History!IInv, NEW i \in Ids, History!Create(i) \/ History!CommitRow(i)
  PROVE  History!IInv'
<1>1. History!LedgerInv /\ PerPage \in Nat \ {0}
  BY PartsConstants DEF History!IInv, History!TransactionsConstants
<1>2. /\ createdAt' \in [Ids -> Nat \cup {Null}] /\ type' \in [Ids -> History!Types \cup {Null}]
      /\ posted' \in Seq(Ids) /\ \A j \in History!Range(posted)' : createdAt'[j] # Null
      /\ History!Range(posted) \subseteq History!Range(posted)'
      /\ \A j \in History!Range(posted) : createdAt'[j] = createdAt[j] /\ type'[j] = type[j]
      /\ UNCHANGED <<query, page, phase, balance, answer, total, got, base>>
  BY <1>1, LedgerGrows
<1>3. /\ \A j \in History!Range(posted) : History!Where(j)' <=> History!Where(j)
      /\ History!Matching \subseteq History!Matching'
      /\ \A j \in History!Range(posted) :
           History!Rank(j) \in Nat /\ History!Rank(j)' \in Nat /\ History!Rank(j)' >= History!Rank(j)
  BY <1>1, <1>2, RankGrows
<1>4. pageClock' \in Nat
  BY <1>1 DEF History!LedgerInv, History!Create, History!CommitRow
<1>5. History!LedgerInv'
  BY <1>1, <1>2, <1>3, <1>4 DEF History!LedgerInv
<1>6. History!BalanceInv'
  BY <1>2 DEF History!IInv, History!BalanceInv
<1>7. History!AheadInv'
  <2>1. History!Skip \in Int /\ History!Skip' = History!Skip /\ History!Skip + PerPage \in Int
    BY <1>1, <1>2, PageTurned DEF History!Skip, History!LedgerInv
  <2>2. ASSUME NEW j \in base', History!Where(j)', j \notin got'
        PROVE  History!Ahead(j)'
    <3>1. j \in base /\ j \in History!Range(posted) /\ History!Where(j) /\ j \notin got
      BY <1>1, <1>2, <1>3, <2>2 DEF History!LedgerInv
    <3>2. History!Ahead(j)
      BY <3>1 DEF History!IInv, History!AheadInv
    <3>3. History!Rank(j) \in Nat /\ History!Rank(j)' \in Nat /\ History!Rank(j)' >= History!Rank(j)
      BY <1>3, <3>1
    <3> QED BY <1>1, <1>2, <2>1, <3>2, <3>3 DEF History!Ahead
  <2> QED BY <2>2 DEF History!AheadInv
<1> QED BY <1>5, <1>6, <1>7 DEF History!IInv

\* A page turns the rows that are next in the list into rows the client has seen.
LEMMA ReadInv ==
  ASSUME History!IInv,
         \/ History!Tick \/ History!GetWallet \/ History!RefuseQuery \/ History!FindMany
         \/ History!Count \/ History!TurnPage
  PROVE  History!IInv'
<1>1. /\ UNCHANGED <<createdAt, type, posted, query>>
      /\ pageClock' = pageClock \/ History!Tick
  BY DEF History!Tick, History!GetWallet, History!RefuseQuery, History!FindMany, History!Count,
     History!TurnPage, History!ledger, History!client
<1>2. /\ History!Matching' = History!Matching
      /\ \A i \in Ids : History!Rank(i)' = History!Rank(i) /\ (History!Where(i)' <=> History!Where(i))
  BY <1>1, ReadsOnly
<1>3. /\ History!Range(posted)' = History!Range(posted)
      /\ History!Range(posted) \subseteq Ids /\ base \subseteq Ids
  BY <1>1 DEF History!Range, History!IInv, History!LedgerInv
<1>4. pageClock' \in Nat
  BY <1>1 DEF History!Tick, History!IInv, History!LedgerInv
<1>5. /\ PerPage \in Nat \ {0} /\ page \in Nat \ {0} /\ total \in Nat
      /\ History!Skip \in Int
  BY PartsConstants, PageTurned DEF History!IInv, History!LedgerInv, History!Skip,
     History!TransactionsConstants
<1>6. \A i \in base : History!Where(i) => i \in History!Matching /\ History!Rank(i) \in Nat
        /\ History!Rank(i) < History!Cardinality(History!Matching)
        /\ History!Cardinality(History!Matching) \in Nat
  BY RankBelow DEF History!IInv, History!LedgerInv, History!Matching
<1>7. CASE History!Tick \/ History!RefuseQuery
  <2>1. UNCHANGED <<page, balance, answer, total, got, base>> /\ phase' \in {phase, "failed"}
    BY <1>7 DEF History!Tick, History!RefuseQuery, History!client
  <2>2. History!Skip' = History!Skip
    BY <2>1 DEF History!Skip
  <2>3. History!LedgerInv'
    BY <1>1, <1>2, <1>3, <1>4, <2>1 DEF History!IInv, History!LedgerInv
  <2>4. History!BalanceInv'
    BY <1>3, <2>1 DEF History!IInv, History!BalanceInv
  <2>5. History!AheadInv'
    BY <1>2, <1>3, <2>1, <2>2 DEF History!IInv, History!AheadInv, History!Ahead
  <2> QED BY <2>3, <2>4, <2>5 DEF History!IInv
<1>8. CASE History!GetWallet
  <2>1. /\ UNCHANGED <<page, answer, total, got, base>> /\ phase' = "find" /\ phase = "wallet"
        /\ balance' \in History!Range(posted) \cup {Null}
    <3>1. posted # << >> => History!Last(posted) \in History!Range(posted)
      BY DEF History!IInv, History!LedgerInv, History!Last, History!Range
    <3> QED BY <1>8, <3>1 DEF History!GetWallet
  <2>2. History!LedgerInv'
    BY <1>1, <1>2, <1>3, <1>4, <2>1 DEF History!IInv, History!LedgerInv
  <2>3. page = 1
    BY <2>1 DEF History!IInv, History!BalanceInv
  <2>4. History!BalanceInv'
    BY <1>3, <2>1, <2>3 DEF History!BalanceInv
  <2>5. History!AheadInv'
    <3>1. History!Skip' = 0
      BY <1>5, <2>1, <2>3 DEF History!Skip
    <3> QED BY <1>2, <1>3, <1>6, <2>1, <3>1 DEF History!AheadInv, History!Ahead
  <2> QED BY <2>2, <2>4, <2>5 DEF History!IInv
<1>9. CASE History!FindMany
  <2>1. /\ UNCHANGED <<page, balance, total, got>> /\ phase = "find" /\ phase' = "count"
        /\ answer' = {i \in History!Matching : History!Rank(i) >= History!Skip
                                                /\ History!Rank(i) < History!Skip + PerPage}
        /\ base' = IF page = 1 THEN History!Range(posted) ELSE base
    BY <1>9 DEF History!FindMany
  <2>2. base' \subseteq History!Range(posted) /\ answer' \subseteq History!Matching
    BY <2>1 DEF History!IInv, History!LedgerInv
  <2>3. History!LedgerInv'
    BY <1>1, <1>2, <1>3, <1>4, <2>1, <2>2 DEF History!IInv, History!LedgerInv
  <2>4. History!BalanceInv'
    BY <1>3, <1>5, <2>1 DEF History!IInv, History!BalanceInv
  <2>5. History!AheadInv'
    <3>1. History!Skip' = History!Skip
      BY <2>1 DEF History!Skip
    <3>2. ASSUME NEW i \in base', History!Where(i)', i \notin got'
          PROVE  History!Rank(i)' >= History!Skip + PerPage \/ i \in answer'
      <4>1. i \in Ids /\ i \in History!Range(posted) /\ History!Where(i) /\ i \notin got
        BY <1>2, <1>3, <2>1, <2>2, <3>2
      <4>2. i \in History!Matching
        BY <4>1 DEF History!Matching
      <4>3. History!Rank(i) \in Nat
        BY <4>2, RankBelow DEF History!IInv
      <4>4. History!Rank(i) >= History!Skip
        <5>1. CASE page = 1
          BY <1>5, <4>3, <5>1 DEF History!Skip
        <5>2. CASE page # 1
          BY <2>1, <4>1, <5>2 DEF History!IInv, History!AheadInv, History!Ahead
        <5> QED BY <5>1, <5>2
      <4> QED BY <1>2, <1>5, <2>1, <4>1, <4>2, <4>3, <4>4
    <3> QED BY <2>1, <3>1, <3>2 DEF History!AheadInv, History!Ahead
  <2> QED BY <2>3, <2>4, <2>5 DEF History!IInv
<1>10. CASE History!Count
  <2>1. /\ UNCHANGED <<page, balance, answer, base>> /\ phase = "count" /\ phase' = "answered"
        /\ total' = History!Cardinality(History!Matching) /\ got' = got \cup answer
    BY <1>10 DEF History!Count
  <2>2. total' \in Nat
    <3>1. History!Matching \in SUBSET Ids
      BY <1>3 DEF History!Matching
    <3> QED BY <2>1, <3>1, CountedIds
  <2>3. History!LedgerInv'
    BY <1>1, <1>2, <1>3, <1>4, <2>1, <2>2 DEF History!IInv, History!LedgerInv
  <2>4. History!BalanceInv'
    BY <1>3, <2>1 DEF History!IInv, History!BalanceInv
  <2>5. History!AheadInv'
    <3>1. History!Skip' = History!Skip
      BY <2>1 DEF History!Skip
    <3>2. ASSUME NEW i \in base', History!Where(i)', i \notin got'
          PROVE  History!Rank(i)' >= History!Skip + PerPage /\ total' > History!Skip + PerPage
      <4>1. i \in Ids /\ i \in base /\ History!Where(i) /\ i \notin got /\ i \notin answer
        BY <1>2, <1>3, <2>1, <3>2
      <4>2. History!Rank(i) >= History!Skip + PerPage
        BY <2>1, <4>1 DEF History!IInv, History!AheadInv, History!Ahead
      <4> QED BY <1>2, <1>5, <1>6, <2>1, <4>1, <4>2
    <3> QED BY <2>1, <3>1, <3>2 DEF History!AheadInv, History!Ahead
  <2> QED BY <2>3, <2>4, <2>5 DEF History!IInv
<1>11. CASE History!TurnPage
  <2>1. /\ UNCHANGED <<balance, answer, total, got, base>> /\ phase = "answered"
        /\ IF page < History!TotalPages THEN page' = page + 1 /\ phase' = "find"
                                        ELSE page' = page /\ phase' = "done"
    BY <1>11 DEF History!TurnPage
  <2>2. History!LedgerInv'
    BY <1>1, <1>2, <1>3, <1>4, <1>5, <2>1 DEF History!IInv, History!LedgerInv
  <2>3. History!BalanceInv'
    BY <1>3, <1>5, <2>1 DEF History!IInv, History!BalanceInv
  <2>4. ASSUME NEW i \in base, History!Where(i), i \notin got
        PROVE  History!Rank(i) >= History!Skip + PerPage /\ total > History!Skip + PerPage
    BY <2>1, <2>4 DEF History!IInv, History!AheadInv, History!Ahead
  <2>5. page < History!TotalPages <=> History!Skip + PerPage < total
    BY <1>5, PageCount DEF History!TotalPages, History!Skip
  <2>6. CASE page < History!TotalPages
    <3>1. History!Skip' = History!Skip + PerPage
      BY <1>5, <2>1, <2>6, PageTurned DEF History!Skip
    <3>2. History!AheadInv'
      BY <1>2, <1>3, <2>1, <2>4, <2>6, <3>1 DEF History!AheadInv, History!Ahead
    <3> QED BY <2>2, <2>3, <3>2 DEF History!IInv
  <2>7. CASE ~ (page < History!TotalPages)
    <3>1. \A i \in base : History!Where(i) => i \in got
      BY <1>5, <2>4, <2>5, <2>7
    <3>2. History!AheadInv'
      BY <1>2, <1>3, <2>1, <3>1 DEF History!AheadInv
    <3> QED BY <2>2, <2>3, <3>2 DEF History!IInv
  <2> QED BY <2>6, <2>7
<1> QED BY <1>7, <1>8, <1>9, <1>10, <1>11

LEMMA HistoryNextInv ==
  ASSUME History!IInv, [History!Next]_(History!vars)
  PROVE  History!IInv'
<1>1. CASE UNCHANGED History!vars
  <2>1. UNCHANGED <<pageClock, createdAt, type, posted, query, page, phase, balance, answer, total,
                    got, base>>
    BY <1>1 DEF History!vars, History!ledger, History!client
  <2>2. /\ History!Matching' = History!Matching
        /\ \A i \in Ids : History!Rank(i)' = History!Rank(i) /\ (History!Where(i)' <=> History!Where(i))
    BY <2>1, ReadsOnly
  <2>3. base \subseteq Ids /\ History!Range(posted)' = History!Range(posted) /\ History!Skip' = History!Skip
    BY <2>1 DEF History!IInv, History!LedgerInv, History!Range, History!Skip
  <2> QED BY <2>1, <2>2, <2>3 DEF History!IInv, History!LedgerInv, History!BalanceInv,
          History!AheadInv, History!Ahead
<1>2. ASSUME NEW i \in Ids, History!Create(i) \/ History!CommitRow(i) PROVE History!IInv'
  BY <1>2, GrowInv
<1> QED BY <1>1, <1>2, ReadInv DEF History!Next

\* A client that reads the list behaves as Transactions says.
LEMMA HistoryAlone == Spec => History!Spec
<1>1. Init => History!Init
  BY DEF Init
<1>2. [Next]_vars => [History!Next]_(History!vars)
  BY DEF Next, AccountStep, SessionStep, ListingStep, KeyListStep, HistoryStep, ProcessStep,
     DecimalStep, CheckStep, ClientStep, vars, walletVars, historyVars, History!vars, History!ledger,
     History!client
<1> QED BY <1>1, <1>2, PTL DEF Spec, History!Spec

\* A client that reads the list to its end has seen all it asked for that was there
\* when it began and nothing else, however many rows there are, however long a page
\* is, and whatever commits meanwhile.
THEOREM Pages == Spec => []NoneMissed
<1>1. History!IInv => NoneMissed
  <2> SUFFICES ASSUME History!IInv, phase = "done"
               PROVE  /\ {i \in base : History!Where(i)} \subseteq got /\ got \subseteq History!Matching
                      /\ query = History!NoFilter => balance \in got \cup {Null}
    BY DEF NoneMissed, History!NoneMissed
  <2>1. \A i \in base : History!Where(i) => i \in got
    BY DEF History!IInv, History!AheadInv, History!Ahead
  <2>2. query = History!NoFilter => \A i : History!Where(i)
    BY DEF History!NoFilter, History!Where
  <2> QED BY <2>1, <2>2 DEF History!IInv, History!LedgerInv, History!BalanceInv
<1>2. History!IInv /\ [History!Next]_(History!vars) => History!IInv'
  BY HistoryNextInv
<1> QED BY <1>1, <1>2, HistoryInit, HistoryAlone, PTL DEF History!Spec
-----------------------------------------------------------------------------
(* A call of the risk service: CheckPreTrade or GetRiskProfile.             *)

\* static_cast through int keeps the name of every reason but NONE.
LEMMA CastKeepsName ==
  ASSUME NEW reason \in Check!Reasons
  PROVE  Check!Cast(reason) = IF reason = "NONE" THEN "UNSPECIFIED" ELSE reason
<1> DEFINE i == CHOOSE k \in DOMAIN Check!DomainReasons : Check!DomainReasons[k] = reason
<1>1. i \in DOMAIN Check!DomainReasons /\ Check!DomainReasons[i] = reason
  BY DEF Check!Reasons
<1>2. Check!DomainReasons[1] = "NONE" /\ 1 \in DOMAIN Check!DomainReasons
  BY DEF Check!DomainReasons
<1>3. i # 1 => Check!DomainReasons[i] # "NONE"
  BY <1>1 DEF Check!DomainReasons
<1>4. Check!Cast(reason) = Check!ProtoReasons[i]
  BY DEF Check!Cast
<1> HIDE DEF i
<1>5. Check!ProtoReasons[i] = IF i = 1 THEN "UNSPECIFIED" ELSE Check!DomainReasons[i]
  BY <1>1 DEF Check!ProtoReasons
<1> QED BY <1>1, <1>2, <1>3, <1>4, <1>5

\* An order is not a request for a profile.
LEMMA TwoRequests == Check!Request \cap Check!ProfileRequest = {}
BY DEF Check!Request, Check!ProfileRequest

\* What a call answers when nothing was decided.
LEMMA Undecided ==
  /\ Check!NoVerdict \in Check!Verdict /\ Check!NoVerdict.kind = "none"
  /\ Check!NoVerdict.reason = "NONE"
  /\ Check!NewResponse \in Check!Response /\ Check!NoProfile \in Check!ProfileResponse
  /\ Check!NewResponse.passed = FALSE
<1>1. "NONE" \in Check!Reasons
  BY DEF Check!Reasons, Check!DomainReasons
<1> QED BY <1>1 DEF Check!NoVerdict, Check!Verdict, Check!NewResponse, Check!Response, Check!NoProfile,
        Check!ProfileResponse

LEMMA CheckInit == Check!Init => Check!IInv
<1> SUFFICES ASSUME NEW call \in Check!Calls, Check!Start(call) PROVE Check!IInv
  BY DEF Check!Init
<1> QED BY Undecided DEF Check!Start, Check!IInv, Check!TypeOK, Check!CallInv, Check!AnswersTellVerdict,
        Check!Calls

LEMMA CheckNextInv ==
  ASSUME Check!IInv, [Check!Next]_(Check!vars)
  PROVE  Check!IInv'
<1> USE DEF Check!IInv
<1>1. CASE UNCHANGED Check!vars
  BY <1>1 DEF Check!vars, Check!TypeOK, Check!CallInv, Check!AnswersTellVerdict
<1>2. CASE Check!Cancel
  BY <1>2 DEF Check!Cancel, Check!TypeOK, Check!CallInv, Check!AnswersTellVerdict
<1>3. CASE Check!RefuseCancelled \/ Check!RefuseInvalid \/ Check!RefuseUnknownEnum
  <2>1. /\ request \in Check!Request /\ verdict = Check!NoVerdict /\ UNCHANGED <<request, verdict, cancelled>>
        /\ callPc' = "returned" /\ status' \in {"CANCELLED", "INVALID_ARGUMENT", "INTERNAL"}
    BY <1>3 DEF Check!CallInv, Check!RefuseCancelled, Check!RefuseInvalid, Check!RefuseUnknownEnum,
       Check!Return
  <2>2. response' \in Check!Response /\ response'.passed = FALSE
    <3>1. "RISK_SERVICE_UNAVAILABLE" \in Check!Reasons
      BY DEF Check!Reasons, Check!DomainReasons
    <3>2. request.requestId \in BOOLEAN
      BY <2>1 DEF Check!Request
    <3> QED BY <1>3, <3>1, <3>2, Undecided DEF Check!RefuseCancelled, Check!RefuseInvalid,
            Check!RefuseUnknownEnum, Check!Return, Check!Response, Check!NewResponse, Check!Unavailable
  <2>3. request' \in Check!Request /\ verdict'.kind = "none" /\ verdict'.reason = "NONE"
    BY <2>1, Undecided
  <2> QED BY <2>1, <2>2, <2>3 DEF Check!TypeOK, Check!CallInv, Check!AnswersTellVerdict
<1>4. CASE Check!Accept
  <2>1. Check!Complete(request)
    BY <1>4 DEF Check!Accept, Check!Valid, Check!Convertible, Check!Complete
  <2> QED BY <1>4, <2>1 DEF Check!Accept, Check!TypeOK, Check!CallInv, Check!AnswersTellVerdict
<1>5. CASE Check!Evaluate
  <2>1. /\ verdict' \in Check!Verdict
        /\ verdict'.kind = "reject" <=> verdict'.reason # "NONE"
    <3>1. "NONE" \in Check!Reasons
      BY DEF Check!Reasons, Check!DomainReasons
    <3> QED BY <1>5, <3>1 DEF Check!Evaluate, Check!Verdict
  <2> QED BY <1>5, <2>1 DEF Check!Evaluate, Check!TypeOK, Check!CallInv, Check!AnswersTellVerdict
<1>6. CASE Check!Answer
  <2>1. /\ request \in Check!Request /\ Check!Complete(request) /\ verdict.reason \in Check!Reasons
        /\ request.requestId \in BOOLEAN
    BY <1>6 DEF Check!Answer, Check!CallInv, Check!TypeOK, Check!Verdict, Check!Request
  <2>2. Check!Cast(verdict.reason) = IF verdict.kind = "pass" THEN "UNSPECIFIED" ELSE verdict.reason
    BY <1>6, <2>1, CastKeepsName DEF Check!Answer, Check!CallInv
  <2>3. Check!Cast(verdict.reason) \in Check!Reasons \cup {"UNSPECIFIED"}
    BY <2>1, <2>2
  <2>4. /\ response' \in Check!Response /\ response'.passed = (verdict.kind = "pass")
        /\ response'.reason = Check!Cast(verdict.reason)
    BY <1>6, <2>1, <2>3 DEF Check!Answer, Check!Return, Check!Response
  <2> QED BY <1>6, <2>1, <2>2, <2>4 DEF Check!Answer, Check!Return, Check!TypeOK, Check!CallInv,
          Check!AnswersTellVerdict
<1>7. CASE Check!AnswerFailure
  <2>1. request \in Check!Request /\ Check!Complete(request) /\ request.requestId \in BOOLEAN
    BY <1>7 DEF Check!AnswerFailure, Check!CallInv, Check!Request
  <2>2. response' \in Check!Response /\ response'.passed = FALSE
    <3>1. "RISK_SERVICE_UNAVAILABLE" \in Check!Reasons
      BY DEF Check!Reasons, Check!DomainReasons
    <3> QED BY <1>7, <2>1, <3>1 DEF Check!AnswerFailure, Check!Return, Check!Response,
            Check!NewResponse, Check!Unavailable
  <2> QED BY <1>7, <2>1, <2>2 DEF Check!AnswerFailure, Check!Return, Check!TypeOK, Check!CallInv,
          Check!AnswersTellVerdict
<1>8. CASE Check!GetRiskProfile
  <2>1. request \in Check!ProfileRequest /\ request \notin Check!Request
    BY <1>8, TwoRequests DEF Check!GetRiskProfile, Check!CallInv
  <2>2. /\ response' \in Check!ProfileResponse /\ status' \in {"OK", "CANCELLED", "INVALID_ARGUMENT"}
        /\ callPc' = "returned" /\ UNCHANGED <<request, verdict, cancelled>>
    <3>1. [userId |-> TRUE, limits |-> TRUE] \in Check!ProfileResponse
      BY DEF Check!ProfileResponse
    <3> QED BY <1>8, <3>1, Undecided DEF Check!GetRiskProfile, Check!Return
  <2>3. Check!TypeOK'
    BY <2>2 DEF Check!TypeOK
  <2>4. Check!CallInv'
    BY <2>2 DEF Check!CallInv
  <2>5. Check!AnswersTellVerdict'
    BY <2>1, <2>2 DEF Check!AnswersTellVerdict
  <2> QED BY <2>3, <2>4, <2>5
<1> QED BY <1>1, <1>2, <1>3, <1>4, <1>5, <1>6, <1>7, <1>8 DEF Check!Next

\* A call of the risk service behaves as PreTrade says.
LEMMA CheckAlone == Spec => Check!Spec
<1>1. Init => Check!Init
  <2> SUFFICES ASSUME Init PROVE Check!Init
    OBVIOUS
  <2>1. PICK call \in Choice("check", Check!Calls) : Check!Start(call)
    BY DEF Init, Inputs
  <2>2. Check!Calls # {}
    <3>1. [userId |-> TRUE] \in Check!ProfileRequest
      BY DEF Check!ProfileRequest
    <3> QED BY <3>1 DEF Check!Calls
  <2>3. call \in Check!Calls
    BY <2>1, <2>2 DEF Choice
  <2> QED BY <2>1, <2>3 DEF Check!Init
<1>2. [Next]_vars => [Check!Next]_(Check!vars)
  BY DEF Next, AccountStep, SessionStep, ListingStep, KeyListStep, HistoryStep, ProcessStep,
     DecimalStep, CheckStep, ClientStep, vars, riskVars, checkVars, Check!vars
<1> QED BY <1>1, <1>2, PTL DEF Spec, Check!Spec

\* The client of CheckPreTrade reads the verdict of the pipeline, whatever the
\* request, the reason, the exception and the moment of the cancellation.
THEOREM Verdicts == Spec => []AnswersTellVerdict
<1>1. Check!IInv => AnswersTellVerdict
  BY DEF Check!IInv, AnswersTellVerdict
<1>2. Check!IInv /\ [Check!Next]_(Check!vars) => Check!IInv'
  BY CheckNextInv
<1> QED BY <1>1, <1>2, CheckInit, CheckAlone, PTL DEF Check!Spec
-----------------------------------------------------------------------------
(* A call of the wallet service by the risk service.                        *)

LEMMA ClientNextInv ==
  ASSUME Client!IInv, [Client!Next]_(Client!vars)
  PROVE  Client!IInv'
<1> USE DEF Client!IInv
<1>1. CASE UNCHANGED Client!vars
  BY <1>1 DEF Client!vars, Client!TypeOK, Client!OkMeansAsked
<1>2. CASE Client!Tick
  BY <1>2, PartsConstants DEF Client!WalletClientConstants, Client!Tick, Client!TypeOK, Client!OkMeansAsked
<1>3. CASE Client!Ask
  BY <1>3, PartsConstants DEF Client!WalletClientConstants, Client!Ask, Client!TypeOK, Client!OkMeansAsked
<1>4. CASE Client!Receive \/ Client!Expire
  <2>1. reply' \in Client!Reply
    BY <1>4 DEF Client!Receive, Client!Expire, Client!Reply, Client!NoReply, Client!Codes, Client!Echo
  <2> QED BY <1>4, <2>1 DEF Client!Receive, Client!Expire, Client!TypeOK, Client!OkMeansAsked
<1>5. CASE Client!Return
  <2>1. /\ reply \in Client!Reply /\ reply' = reply /\ pc' = "returned"
        /\ UNCHANGED <<clock, deadline>>
    BY <1>5 DEF Client!Return, Client!TypeOK
  <2>2. reply.balance \in {"empty", "value"} /\ reply.code \in Client!Codes
    BY <2>1 DEF Client!Reply
  <2>3. CASE reply = [code |-> "OK", userId |-> "asked", currency |-> "asked", balance |-> "value"]
    BY <1>5, <2>1, <2>3 DEF Client!Return, Client!Acceptable, Client!TypeOK, Client!OkMeansAsked,
       Client!Statuses
  <2>4. CASE reply # [code |-> "OK", userId |-> "asked", currency |-> "asked", balance |-> "value"]
    <3>1. ~ (reply.code = "OK" /\ Client!Acceptable(reply))
      BY <2>1, <2>2, <2>4 DEF Client!Reply, Client!Acceptable
    <3>2. /\ result'.status \in Client!Statuses \ {"OK"} /\ result'.balance = "none"
          /\ result' = [status |-> result'.status, balance |-> "none"]
      BY <1>5, <2>2, <3>1 DEF Client!Return, Client!MapGrpcError, Client!Statuses, Client!Codes
    <3> QED BY <2>1, <2>4, <3>2 DEF Client!TypeOK, Client!OkMeansAsked
  <2> QED BY <2>3, <2>4
<1> QED BY <1>1, <1>2, <1>3, <1>4, <1>5 DEF Client!Next

\* A call of the wallet service behaves as WalletClient says.
LEMMA ClientAlone == Spec => Client!Spec
<1>1. Init => Client!Init
  BY DEF Init
<1>2. [Next]_vars => [Client!Next]_(Client!vars)
  BY DEF Next, AccountStep, SessionStep, ListingStep, KeyListStep, HistoryStep, ProcessStep,
     DecimalStep, CheckStep, ClientStep, vars, riskVars, clientVars, Client!vars
<1> QED BY <1>1, <1>2, PTL DEF Spec, Client!Spec

\* A balance is OK only as the wallet service sent it for the user and currency
\* asked for, whatever it replies and whenever.
THEOREM Balances == Spec => []OkMeansAsked
<1>1. Client!Init => Client!IInv
  BY PartsConstants DEF Client!WalletClientConstants, Client!Init, Client!IInv, Client!TypeOK,
     Client!OkMeansAsked, Client!NoReply, Client!Reply, Client!Codes, Client!Echo, Client!Statuses
<1>2. Client!IInv => OkMeansAsked
  BY DEF Client!IInv, OkMeansAsked
<1>3. Client!IInv /\ [Client!Next]_(Client!vars) => Client!IInv'
  BY ClientNextInv
<1> QED BY <1>1, <1>2, <1>3, ClientAlone, PTL DEF Client!Spec
-----------------------------------------------------------------------------
(* Fixed8::parse: a decimal string as a fixed-point number.                  *)

\* A set of natural numbers has a least one.
LEMMA LeastNumber ==
  ASSUME NEW T \in SUBSET Nat, T # {}
  PROVE  \E m \in T : \A k \in T : m <= k
<1> DEFINE R == StrictSubsetOrdering(Nat)
           B == {0..k : k \in T}
<1>1. B \subseteq FiniteSubsetsOf(Nat) /\ B # {}
  <2>1. ASSUME NEW k \in T PROVE 0..k \in FiniteSubsetsOf(Nat)
    <3>1. IsFiniteSet(0..k) /\ 0..k \in SUBSET Nat
      BY FS_Interval
    <3> QED BY <3>1 DEF FiniteSubsetsOf
  <2> QED BY <2>1
<1>2. PICK I \in B : \A J \in B : <<J, I>> \notin R
  <2> HIDE DEF B
  <2> QED BY <1>1, FS_StrictSubsetOrderingWellFounded, WFMin
<1>3. PICK m \in T : I = 0..m
  BY <1>2
<1>4. ASSUME NEW k \in T, k < m PROVE FALSE
  <2>1. 0..k \in B /\ <<0..k, 0..m>> \in R
    <3>1. 0..k \in SUBSET Nat /\ 0..m \in SUBSET Nat /\ 0..k \subseteq 0..m /\ m \in 0..m /\ m \notin 0..k
      BY <1>4
    <3> QED BY <1>4, <3>1 DEF StrictSubsetOrdering
  <2> QED BY <1>2, <1>3, <2>1
<1> QED BY <1>4

\* f[k] is the number that c followed by the digits of s behind lo, up to k, makes.
Horner(f, s, c, lo, hi) == f[lo] = c /\ \A k \in lo + 1..hi : f[k] = 10 * f[k - 1] + s[k]

LEMMA HornerExists ==
  ASSUME NEW lo \in Int, NEW hi \in Int, lo <= hi, NEW c \in Int, NEW s,
         \A k \in lo + 1..hi : s[k] \in Int
  PROVE  \E f \in [lo..hi -> Int] : Horner(f, s, c, lo, hi)
<1> DEFINE Missing(n) == ~ \E f \in [lo..lo + n -> Int] : Horner(f, s, c, lo, lo + n)
           T == {n \in 0..hi - lo : Missing(n)}
<1>0. hi - lo \in 0..hi - lo /\ lo + (hi - lo) = hi
  OBVIOUS
<1>1. SUFFICES ASSUME T # {} PROVE FALSE
  <2>1. T = {} => ~ Missing(hi - lo)
    BY <1>0
  <2> QED BY <1>0, <2>1
<1>2. PICK m \in T : \A k \in T : m <= k
  <2>1. T \in SUBSET Nat
    OBVIOUS
  <2> HIDE DEF T
  <2> QED BY <1>1, <2>1, LeastNumber
<1>3. m # 0
  <2>1. [k \in lo..lo + 0 |-> c] \in [lo..lo + 0 -> Int] /\ Horner([k \in lo..lo + 0 |-> c], s, c, lo, lo + 0)
    BY DEF Horner
  <2>2. ~ Missing(0)
    BY <2>1
  <2> QED BY <2>2
<1>4. PICK f \in [lo..lo + (m - 1) -> Int] : Horner(f, s, c, lo, lo + (m - 1))
  <2>1. m - 1 \in 0..hi - lo /\ m - 1 \notin T
    BY <1>2, <1>3
  <2> QED BY <2>1
<1>5. \E g \in [lo..lo + m -> Int] : Horner(g, s, c, lo, lo + m)
  <2> DEFINE h == lo + m
  <2>1. h \in Int /\ h > lo /\ h <= hi /\ lo + (m - 1) = h - 1 /\ h \in lo + 1..hi
    BY <1>3
  <2>2. s[h] \in Int
    BY <2>1
  <2> HIDE DEF h
  <2>3. f \in [lo..h - 1 -> Int] /\ f[lo] = c /\ \A k \in lo + 1..h - 1 : f[k] = 10 * f[k - 1] + s[k]
    BY <1>4, <2>1 DEF Horner
  <2>4. f[h - 1] \in Int
    BY <2>1, <2>3
  <2> DEFINE g == [k \in lo..h |-> IF k = h THEN 10 * f[h - 1] + s[h] ELSE f[k]]
  <2>5. g \in [lo..h -> Int] /\ g[lo] = c
    BY <2>1, <2>2, <2>3, <2>4
  <2>6. \A k \in lo + 1..h : g[k] = 10 * g[k - 1] + s[k]
    BY <2>1, <2>2, <2>3, <2>4
  <2>7. Horner(g, s, c, lo, h)
    BY <2>5, <2>6 DEF Horner
  <2> QED BY <2>5, <2>7 DEF h
<1> QED BY <1>2, <1>5

LEMMA HornerUnique ==
  ASSUME NEW lo \in Int, NEW hi \in Int, lo <= hi, NEW c, NEW s, NEW f, NEW g,
         Horner(f, s, c, lo, hi), Horner(g, s, c, lo, hi)
  PROVE  f[hi] = g[hi]
<1> DEFINE T == {n \in 0..hi - lo : f[lo + n] # g[lo + n]}
<1>0. hi - lo \in 0..hi - lo /\ lo + (hi - lo) = hi
  OBVIOUS
<1>1. SUFFICES ASSUME T # {} PROVE FALSE
  BY <1>0
<1>2. PICK m \in T : \A k \in T : m <= k
  <2>1. T \in SUBSET Nat
    OBVIOUS
  <2> HIDE DEF T
  <2> QED BY <1>1, <2>1, LeastNumber
<1>3. m # 0
  BY <1>2 DEF Horner
<1>4. m - 1 \in 0..hi - lo /\ m - 1 \notin T /\ lo + m \in lo + 1..hi /\ (lo + m) - 1 = lo + (m - 1)
  BY <1>2, <1>3
<1>5. f[lo + (m - 1)] = g[lo + (m - 1)]
  BY <1>4
<1>6. f[lo + m] = g[lo + m]
  <2>1. f[lo + m] = 10 * f[(lo + m) - 1] + s[lo + m] /\ g[lo + m] = 10 * g[(lo + m) - 1] + s[lo + m]
    BY <1>4 DEF Horner
  <2> QED BY <1>4, <1>5, <2>1
<1> QED BY <1>2, <1>6

\* The value of digits i to j is what Horner's rule gives.
LEMMA ValueIsHorner ==
  ASSUME NEW b \in Seq(Int), NEW i \in 1..Len(b) + 1, NEW j \in i - 1..Len(b)
  PROVE  /\ Decimal!Value(b, i, j) \in Int
         /\ \E f : Horner(f, b, 0, i - 1, j) /\ f[j] = Decimal!Value(b, i, j)
<1> DEFINE D(f) == f = [n \in i - 1..j |-> IF n = i - 1 THEN 0 ELSE 10 * f[n - 1] + b[n]]
           v == CHOOSE f : D(f)
<1>0. i - 1 \in Int /\ j \in Int /\ i - 1 <= j /\ \A k \in (i - 1) + 1..j : b[k] \in Int
  OBVIOUS
<1>1. PICK f \in [i - 1..j -> Int] : Horner(f, b, 0, i - 1, j)
  <2> DEFINE lo == i - 1
  <2>1. lo \in Int /\ j \in Int /\ lo <= j /\ 0 \in Int /\ \A k \in lo + 1..j : b[k] \in Int
    BY <1>0
  <2> HIDE DEF lo
  <2>2. \E f \in [lo..j -> Int] : Horner(f, b, 0, lo, j)
    BY <2>1, HornerExists
  <2> QED BY <2>2 DEF lo
<1>2. D(f)
  BY <1>0, <1>1 DEF Horner
<1>3. D(v)
  <2> HIDE DEF D
  <2> QED BY <1>2
<1>4. Decimal!Value(b, i, j) = v[j]
  BY DEF Decimal!Value
<1> HIDE DEF v
<1>5. Horner(v, b, 0, i - 1, j)
  BY <1>0, <1>3 DEF Horner
<1>6. v[j] = f[j]
  BY <1>0, <1>1, <1>5, HornerUnique
<1>7. f[j] \in Int
  BY <1>0, <1>1
<1> QED BY <1>4, <1>5, <1>6, <1>7

\* No digits are worth nothing, and a digit more adds itself to ten times the rest.
LEMMA ValueStep ==
  ASSUME NEW b \in Seq(Int), NEW i \in 1..Len(b) + 1
  PROVE  /\ Decimal!Value(b, i, i - 1) = 0
         /\ \A j \in i - 1..Len(b) - 1 :
              Decimal!Value(b, i, j + 1) = 10 * Decimal!Value(b, i, j) + b[j + 1]
<1>1. Decimal!Value(b, i, i - 1) = 0
  <2>1. i - 1 \in i - 1..Len(b)
    OBVIOUS
  <2> QED BY <2>1, ValueIsHorner DEF Horner
<1>2. ASSUME NEW j \in i - 1..Len(b) - 1
      PROVE  Decimal!Value(b, i, j + 1) = 10 * Decimal!Value(b, i, j) + b[j + 1]
  <2>0. j \in i - 1..Len(b) /\ j + 1 \in i - 1..Len(b) /\ i - 1 \in Int /\ j \in Int /\ i - 1 <= j
    OBVIOUS
  <2>1. PICK f : Horner(f, b, 0, i - 1, j) /\ f[j] = Decimal!Value(b, i, j)
    BY <2>0, ValueIsHorner
  <2>2. PICK g : Horner(g, b, 0, i - 1, j + 1) /\ g[j + 1] = Decimal!Value(b, i, j + 1)
    BY <2>0, ValueIsHorner
  <2>3. Horner(g, b, 0, i - 1, j)
    BY <2>0, <2>2 DEF Horner
  <2>4. f[j] = g[j]
    BY <2>0, <2>1, <2>3, HornerUnique
  <2>5. g[j + 1] = 10 * g[j] + b[j + 1]
    <3>1. j + 1 \in (i - 1) + 1..j + 1 /\ (j + 1) - 1 = j
      BY <2>0
    <3>2. g[j + 1] = 10 * g[(j + 1) - 1] + b[j + 1]
      BY <2>2, <3>1 DEF Horner
    <3> QED BY <3>1, <3>2
  <2> QED BY <2>1, <2>2, <2>4, <2>5
<1> QED BY <1>1, <1>2

\* So is a power of ten, with digits that are all zero.
LEMMA PowerIsHorner ==
  ASSUME NEW m \in Nat, NEW z, z = [k \in Int |-> 0]
  PROVE  /\ Decimal!Power(m) \in Int
         /\ \E f : Horner(f, z, 1, 0, m) /\ f[m] = Decimal!Power(m)
<1> DEFINE D(f) == f = [k \in 0..m |-> IF k = 0 THEN 1 ELSE 10 * f[k - 1]]
           v == CHOOSE f : D(f)
<1>0. 0 \in Int /\ m \in Int /\ 0 <= m /\ 1 \in Int /\ \A k \in 0 + 1..m : z[k] = 0
  OBVIOUS
<1>1. PICK f \in [0..m -> Int] : Horner(f, z, 1, 0, m)
  <2>1. \A k \in 0 + 1..m : z[k] \in Int
    BY <1>0
  <2> QED BY <1>0, <2>1, HornerExists
<1>2. D(f)
  BY <1>0, <1>1 DEF Horner
<1>3. D(v)
  <2> HIDE DEF D
  <2> QED BY <1>2
<1>4. Decimal!Power(m) = v[m]
  BY DEF Decimal!Power
<1> HIDE DEF v
<1>5. Horner(v, z, 1, 0, m)
  <2>1. \A k \in 0..m : v[k] = IF k = 0 THEN 1 ELSE 10 * v[k - 1]
    BY <1>3
  <2>2. v[0] = 1 /\ \A k \in 0 + 1..m : v[k] = 10 * v[k - 1]
    BY <1>0, <2>1
  <2>3. \A k \in 0 + 1..m : v[k] = 10 * v[k - 1] + z[k]
    <3> SUFFICES ASSUME NEW k \in 0 + 1..m PROVE v[k] = 10 * v[k - 1] + z[k]
      OBVIOUS
    <3> DEFINE T == {n \in 0..m : v[n] \notin Int}
    <3>1. T = {}
      <4>1. SUFFICES ASSUME T # {} PROVE FALSE
        OBVIOUS
      <4>2. PICK n \in T : \A l \in T : n <= l
        <5>1. T \in SUBSET Nat
          OBVIOUS
        <5> HIDE DEF T
        <5> QED BY <4>1, <5>1, LeastNumber
      <4>3. n \in 0 + 1..m /\ n - 1 \in 0..m /\ n - 1 \notin T
        BY <1>0, <2>2, <4>2
      <4>4. v[n - 1] \in Int /\ v[n] = 10 * v[n - 1]
        BY <2>2, <4>3
      <4> QED BY <4>2, <4>4
    <3>2. k - 1 \in 0..m
      BY <1>0
    <3>3. v[k - 1] \in Int
      BY <3>1, <3>2
    <3>4. z[k] = 0 /\ v[k] = 10 * v[k - 1]
      BY <1>0, <2>2
    <3> QED BY <3>3, <3>4
  <2> QED BY <2>2, <2>3 DEF Horner
<1>6. v[m] = f[m]
  BY <1>0, <1>1, <1>5, HornerUnique
<1>7. f[m] \in Int
  BY <1>0, <1>1
<1> QED BY <1>4, <1>5, <1>6, <1>7

\* Ten to the power of zero is one, and each power ten times the one before.
LEMMA PowerStep ==
  /\ Decimal!Power(0) = 1
  /\ \A n \in Nat : Decimal!Power(n) \in Nat \ {0} /\ Decimal!Power(n + 1) = 10 * Decimal!Power(n)
<1> DEFINE z0 == [k \in Int |-> 0]
<1> PICK z : z = z0
  OBVIOUS
<1>0. z = [k \in Int |-> 0]
  OBVIOUS
<1> HIDE DEF z0
<1>1. Decimal!Power(0) = 1
  BY <1>0, PowerIsHorner DEF Horner
<1>2. ASSUME NEW n \in Nat PROVE Decimal!Power(n + 1) = 10 * Decimal!Power(n)
  <2>0. n \in Int /\ n + 1 \in Nat /\ 0 \in Int /\ 0 <= n /\ n + 1 \in 0 + 1..n + 1 /\ (n + 1) - 1 = n
    OBVIOUS
  <2>1. PICK f : Horner(f, z, 1, 0, n) /\ f[n] = Decimal!Power(n)
    BY <1>0, PowerIsHorner
  <2>2. PICK g : Horner(g, z, 1, 0, n + 1) /\ g[n + 1] = Decimal!Power(n + 1)
    BY <1>0, <2>0, PowerIsHorner
  <2>3. Horner(g, z, 1, 0, n)
    BY <2>0, <2>2 DEF Horner
  <2>4. f[n] = g[n]
    BY <2>0, <2>1, <2>3, HornerUnique
  <2>5. g[n + 1] = 10 * g[n] + z[n + 1]
    <3>1. g[n + 1] = 10 * g[(n + 1) - 1] + z[n + 1]
      BY <2>0, <2>2 DEF Horner
    <3> QED BY <2>0, <3>1
  <2>6. z[n + 1] = 0 /\ Decimal!Power(n) \in Int
    BY <1>0, <2>0, PowerIsHorner
  <2> QED BY <2>1, <2>2, <2>4, <2>5, <2>6
<1>3. \A n \in Nat : Decimal!Power(n) \in Int
  BY <1>0, PowerIsHorner
<1>4. ASSUME NEW n \in Nat PROVE Decimal!Power(n) > 0
  <2> DEFINE T == {k \in Nat : ~ Decimal!Power(k) > 0}
  <2>1. SUFFICES ASSUME T # {} PROVE FALSE
    OBVIOUS
  <2>2. PICK k \in T : \A j \in T : k <= j
    <3>1. T \in SUBSET Nat
      OBVIOUS
    <3> HIDE DEF T
    <3> QED BY <2>1, <3>1, LeastNumber
  <2>3. k # 0
    BY <1>1, <2>2
  <2>4. k - 1 \in Nat /\ Decimal!Power(k - 1) > 0 /\ k = (k - 1) + 1
    BY <2>2, <2>3
  <2>5. Decimal!Power((k - 1) + 1) = 10 * Decimal!Power(k - 1)
    BY <1>2, <2>4
  <2> QED BY <1>3, <2>2, <2>4, <2>5
<1> QED BY <1>1, <1>2, <1>3, <1>4

\* What the characters are to the provers.
LEMMA Characters ==
  /\ Digits \subseteq 0..9 /\ Digits \subseteq Int /\ Decimal!Chars \subseteq Int
  /\ Decimal!Dot \notin Digits /\ Decimal!Plus \notin Digits /\ Decimal!Minus \notin Digits
  /\ Decimal!Other \notin Digits
  /\ Decimals \in Nat \ {0} /\ MaxInt \in Nat /\ MaxLength \in Nat
BY PartsConstants DEF Decimal!Fixed8Constants, Decimal!Chars, Decimal!Dot, Decimal!Plus, Decimal!Minus,
   Decimal!Other

\* More digits are worth at least as much, and never less than nothing.
LEMMA ValueGrows ==
  ASSUME NEW b \in Seq(Decimal!Chars), NEW i \in 1..Len(b) + 1, NEW m \in i - 1..Len(b),
         NEW q \in m..Len(b), Decimal!AreDigits(b, i, q)
  PROVE  /\ Decimal!Value(b, i, q) \in Nat /\ Decimal!Value(b, i, m) \in Nat
         /\ Decimal!Value(b, i, m) <= Decimal!Value(b, i, q)
<1>0. b \in Seq(Int) /\ \A k \in i..q : b[k] \in 0..9
  <2>1. \A k \in 1..Len(b) : b[k] \in Int
    <3>1. \A k \in 1..Len(b) : b[k] \in Decimal!Chars
      OBVIOUS
    <3> QED BY <3>1, Characters
  <2>2. b \in Seq(Int)
    BY <2>1
  <2> QED BY <2>2, Characters DEF Decimal!AreDigits
<1>1. \A j \in i - 1..q : Decimal!Value(b, i, j) \in Int
  <2> SUFFICES ASSUME NEW j \in i - 1..q PROVE Decimal!Value(b, i, j) \in Int
    OBVIOUS
  <2>1. j \in i - 1..Len(b)
    OBVIOUS
  <2> QED BY <1>0, <2>1, ValueIsHorner
<1>2. Decimal!Value(b, i, i - 1) = 0
  BY <1>0, ValueStep
<1>3. \A j \in i - 1..q - 1 :
        Decimal!Value(b, i, j + 1) = 10 * Decimal!Value(b, i, j) + b[j + 1] /\ b[j + 1] \in 0..9
  <2> SUFFICES ASSUME NEW j \in i - 1..q - 1
               PROVE  /\ Decimal!Value(b, i, j + 1) = 10 * Decimal!Value(b, i, j) + b[j + 1]
                      /\ b[j + 1] \in 0..9
    OBVIOUS
  <2>1. j \in i - 1..Len(b) - 1 /\ j + 1 \in i..q
    OBVIOUS
  <2> QED BY <1>0, <2>1, ValueStep
<1> DEFINE Bad(j) == ~ (/\ Decimal!Value(b, i, j) >= 0
                        /\ j >= m => Decimal!Value(b, i, m) <= Decimal!Value(b, i, j))
           T == {n \in 0..q - (i - 1) : Bad((i - 1) + n)}
<1>4. T = {}
  <2>1. SUFFICES ASSUME T # {} PROVE FALSE
    OBVIOUS
  <2>2. PICK n \in T : \A k \in T : n <= k
    <3>1. T \in SUBSET Nat
      OBVIOUS
    <3> HIDE DEF T
    <3> QED BY <2>1, <3>1, LeastNumber
  <2>3. n # 0
    <3>1. ~ Bad(i - 1)
      BY <1>2
    <3> HIDE DEF Bad
    <3> QED BY <2>2, <3>1
  <2>4. n - 1 \in 0..q - (i - 1) /\ n - 1 \notin T /\ (i - 1) + (n - 1) = (i - 1) + n - 1
    <3>1. n \in 0..q - (i - 1) /\ n - 1 \in 0..q - (i - 1) /\ ~ n <= n - 1
      BY <2>2, <2>3
    <3> HIDE DEF T
    <3> QED BY <2>2, <3>1
  <2> DEFINE h == (i - 1) + n - 1
  <2>5. h \in i - 1..q - 1 /\ ~ Bad(h) /\ Bad(h + 1) /\ h + 1 \in i - 1..q /\ h \in Int
    <3>1. h \in i - 1..q - 1 /\ h + 1 = (i - 1) + n /\ h + 1 \in i - 1..q /\ h \in Int
      BY <2>2, <2>3
    <3> HIDE DEF Bad
    <3> QED BY <2>2, <2>4, <3>1
  <2> HIDE DEF h
  <2>6. Decimal!Value(b, i, h + 1) >= 0 /\ Decimal!Value(b, i, h + 1) >= Decimal!Value(b, i, h)
    <3>1. Decimal!Value(b, i, h + 1) = 10 * Decimal!Value(b, i, h) + b[h + 1] /\ b[h + 1] \in 0..9
      BY <1>3, <2>5
    <3>2. Decimal!Value(b, i, h) \in Int /\ Decimal!Value(b, i, h) >= 0
      <4>1. h \in i - 1..q
        BY <2>5
      <4> QED BY <1>1, <2>5, <4>1
    <3>3. \A x \in Int, c \in 0..9 : x >= 0 => 10 * x + c >= x /\ 10 * x + c >= 0
      OBVIOUS
    <3>4. /\ 10 * Decimal!Value(b, i, h) + b[h + 1] >= Decimal!Value(b, i, h)
          /\ 10 * Decimal!Value(b, i, h) + b[h + 1] >= 0
      BY <3>1, <3>2, <3>3, Zenon
    <3> QED BY <3>1, <3>4, Zenon
  <2>7. h + 1 >= m => Decimal!Value(b, i, m) <= Decimal!Value(b, i, h + 1)
    <3>1. CASE h >= m
      <4>1. Decimal!Value(b, i, m) \in Int /\ Decimal!Value(b, i, h) \in Int /\ Decimal!Value(b, i, h + 1) \in Int
        BY <1>1, <2>5
      <4> QED BY <2>5, <2>6, <3>1, <4>1
    <3>2. CASE h + 1 = m
      BY <1>1, <2>5, <3>2
    <3> QED BY <2>5, <3>1, <3>2
  <2> QED BY <2>5, <2>6, <2>7
<1>5. ~ Bad(q) /\ ~ Bad(m)
  <2>1. q - (i - 1) \in 0..q - (i - 1) /\ m - (i - 1) \in 0..q - (i - 1)
        /\ (i - 1) + (q - (i - 1)) = q /\ (i - 1) + (m - (i - 1)) = m
    OBVIOUS
  <2> HIDE DEF Bad
  <2> QED BY <1>4, <2>1
<1> QED BY <1>1, <1>5

\* The first point is where a point is with none before it.
LEMMA PointIs ==
  ASSUME NEW b \in Seq(Decimal!Chars), NEW d \in 1..Len(b) + 1,
         d = Len(b) + 1 \/ b[d] = Decimal!Dot, \A j \in 1..d - 1 : b[j] # Decimal!Dot
  PROVE  Decimal!Point(b) = d
<1> DEFINE P(i) == /\ i = Len(b) + 1 \/ b[i] = Decimal!Dot
                   /\ \A j \in 1..i - 1 : b[j] # Decimal!Dot
<1>1. P(d)
  OBVIOUS
<1>2. \A i \in 1..Len(b) + 1 : P(i) => i = d
  <2> SUFFICES ASSUME NEW i \in 1..Len(b) + 1, P(i) PROVE i = d
    OBVIOUS
  <2>1. ~ i < d
    OBVIOUS
  <2>2. ~ d < i
    OBVIOUS
  <2> QED BY <2>1, <2>2
<1>3. Decimal!Point(b) = CHOOSE i \in 1..Len(b) + 1 : P(i)
  BY DEF Decimal!Point
<1> HIDE DEF P
<1> QED BY <1>1, <1>2, <1>3

\* There is a first point.
LEMMA PointExists ==
  ASSUME NEW b \in Seq(Decimal!Chars)
  PROVE  /\ Decimal!Point(b) \in 1..Len(b) + 1
         /\ Decimal!Point(b) = Len(b) + 1 \/ b[Decimal!Point(b)] = Decimal!Dot
         /\ \A j \in 1..Decimal!Point(b) - 1 : b[j] # Decimal!Dot
<1> DEFINE T == {i \in 1..Len(b) + 1 : i = Len(b) + 1 \/ b[i] = Decimal!Dot}
<1>1. PICK d \in T : \A k \in T : d <= k
  <2>1. T \in SUBSET Nat /\ Len(b) + 1 \in T
    OBVIOUS
  <2> HIDE DEF T
  <2> QED BY <2>1, LeastNumber
<1>2. d \in 1..Len(b) + 1 /\ (d = Len(b) + 1 \/ b[d] = Decimal!Dot) /\ \A j \in 1..d - 1 : b[j] # Decimal!Dot
  BY <1>1
<1>3. Decimal!Point(b) = d
  BY <1>2, PointIs
<1> QED BY <1>2, <1>3

\* A body all of whose first characters are digits has its point behind them.
LEMMA PointBehind ==
  ASSUME NEW b \in Seq(Decimal!Chars), NEW m \in 0..Len(b), Decimal!AreDigits(b, 1, m)
  PROVE  Decimal!Point(b) > m
<1>1. \A k \in 1..m : b[k] # Decimal!Dot
  BY Characters DEF Decimal!AreDigits
<1> QED BY <1>1, PointExists

\* A number has nothing but digits and one point.
LEMMA NumberChars ==
  ASSUME NEW b \in Seq(Decimal!Chars), Decimal!WellFormed(b), NEW k \in 1..Len(b), b[k] \notin Digits
  PROVE  b[k] = Decimal!Dot /\ k = Decimal!Point(b)
<1> DEFINE p == Decimal!Point(b)
<1>1. p \in 1..Len(b) + 1 /\ (p = Len(b) + 1 \/ b[p] = Decimal!Dot)
  BY PointExists
<1>2. (\A n \in 1..p - 1 : b[n] \in Digits) /\ \A n \in p + 1..Len(b) : b[n] \in Digits
  BY DEF Decimal!WellFormed, Decimal!AreDigits
<1> HIDE DEF p
<1>3. ~ k < p /\ ~ k > p
  BY <1>1, <1>2
<1>4. k = p
  BY <1>1, <1>3
<1> QED BY <1>1, <1>4 DEF p

\* The magnitude of a number is at least its whole part, scaled; and it is a number.
LEMMA MagnitudeBounds ==
  ASSUME NEW b \in Seq(Decimal!Chars), Decimal!WellFormed(b)
  PROVE  /\ Decimal!SCALE \in Nat \ {0}
         /\ Decimal!Value(b, 1, Decimal!Point(b) - 1) \in Nat /\ Decimal!Magnitude(b) \in Nat
         /\ Decimal!Magnitude(b) >= Decimal!Value(b, 1, Decimal!Point(b) - 1) * Decimal!SCALE
         /\ Decimal!Point(b) > Len(b) =>
              Decimal!Magnitude(b) = Decimal!Value(b, 1, Decimal!Point(b) - 1) * Decimal!SCALE
<1> DEFINE p == Decimal!Point(b)
           W == Decimal!Value(b, 1, p - 1)
           F == IF (IF p > Len(b) THEN 0 ELSE Len(b) - p) = 0 THEN 0
                ELSE Decimal!Value(b, p + 1, Len(b)) * Decimal!Power(Decimals - (Len(b) - p))
           S == Decimal!SCALE
<1>1. p \in 1..Len(b) + 1 /\ p \in Int /\ Len(b) \in Nat
  BY PointExists
<1>2. S \in Nat \ {0}
  BY Characters, PowerStep DEF Decimal!SCALE
<1>3. W \in Nat
  <2> HIDE DEF p
  <2>1. p - 1 \in 1 - 1..Len(b) /\ p - 1 \in p - 1..Len(b) /\ 1 \in 1..Len(b) + 1
    BY <1>1
  <2>2. Decimal!AreDigits(b, 1, p - 1)
    BY DEF Decimal!WellFormed, p
  <2> QED BY <2>1, <2>2, ValueGrows
<1>4. F \in Nat /\ (p > Len(b) => F = 0)
  <2>1. CASE p >= Len(b)
    BY <1>1, <2>1
  <2>2. CASE p < Len(b)
    <3>1. Len(b) - p <= Decimals /\ Decimal!AreDigits(b, p + 1, Len(b))
      BY DEF Decimal!WellFormed
    <3> HIDE DEF p
    <3>2. p + 1 \in 1..Len(b) + 1 /\ Len(b) \in (p + 1) - 1..Len(b) /\ Len(b) \in Len(b)..Len(b)
      BY <1>1, <2>2
    <3>3. Decimal!Value(b, p + 1, Len(b)) \in Nat
      BY <3>1, <3>2, ValueGrows
    <3>4. Decimals - (Len(b) - p) \in Nat
      BY <1>1, <3>1, Characters
    <3>5. Decimal!Power(Decimals - (Len(b) - p)) \in Nat
      BY <3>4, PowerStep
    <3>6. F = Decimal!Value(b, p + 1, Len(b)) * Decimal!Power(Decimals - (Len(b) - p))
      BY <1>1, <2>2
    <3> HIDE DEF F
    <3>7. \A x, y \in Nat : x * y \in Nat
      OBVIOUS
    <3> QED BY <1>1, <2>2, <3>3, <3>5, <3>6, <3>7
  <2> QED BY <1>1, <2>1, <2>2
<1>5. Decimal!Magnitude(b) = W * S + F
  <2>1. CASE p > Len(b)
    BY <2>1 DEF Decimal!Magnitude
  <2>2. CASE ~ p > Len(b)
    BY <2>2 DEF Decimal!Magnitude
  <2> QED BY <2>1, <2>2
<1> HIDE DEF W, F, S
<1>6. \A x, y, z \in Nat : x * y + z \in Nat /\ x * y + z >= x * y /\ (z = 0 => x * y + z = x * y)
  OBVIOUS
<1> QED BY <1>2, <1>3, <1>4, <1>5, <1>6 DEF W, S, p

\* The body is the text behind its sign.
LEMMA BodyFacts ==
  ASSUME Decimal!TypeOK, text # << >>
  PROVE  /\ Decimal!Body \in Seq(Decimal!Chars) /\ Len(text) \in Nat \ {0}
         /\ text[1] \in Decimal!Signs => /\ Len(Decimal!Body) = Len(text) - 1
                                         /\ \A k \in 1..Len(Decimal!Body) : Decimal!Body[k] = text[k + 1]
         /\ text[1] \notin Decimal!Signs => Decimal!Body = text
<1>1. text \in Seq(Decimal!Chars) /\ Len(text) # 0
  BY DEF Decimal!TypeOK
<1>2. CASE text[1] \in Decimal!Signs
  <2>1. Decimal!Body = Tail(text)
    BY <1>2 DEF Decimal!Body
  <2>2. /\ Tail(text) \in Seq(Decimal!Chars) /\ Len(Tail(text)) = Len(text) - 1
        /\ \A k \in 1..Len(Tail(text)) : Tail(text)[k] = text[k + 1]
    BY <1>1
  <2>3. Len(text) \in Nat \ {0}
    BY <1>1
  <2> HIDE DEF Decimal!Body
  <2> QED BY <1>2, <2>1, <2>2, <2>3
<1>3. CASE text[1] \notin Decimal!Signs
  BY <1>1, <1>3 DEF Decimal!Body
<1> QED BY <1>2, <1>3

\* A number has a character behind its sign.
LEMMA NumberNotEmpty ==
  ASSUME Decimal!TypeOK, Decimal!WellFormed(Decimal!Body)
  PROVE  text # << >> /\ ~ (Len(text) = 1 /\ text[1] \in Decimal!Signs)
<1>1. Decimal!Body # << >>
  <2>1. << >> \in Seq(Decimal!Chars) /\ Len(<< >>) = 0
    OBVIOUS
  <2>2. Decimal!Point(<< >>) \in 1..Len(<< >>) + 1
    BY <2>1, PointExists
  <2>3. ~ Decimal!Point(<< >>) > 1
    BY <2>1, <2>2
  <2>4. ~ Decimal!WellFormed(<< >>)
    BY <2>3 DEF Decimal!WellFormed
  <2> QED BY <2>4
<1>2. text # << >>
  BY <1>1 DEF Decimal!Body
<1>3. ASSUME Len(text) = 1, text[1] \in Decimal!Signs PROVE FALSE
  <2>1. Decimal!Body \in Seq(Decimal!Chars) /\ Len(Decimal!Body) = 0
    BY <1>2, <1>3, BodyFacts
  <2>2. Decimal!Body = << >>
    BY <2>1, EmptySeq
  <2> QED BY <1>1, <2>2
<1> QED BY <1>2, <1>3

\* What fromWhole takes for the value of a whole number is that of the text.
LEMMA WholeAgrees ==
  ASSUME Decimal!TypeOK, text # << >>, Decimal!Whole
  PROVE  /\ Decimal!Denoted \in Int
         /\ (Decimal!Denoted \div Decimal!SCALE) * Decimal!SCALE = Decimal!Denoted
<1> DEFINE b == Decimal!Body
           w == Decimal!Value(b, 1, Decimal!Point(b) - 1)
           S == Decimal!SCALE
<1>1. b \in Seq(Decimal!Chars) /\ Decimal!WellFormed(b) /\ Decimal!Point(b) > Len(b)
  BY BodyFacts DEF Decimal!Whole
<1>2. S \in Nat \ {0} /\ w \in Nat /\ Decimal!Magnitude(b) = w * S
  <2> HIDE DEF b
  <2> QED BY <1>1, MagnitudeBounds
<1>3. Decimal!Denoted = IF text[1] = Decimal!Minus THEN - (w * S) ELSE w * S
  BY <1>2 DEF Decimal!Denoted
<1> HIDE DEF b, w, S
<1>4. \A x \in Nat, s \in Nat \ {0} : /\ (x * s) \div s = x /\ (-(x * s)) \div s = -x
                                      /\ (-x) * s = -(x * s) /\ x * s \in Int
  OBVIOUS
<1>5. /\ (w * S) \div S = w /\ (-(w * S)) \div S = -w /\ (-w) * S = -(w * S)
      /\ w * S \in Int /\ -(w * S) \in Int
  BY <1>2, <1>4
<1>6. CASE text[1] = Decimal!Minus
  <2>1. Decimal!Denoted = -(w * S)
    BY <1>3, <1>6
  <2> QED BY <1>5, <2>1, Zenon DEF S
<1>7. CASE text[1] # Decimal!Minus
  <2>1. Decimal!Denoted = w * S
    BY <1>3, <1>7
  <2> QED BY <1>5, <2>1, Zenon DEF S
<1> QED BY <1>6, <1>7

\* One equation about the answer says all of it.
LEMMA Answered ==
  ASSUME Decimal!TypeOK, text' = text,
         parsed' = IF Decimal!WellFormed(Decimal!Body) /\ Decimal!Fits(Decimal!Denoted)
                   THEN Decimal!Some(Decimal!Denoted) ELSE Decimal!Nullopt
  PROVE  Decimal!ParsesExactly'
<1>1. Decimal!Body' = Decimal!Body /\ Decimal!Denoted' = Decimal!Denoted
  BY DEF Decimal!Body, Decimal!Denoted
<1>2. Decimal!Whole' = Decimal!Whole
  BY <1>1 DEF Decimal!Whole
<1>3. ASSUME Decimal!Whole
      PROVE  parsed' = Decimal!FromWhole(Decimal!Denoted \div Decimal!SCALE)
  <2>1. Decimal!WellFormed(Decimal!Body)
    BY <1>3 DEF Decimal!Whole
  <2>2. text # << >>
    BY <2>1, NumberNotEmpty
  <2>3. (Decimal!Denoted \div Decimal!SCALE) * Decimal!SCALE = Decimal!Denoted
    BY <1>3, <2>2, WholeAgrees
  <2> QED BY <2>1, <2>3 DEF Decimal!FromWhole
<1> QED BY <1>1, <1>2, <1>3 DEF Decimal!ParsesExactly

\* A refusal is right when the text is no number or one too large.
LEMMA Refused ==
  ASSUME Decimal!TypeOK, Decimal!Return(Decimal!Nullopt),
         ~ (Decimal!WellFormed(Decimal!Body) /\ Decimal!Fits(Decimal!Denoted))
  PROVE  Decimal!TypeOK' /\ Decimal!IInv'
<1>1. /\ parsePc' = "returned" /\ parsed' = Decimal!Nullopt /\ text' = text /\ index' = index
      /\ negative' = negative /\ UNCHANGED Decimal!number
  BY DEF Decimal!Return
<1>2. Decimal!ParsesExactly'
  BY <1>1, Answered
<1>3. Decimal!Nullopt \in [ok : BOOLEAN, raw : Decimal!MinInt..MaxInt]
  <2>1. 0 \in Decimal!MinInt..MaxInt
    BY Characters DEF Decimal!MinInt
  <2> QED BY <2>1 DEF Decimal!Nullopt
<1>4. Decimal!TypeOK'
  BY <1>1, <1>3 DEF Decimal!TypeOK, Decimal!number
<1> QED BY <1>1, <1>2, <1>4 DEF Decimal!IInv

\* What the loop is at: a character of the body, and the next one.
LEMMA AtCharacter ==
  ASSUME Decimal!TypeOK, Decimal!IInv, parsePc = "loop"
  PROVE  /\ text # << >> /\ Decimal!Body \in Seq(Decimal!Chars)
         /\ Decimal!Read \in 0..Len(Decimal!Body) /\ Decimal!Read \in Nat
         /\ index <= Len(text) => /\ Decimal!Read + 1 \in 1..Len(Decimal!Body)
                                  /\ Decimal!Body[Decimal!Read + 1] = Decimal!Char
                                  /\ index + 1 \in 1..MaxLength + 1
         /\ index > Len(text) => Decimal!Read = Len(Decimal!Body)
<1>1. text # << >> /\ Decimal!Read \in 0..Len(Decimal!Body)
  BY DEF Decimal!IInv
<1>2. index \in 1..MaxLength + 1 /\ Len(text) <= MaxLength /\ MaxLength \in Nat /\ text \in Seq(Decimal!Chars)
  BY Characters DEF Decimal!TypeOK
<1>3. CASE text[1] \in Decimal!Signs
  <2>1. Decimal!Read = index - 2 /\ Len(Decimal!Body) = Len(text) - 1 /\ Decimal!Body \in Seq(Decimal!Chars)
        /\ \A k \in 1..Len(Decimal!Body) : Decimal!Body[k] = text[k + 1]
    BY <1>1, <1>3, BodyFacts DEF Decimal!Read
  <2>2. (index - 2) + 1 + 1 = index
    BY <1>2
  <2> QED BY <1>1, <1>2, <2>1, <2>2 DEF Decimal!Char
<1>4. CASE text[1] \notin Decimal!Signs
  <2>1. Decimal!Read = index - 1 /\ Decimal!Body = text
    BY <1>1, <1>4, BodyFacts DEF Decimal!Read
  <2>2. (index - 1) + 1 = index
    BY <1>2
  <2> QED BY <1>1, <1>2, <2>1, <2>2 DEF Decimal!Char
<1> QED BY <1>3, <1>4

\* Each step of the loop keeps the invariant.

LEMMA ParseRefuses ==
  ASSUME Decimal!TypeOK, Decimal!IInv, Decimal!RefuseEmpty \/ Decimal!RefuseCharacter
  PROVE  Decimal!TypeOK' /\ Decimal!IInv'
<1>1. CASE Decimal!RefuseEmpty
  <2>1. ~ Decimal!WellFormed(Decimal!Body)
    <3>1. index = 1
      BY <1>1 DEF Decimal!RefuseEmpty, Decimal!IInv
    <3>2. text = << >> \/ (Len(text) = 1 /\ text[1] \in Decimal!Signs)
      BY <1>1, <3>1 DEF Decimal!RefuseEmpty, Decimal!Char, Decimal!Signs
    <3> QED BY <3>2, NumberNotEmpty
  <2> QED BY <1>1, <2>1, Refused DEF Decimal!RefuseEmpty
<1>2. CASE Decimal!RefuseCharacter
  <2> DEFINE b == Decimal!Body
             m == Decimal!Read
  <2>1. parsePc = "loop" /\ index <= Len(text) /\ Decimal!Return(Decimal!Nullopt)
    BY <1>2 DEF Decimal!RefuseCharacter
  <2>2. b \in Seq(Decimal!Chars) /\ m + 1 \in 1..Len(b) /\ b[m + 1] = Decimal!Char /\ m \in Nat
    BY <2>1, AtCharacter
  <2>3. ASSUME Decimal!WellFormed(b) PROVE FALSE
    <3>1. CASE Decimal!Char = Decimal!Dot /\ decimalSeen
      <4>1. PICK d \in 1..m : b[d] = Decimal!Dot
        BY <2>1, <3>1 DEF Decimal!IInv, Decimal!GatheredFraction
      <4>2. d \in 1..Len(b) /\ d # m + 1 /\ Decimal!Dot \notin Digits
        BY <2>2, Characters
      <4> HIDE DEF b, m
      <4>3. d = Decimal!Point(b) /\ m + 1 = Decimal!Point(b)
        BY <2>2, <2>3, <3>1, <4>1, <4>2, NumberChars
      <4> QED BY <4>2, <4>3
    <3>2. CASE Decimal!Char \in {Decimal!Plus, Decimal!Minus, Decimal!Other}
      <4>1. Decimal!Char \notin Digits /\ Decimal!Char # Decimal!Dot
        BY <3>2, Characters DEF Decimal!Plus, Decimal!Minus, Decimal!Other, Decimal!Dot
      <4> HIDE DEF b, m
      <4> QED BY <2>2, <2>3, <4>1, NumberChars
    <3> QED BY <1>2, <3>1, <3>2 DEF Decimal!RefuseCharacter
  <2> QED BY <2>1, <2>3, Refused
<1> QED BY <1>1, <1>2

\* Characters are numbers.
LEMMA Codes ==
  ASSUME NEW b \in Seq(Decimal!Chars)
  PROVE  b \in Seq(Int)
<1>1. \A k \in 1..Len(b) : b[k] \in Decimal!Chars
  OBVIOUS
<1>2. \A k \in 1..Len(b) : b[k] \in Int
  BY <1>1, Characters
<1> QED BY <1>2

LEMMA ParseSign ==
  ASSUME Decimal!TypeOK, Decimal!IInv, Decimal!ReadSign
  PROVE  Decimal!TypeOK' /\ Decimal!IInv'
<1>1. /\ parsePc = "sign" /\ text # << >> /\ (Decimal!Char \in Decimal!Signs => Len(text) > 1)
      /\ negative' = (Decimal!Char = Decimal!Minus) /\ parsePc' = "loop"
      /\ index' = IF Decimal!Char \in Decimal!Signs THEN 2 ELSE 1
      /\ text' = text /\ parsed' = parsed /\ UNCHANGED Decimal!number
  BY DEF Decimal!ReadSign, Decimal!Signs
<1>2. /\ index = 1 /\ ~ decimalSeen /\ whole = 0 /\ fraction = 0 /\ fractionDigits = 0
      /\ ~ hasWholeDigit /\ Decimal!Char = text[1]
  BY <1>1 DEF Decimal!IInv, Decimal!Char
<1>3. Len(text) \in Nat \ {0} /\ Len(text) <= MaxLength /\ MaxLength \in Nat
  BY <1>1, BodyFacts, Characters DEF Decimal!TypeOK
<1>4. Decimal!TypeOK'
  <2>1. index' \in 1..MaxLength + 1
    BY <1>1, <1>3
  <2>2. negative' \in BOOLEAN
    BY <1>1
  <2> QED BY <1>1, <2>1, <2>2 DEF Decimal!TypeOK, Decimal!number
<1>5. Decimal!Read' = 0 /\ Decimal!Body' = Decimal!Body
  BY <1>1, <1>2 DEF Decimal!Read, Decimal!Body
<1>6. Decimal!Body \in Seq(Int) /\ 0 \in 0..Len(Decimal!Body)
  <2>1. Decimal!Body \in Seq(Decimal!Chars)
    BY <1>1, BodyFacts
  <2>2. \A b \in Seq(Decimal!Chars) : 0 \in 0..Len(b)
    OBVIOUS
  <2> QED BY <2>1, <2>2, Codes
<1>7. Decimal!GatheredWhole(Decimal!Body, 0)'
  <2>1. Decimal!Value(Decimal!Body, 1, 0) = 0
    <3>1. \A b \in Seq(Int) : 1 \in 1..Len(b) + 1
      OBVIOUS
    <3> QED BY <1>6, <3>1, ValueStep
  <2>2. \A b : Decimal!AreDigits(b, 1, 0)
    BY DEF Decimal!AreDigits
  <2> QED BY <1>1, <1>2, <1>5, <2>1, <2>2 DEF Decimal!GatheredWhole, Decimal!number
<1>8. (Decimal!Power(fractionDigits) * Decimal!Power(Decimals - fractionDigits) = Decimal!SCALE)'
  <2>1. Decimal!Power(0) = 1 /\ Decimal!Power(Decimals) \in Nat /\ Decimals - 0 = Decimals
    BY PowerStep, Characters
  <2>2. fractionDigits' = 0
    BY <1>1, <1>2 DEF Decimal!number
  <2> QED BY <2>1, <2>2 DEF Decimal!SCALE
<1>9. text' # << >> /\ (negative' <=> text[1] = Decimal!Minus) /\ ~ decimalSeen'
  BY <1>1, <1>2 DEF Decimal!number
<1> QED BY <1>1, <1>4, <1>5, <1>6, <1>7, <1>8, <1>9 DEF Decimal!IInv, Decimal!ParsesExactly

\* The loop moves on by a character.
LEMMA NextRead ==
  ASSUME Decimal!TypeOK, text' = text, index' = index + 1
  PROVE  Decimal!Read' = Decimal!Read + 1
<1>1. index \in Int
  BY DEF Decimal!TypeOK
<1> QED BY <1>1 DEF Decimal!Read

LEMMA ParsePoint ==
  ASSUME Decimal!TypeOK, Decimal!IInv, Decimal!ReadPoint
  PROVE  Decimal!TypeOK' /\ Decimal!IInv'
<1>1. /\ parsePc = "loop" /\ index <= Len(text) /\ Decimal!Char = Decimal!Dot /\ ~ decimalSeen
      /\ decimalSeen' = TRUE /\ index' = index + 1 /\ text' = text /\ parsePc' = "loop"
      /\ negative' = negative /\ whole' = whole /\ fraction' = fraction
      /\ fractionScale' = fractionScale /\ hasWholeDigit' = hasWholeDigit
      /\ fractionDigits' = fractionDigits /\ parsed' = parsed
  BY DEF Decimal!ReadPoint
<1> PICK b, m : b = Decimal!Body /\ m = Decimal!Read
  OBVIOUS
<1>2. /\ text # << >> /\ b \in Seq(Decimal!Chars) /\ m \in Nat /\ m + 1 \in 1..Len(b)
      /\ b[m + 1] = Decimal!Dot /\ index + 1 \in 1..MaxLength + 1
  BY <1>1, AtCharacter
<1>3. Decimal!TypeOK'
  BY <1>1, <1>2 DEF Decimal!TypeOK
<1>4. Decimal!Body' = b /\ Decimal!Read' = m + 1
  BY <1>1, NextRead DEF Decimal!Body
<1>5. /\ Decimal!AreDigits(b, 1, m) /\ whole = Decimal!Value(b, 1, m) /\ (hasWholeDigit <=> m > 0)
      /\ fraction = 0 /\ fractionDigits = 0
  BY <1>1 DEF Decimal!IInv, Decimal!GatheredWhole
<1>6. Decimal!GatheredFraction(b, m + 1, m + 1)'
  <2>1. (m + 1) - 1 = m /\ (m + 1) - (m + 1) = 0 /\ (m > 0 <=> m + 1 > 1) /\ 0 <= Decimals
        /\ (m + 1) + 1 \in 1..Len(b) + 1 /\ ((m + 1) + 1) - 1 = m + 1 /\ Decimals - 0 = Decimals
    BY <1>2, Characters
  <2>2. Decimal!AreDigits(b, (m + 1) + 1, m + 1)
    BY <1>2 DEF Decimal!AreDigits
  <2>3. Decimal!Value(b, (m + 1) + 1, m + 1) = 0
    BY <1>2, <2>1, Codes, ValueStep
  <2>4. Decimal!Power(0) = 1 /\ Decimal!Power(Decimals) \in Nat
    BY PowerStep, Characters
  <2>5. 0 = 0 * Decimal!Power(Decimals) /\ 0 < Decimal!Power(0)
    BY <2>4
  <2> QED BY <1>1, <1>2, <1>5, <2>1, <2>2, <2>3, <2>5 DEF Decimal!GatheredFraction
<1>7. /\ negative' <=> text[1] = Decimal!Minus
      /\ (Decimal!Power(fractionDigits) * Decimal!Power(Decimals - fractionDigits) = Decimal!SCALE)'
  BY <1>1 DEF Decimal!IInv
<1>8. m + 1 \in 0..Len(b) /\ m + 1 \in 1..m + 1
  BY <1>2
<1> QED BY <1>1, <1>2, <1>3, <1>4, <1>6, <1>7, <1>8 DEF Decimal!IInv, Decimal!ParsesExactly

\* A number whose whole part is cut off is too large, with either sign.
LEMMA CutOff ==
  ASSUME NEW b \in Seq(Decimal!Chars), NEW m \in 0..Len(b), Decimal!AreDigits(b, 1, m),
         Decimal!Value(b, 1, m) > Decimal!MaximumWhole, Decimal!WellFormed(b)
  PROVE  ~ Decimal!Fits(Decimal!Magnitude(b)) /\ ~ Decimal!Fits(- Decimal!Magnitude(b))
<1> DEFINE p == Decimal!Point(b)
           W == Decimal!Value(b, 1, p - 1)
           V == Decimal!Value(b, 1, m)
           M == Decimal!Magnitude(b)
           S == Decimal!SCALE
<1>1. p > m /\ p \in 1..Len(b) + 1 /\ Decimal!AreDigits(b, 1, p - 1)
  BY PointBehind, PointExists DEF Decimal!WellFormed
<1>2. V \in Nat /\ V <= W
  <2> HIDE DEF p
  <2>1. m \in 1 - 1..Len(b) /\ p - 1 \in m..Len(b) /\ 1 \in 1..Len(b) + 1
    BY <1>1
  <2> QED BY <1>1, <2>1, ValueGrows
<1>3. S \in Nat \ {0} /\ W \in Nat /\ M \in Nat /\ M >= W * S
  BY MagnitudeBounds
<1>4. V > MaxInt \div S + 1 /\ MaxInt \in Nat
  BY Characters DEF Decimal!MaximumWhole
<1> HIDE DEF V, W, M, S, p
<1>5. M > MaxInt + 1
  <2>1. \A x, y, s \in Nat : s # 0 /\ x > y \div s + 1 => x * s > y + 1
    OBVIOUS
  <2>2. W > MaxInt \div S + 1
    BY <1>2, <1>3, <1>4
  <2>3. W * S > MaxInt + 1
    BY <1>3, <1>4, <2>1, <2>2
  <2>4. W * S \in Nat
    BY <1>3
  <2> QED BY <1>3, <1>4, <2>3, <2>4
<1> QED BY <1>3, <1>4, <1>5 DEF Decimal!Fits, Decimal!MinInt, M

LEMMA ParseWholeDigit ==
  ASSUME Decimal!TypeOK, Decimal!IInv, Decimal!ReadWholeDigit
  PROVE  Decimal!TypeOK' /\ Decimal!IInv'
<1>1. parsePc = "loop" /\ index <= Len(text) /\ Decimal!Char \in Digits /\ ~ decimalSeen
  BY DEF Decimal!ReadWholeDigit
<1> PICK b, m : b = Decimal!Body /\ m = Decimal!Read
  OBVIOUS
<1>2. /\ text # << >> /\ b \in Seq(Decimal!Chars) /\ m \in Nat /\ m + 1 \in 1..Len(b)
      /\ b[m + 1] = Decimal!Char /\ index + 1 \in 1..MaxLength + 1
  BY <1>1, AtCharacter
<1>3. /\ Decimal!AreDigits(b, 1, m) /\ whole = Decimal!Value(b, 1, m) /\ (hasWholeDigit <=> m > 0)
      /\ fraction = 0 /\ fractionDigits = 0
  BY <1>1 DEF Decimal!IInv, Decimal!GatheredWhole
<1>4. Decimal!AreDigits(b, 1, m + 1)
  BY <1>1, <1>2, <1>3 DEF Decimal!AreDigits
<1>5. Decimal!Value(b, 1, m + 1) = whole * 10 + Decimal!Char /\ Decimal!Value(b, 1, m + 1) \in Nat
  <2>1. m \in 1 - 1..Len(b) - 1 /\ 1 \in 1..Len(b) + 1 /\ m + 1 \in 1 - 1..Len(b) /\ m + 1 \in m + 1..Len(b)
    BY <1>2
  <2>2. Decimal!Value(b, 1, m + 1) = 10 * Decimal!Value(b, 1, m) + b[m + 1]
    BY <1>2, <2>1, Codes, ValueStep
  <2>3. Decimal!Value(b, 1, m + 1) \in Nat
    BY <1>2, <1>4, <2>1, ValueGrows
  <2>4. whole \in Int /\ Decimal!Char \in Int
    BY <1>1, Characters DEF Decimal!TypeOK
  <2> QED BY <1>2, <1>3, <2>2, <2>3, <2>4
<1>6. CASE whole * 10 + Decimal!Char > Decimal!MaximumWhole
  <2>1. Decimal!Return(Decimal!Nullopt)
    BY <1>6 DEF Decimal!ReadWholeDigit
  <2>2. Decimal!WellFormed(b) => ~ Decimal!Fits(Decimal!Magnitude(b)) /\ ~ Decimal!Fits(- Decimal!Magnitude(b))
    <3>1. m + 1 \in 0..Len(b) /\ Decimal!Value(b, 1, m + 1) > Decimal!MaximumWhole
      BY <1>2, <1>5, <1>6
    <3> QED BY <1>2, <1>4, <3>1, CutOff
  <2>3. ~ (Decimal!WellFormed(b) /\ Decimal!Fits(Decimal!Denoted))
    BY <2>2 DEF Decimal!Denoted
  <2> QED BY <2>1, <2>3, Refused
<1>7. CASE ~ whole * 10 + Decimal!Char > Decimal!MaximumWhole
  <2>1. /\ whole' = whole * 10 + Decimal!Char /\ hasWholeDigit' = TRUE /\ index' = index + 1
        /\ text' = text /\ parsePc' = "loop" /\ negative' = negative /\ fraction' = fraction
        /\ fractionScale' = fractionScale /\ decimalSeen' = decimalSeen
        /\ fractionDigits' = fractionDigits /\ parsed' = parsed
    BY <1>1, <1>7 DEF Decimal!ReadWholeDigit
  <2>2. Decimal!TypeOK'
    <3>1. whole' \in 0..Decimal!MaximumWhole
      <4>1. Decimal!MaximumWhole \in Int
        <5>1. Decimal!SCALE \in Nat \ {0}
          BY PowerStep, Characters DEF Decimal!SCALE
        <5> QED BY <5>1, Characters DEF Decimal!MaximumWhole
      <4> QED BY <1>5, <1>7, <2>1, <4>1
    <3> QED BY <1>2, <2>1, <3>1 DEF Decimal!TypeOK
  <2>3. Decimal!Body' = b /\ Decimal!Read' = m + 1
    BY <1>1, <1>2, <2>1, NextRead DEF Decimal!Body
  <2>4. Decimal!GatheredWhole(b, m + 1)'
    BY <1>2, <1>3, <1>4, <1>5, <2>1 DEF Decimal!GatheredWhole
  <2>5. /\ negative' <=> text[1] = Decimal!Minus
        /\ (Decimal!Power(fractionDigits) * Decimal!Power(Decimals - fractionDigits) = Decimal!SCALE)'
    BY <1>1, <2>1 DEF Decimal!IInv
  <2>6. m + 1 \in 0..Len(b)
    BY <1>2
  <2> QED BY <1>1, <1>2, <2>1, <2>2, <2>3, <2>4, <2>5, <2>6 DEF Decimal!IInv, Decimal!ParsesExactly
<1> QED BY <1>6, <1>7

\* What the fraction becomes with a digit more, f of them read.
LEMMA FractionGrows ==
  ASSUME NEW f \in 0..Decimals - 1, NEW v \in Nat, NEW c \in 0..9, v < Decimal!Power(f),
         Decimal!Power(f) * Decimal!Power(Decimals - f) = Decimal!SCALE
  PROVE  /\ Decimal!Power(f + 1) * Decimal!Power(Decimals - (f + 1)) = Decimal!SCALE
         /\ Decimal!SCALE \div Decimal!Power(f + 1) = Decimal!Power(Decimals - (f + 1))
         /\ v * Decimal!Power(Decimals - f) + c * Decimal!Power(Decimals - (f + 1))
              = (10 * v + c) * Decimal!Power(Decimals - (f + 1))
         /\ 10 * v + c < Decimal!Power(f + 1)
         /\ (10 * v + c) * Decimal!Power(Decimals - (f + 1)) \in 0..Decimal!SCALE - 1
<1> DEFINE P == Decimal!Power(f)
           Q == Decimal!Power(f + 1)
           W == Decimal!Power(Decimals - (f + 1))
           X == Decimal!Power(Decimals - f)
           S == Decimal!SCALE
<1>1. P \in Nat \ {0} /\ Q = 10 * P
  BY PowerStep
<1>2. W \in Nat \ {0} /\ X = 10 * W
  <2>1. Decimals - (f + 1) \in Nat /\ (Decimals - (f + 1)) + 1 = Decimals - f
    BY Characters
  <2> QED BY <2>1, PowerStep
<1>3. P * X = S /\ v < P
  OBVIOUS
<1> HIDE DEF P, Q, W, X, S
<1>4. \A x, w \in Nat \ {0} : /\ (10 * x) * w = x * (10 * w) /\ (x * (10 * w)) \div (10 * x) = w
                              /\ x * (10 * w) \in Nat
  <2> TAKE x, w \in Nat \ {0}
  <2>1. x * (10 * w) = w * (10 * x)
    OBVIOUS
  <2>2. \A a, d \in Nat : d # 0 => (a * d) \div d = a
    OBVIOUS
  <2>3. (w * (10 * x)) \div (10 * x) = w
    BY <2>2
  <2> QED BY <2>1, <2>3
<1>5. Q * W = S /\ S \div Q = W /\ S \in Nat
  BY <1>1, <1>2, <1>3, <1>4
<1>6. v * X + c * W = (10 * v + c) * W
  <2>1. v * (10 * W) = (10 * v) * W
    BY <1>2
  <2>2. \A x, y, w \in Nat : x * w + y * w = (x + y) * w
    OBVIOUS
  <2> QED BY <1>2, <2>1, <2>2
<1>7. 10 * v + c < Q /\ 10 * v + c \in Nat /\ Q \in Nat
  BY <1>1, <1>3
<1>8. (10 * v + c) * W \in 0..S - 1
  <2>1. \A x, y, w \in Nat : x < y /\ w # 0 => x * w < y * w /\ x * w \in Nat
    OBVIOUS
  <2>2. (10 * v + c) * W < Q * W /\ (10 * v + c) * W \in Nat
    BY <1>2, <1>7, <2>1
  <2> QED BY <1>5, <2>2
<1> QED BY <1>5, <1>6, <1>7, <1>8 DEF P, Q, W, X, S

LEMMA ParseFractionDigit ==
  ASSUME Decimal!TypeOK, Decimal!IInv, Decimal!ReadFractionDigit
  PROVE  Decimal!TypeOK' /\ Decimal!IInv'
<1>1. parsePc = "loop" /\ index <= Len(text) /\ Decimal!Char \in Digits /\ decimalSeen
  BY DEF Decimal!ReadFractionDigit
<1> PICK b, m : b = Decimal!Body /\ m = Decimal!Read
  OBVIOUS
<1>2. /\ text # << >> /\ b \in Seq(Decimal!Chars) /\ m \in Nat /\ m + 1 \in 1..Len(b)
      /\ b[m + 1] = Decimal!Char /\ index + 1 \in 1..MaxLength + 1
  BY <1>1, AtCharacter
<1>3. PICK d \in 1..m :
        /\ b[d] = Decimal!Dot /\ Decimal!AreDigits(b, 1, d - 1) /\ Decimal!AreDigits(b, d + 1, m)
        /\ whole = Decimal!Value(b, 1, d - 1) /\ (hasWholeDigit <=> d > 1)
        /\ fractionDigits = m - d /\ fractionDigits <= Decimals
        /\ fraction = Decimal!Value(b, d + 1, m) * Decimal!Power(Decimals - fractionDigits)
        /\ Decimal!Value(b, d + 1, m) < Decimal!Power(fractionDigits)
  BY <1>1 DEF Decimal!IInv, Decimal!GatheredFraction
<1>4. CASE Decimal!TooPrecise
  <2>1. Decimal!Return(Decimal!Nullopt)
    BY <1>4 DEF Decimal!ReadFractionDigit
  <2>2. ASSUME Decimal!WellFormed(b) PROVE FALSE
    <3>1. d \in 1..Len(b) /\ b[d] \notin Digits
      BY <1>2, <1>3, Characters
    <3>2. d = Decimal!Point(b)
      BY <1>2, <2>2, <3>1, NumberChars
    <3>3. Len(b) - d <= Decimals
      BY <2>2, <3>2 DEF Decimal!WellFormed
    <3>4. m - d >= Decimals
      BY <1>3, <1>4 DEF Decimal!TooPrecise
    <3> QED BY <1>2, <3>1, <3>3, <3>4, Characters
  <2> QED BY <2>1, <2>2, Refused
<1>5. CASE ~ Decimal!TooPrecise
  <2>1. /\ fraction' = fraction + Decimal!Char * Decimal!PlaceValue
        /\ fractionScale' = fractionScale * 10 /\ fractionDigits' = fractionDigits + 1
        /\ index' = index + 1 /\ text' = text /\ parsePc' = "loop" /\ negative' = negative
        /\ whole' = whole /\ hasWholeDigit' = hasWholeDigit /\ decimalSeen' = decimalSeen
        /\ parsed' = parsed
    BY <1>1, <1>5 DEF Decimal!ReadFractionDigit
  <2> PICK f, v, c : f = fractionDigits /\ v = Decimal!Value(b, d + 1, m) /\ c = b[m + 1]
    OBVIOUS
  <2>2. f \in 0..Decimals - 1 /\ f = m - d /\ f \in Nat
    BY <1>3, <1>5, Characters DEF Decimal!TypeOK, Decimal!TooPrecise
  <2>3. Decimal!AreDigits(b, d + 1, m + 1)
    BY <1>1, <1>2, <1>3 DEF Decimal!AreDigits
  <2>4. v \in Nat /\ Decimal!Value(b, d + 1, m + 1) = 10 * v + c /\ c \in 0..9
    <3>1. /\ d + 1 \in 1..Len(b) + 1 /\ m \in (d + 1) - 1..Len(b) /\ m \in (d + 1) - 1..Len(b) - 1
          /\ m \in m..Len(b)
      BY <1>2
    <3>2. v \in Nat
      BY <1>2, <1>3, <3>1, ValueGrows
    <3>3. Decimal!Value(b, d + 1, m + 1) = 10 * v + c
      BY <1>2, <3>1, Codes, ValueStep
    <3> QED BY <1>1, <1>2, <3>2, <3>3, Characters
  <2>5. Decimal!Power(f) * Decimal!Power(Decimals - f) = Decimal!SCALE
    BY <1>1 DEF Decimal!IInv
  <2> PICK w : w = Decimal!Power(Decimals - (f + 1))
    OBVIOUS
  <2>6. /\ Decimal!Power(f + 1) * w = Decimal!SCALE /\ Decimal!SCALE \div Decimal!Power(f + 1) = w
        /\ v * Decimal!Power(Decimals - f) + c * w = (10 * v + c) * w
        /\ 10 * v + c < Decimal!Power(f + 1) /\ (10 * v + c) * w \in 0..Decimal!SCALE - 1
    BY <1>3, <2>2, <2>4, <2>5, FractionGrows
  <2>7. fraction' = (10 * v + c) * w
    <3>1. Decimal!PlaceValue = w
      BY <2>6 DEF Decimal!TypeOK, Decimal!PlaceValue
    <3>2. fraction = v * Decimal!Power(Decimals - f)
      BY <1>3
    <3> QED BY <1>2, <2>1, <2>6, <3>1, <3>2
  <2>8. Decimal!TypeOK'
    <3>1. fraction' \in 0..Decimal!SCALE - 1
      BY <2>6, <2>7
    <3>2. fractionDigits' \in 0..Decimals
      BY <2>1, <2>2, Characters
    <3>3. fractionScale' = Decimal!Power(fractionDigits' + 1)
      <4>1. Decimal!Power((f + 1) + 1) = 10 * Decimal!Power(f + 1) /\ Decimal!Power(f + 1) \in Nat
        BY <2>2, PowerStep
      <4>2. fractionScale = Decimal!Power(f + 1)
        BY DEF Decimal!TypeOK
      <4> QED BY <2>1, <4>1, <4>2
    <3> QED BY <1>2, <2>1, <3>1, <3>2, <3>3 DEF Decimal!TypeOK
  <2>9. Decimal!Body' = b /\ Decimal!Read' = m + 1
    BY <1>1, <1>2, <2>1, NextRead DEF Decimal!Body
  <2>10. Decimal!GatheredFraction(b, m + 1, d)'
    <3>1. f + 1 = (m + 1) - d /\ f + 1 <= Decimals
      BY <2>2, <1>2, Characters
    <3> QED BY <1>2, <1>3, <2>1, <2>3, <2>4, <2>6, <2>7, <3>1 DEF Decimal!GatheredFraction
  <2>11. /\ negative' <=> text[1] = Decimal!Minus
         /\ (Decimal!Power(fractionDigits) * Decimal!Power(Decimals - fractionDigits) = Decimal!SCALE)'
    BY <1>1, <2>1, <2>6 DEF Decimal!IInv
  <2>12. m + 1 \in 0..Len(b) /\ d \in 1..m + 1
    BY <1>2
  <2> QED BY <1>1, <1>2, <2>1, <2>8, <2>9, <2>10, <2>11, <2>12 DEF Decimal!IInv, Decimal!ParsesExactly
<1> QED BY <1>4, <1>5

LEMMA ParseEnds ==
  ASSUME Decimal!TypeOK, Decimal!IInv, Decimal!Finish
  PROVE  Decimal!TypeOK' /\ Decimal!IInv'
<1>1. /\ parsePc = "loop" /\ index > Len(text)
      /\ Decimal!Return(IF hasWholeDigit THEN Decimal!Signed(whole * Decimal!SCALE + fraction)
                        ELSE Decimal!Nullopt)
  BY DEF Decimal!Finish
<1>2. /\ parsePc' = "returned" /\ text' = text /\ index' = index /\ negative' = negative
      /\ UNCHANGED Decimal!number
      /\ parsed' = IF hasWholeDigit THEN Decimal!Signed(whole * Decimal!SCALE + fraction)
                   ELSE Decimal!Nullopt
  BY <1>1 DEF Decimal!Return
<1> PICK b : b = Decimal!Body
  OBVIOUS
<1>3. b \in Seq(Decimal!Chars) /\ Decimal!Read = Len(b) /\ Len(b) \in Nat
  <2>1. b \in Seq(Decimal!Chars) /\ Decimal!Read = Len(b)
    BY <1>1, AtCharacter
  <2> QED BY <2>1
<1>4. /\ Decimal!WellFormed(b) <=> hasWholeDigit
      /\ Decimal!WellFormed(b) => Decimal!Magnitude(b) = whole * Decimal!SCALE + fraction
  <2>1. CASE ~ decimalSeen
    <3>1. /\ Decimal!AreDigits(b, 1, Len(b)) /\ whole = Decimal!Value(b, 1, Len(b))
          /\ (hasWholeDigit <=> Len(b) > 0) /\ fraction = 0
      BY <1>1, <1>3, <2>1 DEF Decimal!IInv, Decimal!GatheredWhole
    <3>2. Decimal!Point(b) = Len(b) + 1
      <4>1. Len(b) \in 0..Len(b)
        BY <1>3
      <4>2. Decimal!Point(b) > Len(b) /\ Decimal!Point(b) \in 1..Len(b) + 1
        BY <1>3, <3>1, <4>1, PointBehind, PointExists
      <4> QED BY <1>3, <4>2
    <3>3. Decimal!WellFormed(b) <=> Len(b) > 0
      <4>1. (Len(b) + 1) - 1 = Len(b) /\ Len(b) - (Len(b) + 1) <= Decimals /\ (Len(b) + 1 > 1 <=> Len(b) > 0)
        BY <1>3, Characters
      <4>2. Decimal!AreDigits(b, (Len(b) + 1) + 1, Len(b))
        BY <1>3 DEF Decimal!AreDigits
      <4> QED BY <3>1, <3>2, <4>1, <4>2 DEF Decimal!WellFormed
    <3>4. Decimal!WellFormed(b) => Decimal!Magnitude(b) = whole * Decimal!SCALE
      <4>1. Decimal!Point(b) - 1 = Len(b) /\ Decimal!Point(b) > Len(b)
        BY <1>3, <3>2
      <4> QED BY <1>3, <3>1, <4>1, MagnitudeBounds
    <3>5. whole * Decimal!SCALE + 0 = whole * Decimal!SCALE
      <4>1. whole \in Int /\ Decimal!SCALE \in Int
        BY PowerStep, Characters DEF Decimal!TypeOK, Decimal!SCALE
      <4> QED BY <4>1
    <3> QED BY <3>1, <3>3, <3>4, <3>5
  <2>2. CASE decimalSeen
    <3>1. PICK d \in 1..Len(b) :
            /\ b[d] = Decimal!Dot /\ Decimal!AreDigits(b, 1, d - 1) /\ Decimal!AreDigits(b, d + 1, Len(b))
            /\ whole = Decimal!Value(b, 1, d - 1) /\ (hasWholeDigit <=> d > 1)
            /\ fractionDigits = Len(b) - d /\ fractionDigits <= Decimals
            /\ fraction = Decimal!Value(b, d + 1, Len(b)) * Decimal!Power(Decimals - fractionDigits)
            /\ Decimal!Value(b, d + 1, Len(b)) < Decimal!Power(fractionDigits)
      BY <1>1, <1>3, <2>2 DEF Decimal!IInv, Decimal!GatheredFraction
    <3>2. Decimal!Point(b) = d
      <4>1. d \in 1..Len(b) + 1 /\ \A j \in 1..d - 1 : b[j] # Decimal!Dot
        BY <1>3, <3>1, Characters DEF Decimal!AreDigits
      <4> QED BY <1>3, <3>1, <4>1, PointIs
    <3>3. Decimal!WellFormed(b) <=> hasWholeDigit
      BY <3>1, <3>2 DEF Decimal!WellFormed
    <3>4. ~ d > Len(b)
      BY <1>3
    <3>5. Decimal!Magnitude(b)
            = whole * Decimal!SCALE + (IF Len(b) - d = 0 THEN 0 ELSE fraction)
      BY <3>1, <3>2, <3>4 DEF Decimal!Magnitude
    <3>6. Len(b) - d = 0 => fraction = 0
      <4>1. SUFFICES ASSUME Len(b) - d = 0 PROVE fraction = 0
        OBVIOUS
      <4>2. d + 1 \in 1..Len(b) + 1 /\ Len(b) = (d + 1) - 1
        BY <1>3, <4>1
      <4>3. Decimal!Value(b, d + 1, Len(b)) = 0
        BY <1>3, <4>2, Codes, ValueStep
      <4>4. Decimals - fractionDigits \in Nat
        BY <3>1, <4>1, Characters
      <4>5. Decimal!Power(Decimals - fractionDigits) \in Nat
        BY <4>4, PowerStep
      <4> QED BY <3>1, <4>3, <4>5
    <3> QED BY <3>3, <3>5, <3>6
  <2> QED BY <2>1, <2>2
<1>5. parsed' = IF Decimal!WellFormed(b) /\ Decimal!Fits(Decimal!Denoted)
                THEN Decimal!Some(Decimal!Denoted) ELSE Decimal!Nullopt
  <2>1. negative <=> text[1] = Decimal!Minus
    BY <1>1 DEF Decimal!IInv
  <2>2. CASE ~ hasWholeDigit
    BY <1>2, <1>4, <2>2
  <2>3. CASE hasWholeDigit
    <3>1. Decimal!Denoted = IF negative THEN - (whole * Decimal!SCALE + fraction)
                            ELSE whole * Decimal!SCALE + fraction
      BY <1>4, <2>1, <2>3 DEF Decimal!Denoted
    <3> QED BY <1>2, <1>4, <2>3, <3>1 DEF Decimal!Signed
  <2> QED BY <2>2, <2>3
<1>6. Decimal!ParsesExactly'
  BY <1>2, <1>5, Answered
<1>7. parsed' \in [ok : BOOLEAN, raw : Decimal!MinInt..MaxInt]
  <2>1. 0 \in Decimal!MinInt..MaxInt
    BY Characters DEF Decimal!MinInt
  <2> QED BY <1>5, <2>1 DEF Decimal!Some, Decimal!Nullopt, Decimal!Fits
<1>8. Decimal!TypeOK'
  BY <1>2, <1>7 DEF Decimal!TypeOK, Decimal!number
<1> QED BY <1>2, <1>6, <1>8 DEF Decimal!IInv

LEMMA DecimalInit == Decimal!Init => Decimal!TypeOK /\ Decimal!IInv
<1> SUFFICES ASSUME Decimal!Init PROVE Decimal!TypeOK /\ Decimal!IInv
  OBVIOUS
<1>1. text \in Decimal!Texts /\ Decimal!Enter
  BY DEF Decimal!Init
<1>2. text \in Seq(Decimal!Chars) /\ Len(text) <= MaxLength
  <2>1. PICK n \in 0..MaxLength : text \in [1..n -> Decimal!Chars]
    BY <1>1 DEF Decimal!Texts, Decimal!BoundedSeq, Decimal!SeqOf
  <2> QED BY <2>1, Characters
<1>3. Decimal!SCALE \in Nat \ {0} /\ Decimal!MaximumWhole \in Nat
  <2>1. Decimal!SCALE \in Nat \ {0}
    BY PowerStep, Characters DEF Decimal!SCALE
  <2> QED BY <2>1, Characters DEF Decimal!MaximumWhole
<1>4. fractionScale = Decimal!Power(fractionDigits + 1)
  <2>1. Decimal!Power(0 + 1) = 10 * Decimal!Power(0) /\ Decimal!Power(0) = 1
    BY PowerStep
  <2> QED BY <1>1, <2>1 DEF Decimal!Enter
<1>5. parsed \in [ok : BOOLEAN, raw : Decimal!MinInt..MaxInt]
  <2>1. 0 \in Decimal!MinInt..MaxInt
    BY Characters DEF Decimal!MinInt
  <2> QED BY <1>1, <2>1 DEF Decimal!Enter, Decimal!Nullopt
<1>6. Decimal!TypeOK
  <2>1. /\ 1 \in 1..MaxLength + 1 /\ 0 \in 0..Decimal!MaximumWhole /\ 0 \in 0..Decimal!SCALE - 1
        /\ 0 \in 0..Decimals
    BY <1>3, Characters
  <2>2. /\ index \in 1..MaxLength + 1 /\ whole \in 0..Decimal!MaximumWhole
        /\ fraction \in 0..Decimal!SCALE - 1 /\ fractionDigits \in 0..Decimals
        /\ parsePc = "sign" /\ negative \in BOOLEAN /\ hasWholeDigit \in BOOLEAN
        /\ decimalSeen \in BOOLEAN
    BY <1>1, <2>1, Zenon DEF Decimal!Enter
  <2> QED BY <1>2, <1>4, <1>5, <2>2 DEF Decimal!TypeOK
<1>7. Decimal!IInv
  BY <1>1 DEF Decimal!Enter, Decimal!IInv, Decimal!ParsesExactly
<1> QED BY <1>6, <1>7

LEMMA DecimalNextInv ==
  ASSUME Decimal!TypeOK, Decimal!IInv, [Decimal!Next]_(Decimal!vars)
  PROVE  Decimal!TypeOK' /\ Decimal!IInv'
<1>1. CASE Decimal!RefuseEmpty \/ Decimal!RefuseCharacter
  BY <1>1, ParseRefuses
<1>2. CASE Decimal!ReadSign
  BY <1>2, ParseSign
<1>3. CASE Decimal!ReadPoint
  BY <1>3, ParsePoint
<1>4. CASE Decimal!ReadWholeDigit
  BY <1>4, ParseWholeDigit
<1>5. CASE Decimal!ReadFractionDigit
  BY <1>5, ParseFractionDigit
<1>6. CASE Decimal!Finish
  BY <1>6, ParseEnds
<1>7. CASE UNCHANGED Decimal!vars
  <2>1. /\ text' = text /\ parsePc' = parsePc /\ index' = index /\ negative' = negative
        /\ whole' = whole /\ fraction' = fraction /\ fractionScale' = fractionScale
        /\ hasWholeDigit' = hasWholeDigit /\ decimalSeen' = decimalSeen
        /\ fractionDigits' = fractionDigits /\ parsed' = parsed
    BY <1>7 DEF Decimal!vars, Decimal!number
  <2>2. Decimal!Body' = Decimal!Body /\ Decimal!Read' = Decimal!Read
    BY <2>1 DEF Decimal!Body, Decimal!Read
  <2>3. Decimal!Denoted' = Decimal!Denoted /\ Decimal!Whole' = Decimal!Whole
    BY <2>1, <2>2 DEF Decimal!Denoted, Decimal!Whole
  <2>4. Decimal!TypeOK'
    BY <2>1 DEF Decimal!TypeOK
  <2>5. Decimal!ParsesExactly'
    BY <2>1, <2>2, <2>3 DEF Decimal!IInv, Decimal!ParsesExactly
  <2>6. Decimal!IInv'
    BY <2>1, <2>2, <2>5 DEF Decimal!IInv, Decimal!GatheredWhole, Decimal!GatheredFraction
  <2> QED BY <2>4, <2>6
<1> QED BY <1>1, <1>2, <1>3, <1>4, <1>5, <1>6, <1>7 DEF Decimal!Next

LEMMA DecimalAlone == Spec => Decimal!Spec
<1>1. Init => Decimal!Init
  <2> SUFFICES ASSUME Init PROVE Decimal!Init
    OBVIOUS
  <2>1. text \in Choice("decimal", Decimal!Texts) /\ Decimal!Enter
    BY DEF Init, Inputs
  <2>2. Decimal!Texts # {}
    <3>1. 0 \in 0..MaxLength
      BY Characters
    <3>2. << >> \in [1..0 -> Decimal!Chars]
      OBVIOUS
    <3> QED BY <3>1, <3>2 DEF Decimal!Texts, Decimal!BoundedSeq, Decimal!SeqOf
  <2>3. text \in Decimal!Texts
    BY <2>1, <2>2 DEF Choice
  <2> QED BY <2>1, <2>3 DEF Decimal!Init
<1>2. [Next]_vars => [Decimal!Next]_(Decimal!vars)
  BY DEF Next, AccountStep, SessionStep, ListingStep, KeyListStep, HistoryStep, ProcessStep,
     DecimalStep, CheckStep, ClientStep, vars, riskVars, decimalVars, Decimal!vars, Decimal!number
<1> QED BY <1>1, <1>2, PTL DEF Spec, Decimal!Spec

\* parse returns exactly the number a text denotes, and takes every number that an
\* int64 holds, for any text, any number of decimals and any width of the integer.
THEOREM Parses == Spec => []ParsesExactly
<1>1. Decimal!IInv => ParsesExactly
  BY DEF Decimal!IInv, ParsesExactly
<1>2. Decimal!TypeOK /\ Decimal!IInv /\ [Decimal!Next]_(Decimal!vars)
        => (Decimal!TypeOK /\ Decimal!IInv)'
  BY DecimalNextInv
<1> QED BY <1>1, <1>2, DecimalInit, DecimalAlone, PTL DEF Decimal!Spec
=============================================================================
