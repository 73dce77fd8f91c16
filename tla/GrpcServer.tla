------------------------------ MODULE GrpcServer ------------------------------
(***************************************************************************)
(* The life of the risk service's gRPC server: one thread starts it, may    *)
(* wait for its end and destroys it, other threads (a signal handler's)     *)
(* call shutdown, and RPCs execute meanwhile.  A step is what a thread does *)
(* between two reads or writes of server_ and running_, which no lock       *)
(* protects together.  The destructor is a call of shutdown by the owner,   *)
(* after which the members are freed whatever the other threads do: one     *)
(* that goes on to use them makes the behaviour undefined, and the model    *)
(* ends there.                                                              *)
(***************************************************************************)
EXTENDS Integers, FiniteSets

CONSTANTS Owner,       \* the thread that owns the GrpcServer
          Stoppers,    \* threads that call shutdown, while start still runs too
          Rpcs         \* calls of CheckPreTrade or GetRiskProfile

ASSUME GrpcServerConstants == IsFiniteSet(Stoppers) /\ IsFiniteSet(Rpcs) /\ Owner \notin Stoppers

Threads == Stoppers \cup {Owner}

VARIABLES server,    \* the grpc::Server behind server_, "none" for a null pointer
          running,   \* running_
          owner,     \* where the owner is
          stopper,   \* where each thread is in shutdown
          rpc        \* where each call is

vars == <<server, running, owner, stopper, rpc>>

Init ==
  /\ server = "none"
  /\ running = FALSE
  /\ owner = "new"
  /\ stopper = [t \in Threads |-> "idle"]
  /\ rpc = [c \in Rpcs |-> "none"]

Executing == {c \in Rpcs : rpc[c] \in {"executing", "cancelled"}}

\* The members of the GrpcServer exist.
Alive == owner \notin {"freeing", "destroyed", "undefined"}
-----------------------------------------------------------------------------
(* The owner: start, wait and the destructor. *)

\* start: running_ is false; BuildAndStart stores a server or a null pointer,
\* and a null pointer is an exception.
Build ==
  /\ owner = "new" /\ ~ running
  /\ \/ server' = "serving" /\ owner' = "built"
     \/ server' = "none" /\ owner' = "failed"
  /\ UNCHANGED <<running, stopper, rpc>>

\* The end of start.
MarkRunning ==
  /\ owner = "built"
  /\ running' = TRUE
  /\ owner' = "started"
  /\ UNCHANGED <<server, stopper, rpc>>

\* wait is called; server_ is not null.
CallWait ==
  /\ owner = "started"
  /\ owner' = "waiting"
  /\ UNCHANGED <<server, running, stopper, rpc>>

\* server_->Wait() returns once the server has shut down.
Waited ==
  /\ owner = "waiting" /\ server = "stopped"
  /\ running' = FALSE
  /\ owner' = "waited"
  /\ UNCHANGED <<server, stopper, rpc>>

\* ~GrpcServer, with or without a wait before it, calls shutdown.
Destroy ==
  /\ owner \in {"failed", "started", "waited"}
  /\ owner' = "destroying"
  /\ stopper' = [stopper EXCEPT ![Owner] = IF server = "none" THEN "returned" ELSE "entered"]
  /\ UNCHANGED <<server, running, rpc>>

\* Its shutdown has returned and the members are destroyed.  grpc::Server's
\* destructor shuts a server down that nobody has, and waits for its handlers;
\* for one that another thread is shutting down it does not wait.
Free ==
  /\ owner = "destroying" /\ stopper[Owner] = "returned"
  /\ IF server = "serving" THEN server' = "draining" /\ owner' = "freeing"
                           ELSE owner' = "destroyed" /\ UNCHANGED server
  /\ UNCHANGED <<running, stopper, rpc>>

Freed ==
  /\ owner = "freeing" /\ Executing = {}
  /\ server' = "stopped" /\ owner' = "destroyed"
  /\ UNCHANGED <<running, stopper, rpc>>

\* A thread in shutdown, or a handler, goes on with a member that is gone.
UseFreed ==
  /\ \/ owner \in {"freeing", "destroyed"} /\ \E t \in Stoppers : stopper[t] \notin {"idle", "returned"}
     \/ owner = "destroyed" /\ Executing # {}
  /\ owner' = "undefined"
  /\ UNCHANGED <<server, running, stopper, rpc>>
-----------------------------------------------------------------------------
(* A thread in shutdown. *)

\* shutdown is called; server_ is looked at.
Enter(t) ==
  /\ t \in Stoppers /\ stopper[t] = "idle" /\ Alive /\ owner # "failed"
  /\ stopper' = [stopper EXCEPT ![t] = IF server = "none" THEN "returned" ELSE "entered"]
  /\ UNCHANGED <<server, running, owner, rpc>>

\* Mutant: running_ is left alone until the server is down.
ClaimLate(t) ==
  /\ stopper[t] = "entered" /\ Alive
  /\ stopper' = [stopper EXCEPT ![t] = IF running THEN "claimed" ELSE "returned"]
  /\ UNCHANGED <<server, running, owner, rpc>>

\* Mutant: expected starts as false.
ClaimInverted(t) ==
  /\ stopper[t] = "entered" /\ Alive
  /\ stopper' = [stopper EXCEPT ![t] = IF running THEN "returned" ELSE "claimed"]
  /\ UNCHANGED <<server, running, owner, rpc>>

\* compare_exchange_strong: one thread only goes on.
Claim(t) ==
  /\ stopper[t] = "entered" /\ Alive
  /\ stopper' = [stopper EXCEPT ![t] = IF running THEN "claimed" ELSE "returned"]
  /\ running' = FALSE
  /\ UNCHANGED <<server, owner, rpc>>

\* server_->Shutdown(deadline): no new calls from here on.
Drain(t) ==
  /\ stopper[t] = "claimed" /\ Alive
  /\ server' = "draining"
  /\ stopper' = [stopper EXCEPT ![t] = "draining"]
  /\ UNCHANGED <<running, owner, rpc>>

\* The deadline passes: the contexts of executing calls are cancelled, their
\* handlers run on.
GraceEnds(t) ==
  /\ stopper[t] = "draining" /\ Alive /\ \E c \in Rpcs : rpc[c] = "executing"
  /\ rpc' = [c \in Rpcs |-> IF rpc[c] = "executing" THEN "cancelled" ELSE rpc[c]]
  /\ UNCHANGED <<server, running, owner, stopper>>

\* Mutant: Shutdown does not wait for the handlers.
DrainedAtOnce(t) ==
  /\ stopper[t] = "draining" /\ Alive
  /\ server' = "stopped"
  /\ stopper' = [stopper EXCEPT ![t] = "returned"]
  /\ UNCHANGED <<running, owner, rpc>>

\* Shutdown returns when no handler executes any more.
Drained(t) ==
  /\ stopper[t] = "draining" /\ Alive /\ Executing = {}
  /\ server' = "stopped"
  /\ stopper' = [stopper EXCEPT ![t] = "returned"]
  /\ UNCHANGED <<running, owner, rpc>>
-----------------------------------------------------------------------------
(* Calls. *)

Arrive(c) ==
  /\ rpc[c] = "none" /\ server # "none" /\ owner \notin {"destroyed", "undefined"}
  /\ rpc' = [rpc EXCEPT ![c] = IF server = "serving" THEN "executing" ELSE "refused"]
  /\ UNCHANGED <<server, running, owner, stopper>>

\* The handler returns; the client of a cancelled call does not get the answer.
Finish(c) ==
  /\ c \in Executing /\ owner \notin {"destroyed", "undefined"}
  /\ rpc' = [rpc EXCEPT ![c] = IF @ = "executing" THEN "answered" ELSE "aborted"]
  /\ UNCHANGED <<server, running, owner, stopper>>

Stop(t) == Claim(t) \/ Drain(t) \/ Drained(t)

Next ==
  \/ Build \/ MarkRunning \/ CallWait \/ Waited \/ Destroy \/ Free \/ Freed \/ UseFreed
  \/ \E t \in Threads : Enter(t) \/ Stop(t) \/ GraceEnds(t)
  \/ \E c \in Rpcs : Arrive(c) \/ Finish(c)

Spec == Init /\ [][Next]_vars

\* Threads go on once they are in a call, a destructor that has begun too, and
\* handlers return.
FairSpec ==
  /\ Spec /\ WF_vars(MarkRunning) /\ WF_vars(Waited) /\ WF_vars(Free \/ Freed \/ UseFreed)
  /\ \A t \in Threads : WF_vars(Stop(t))
  /\ \A c \in Rpcs : WF_vars(Finish(c))
-----------------------------------------------------------------------------
(* Properties. *)

\* Every variable has its type.
TypeOK ==
  /\ server \in {"none", "serving", "draining", "stopped"}
  /\ running \in BOOLEAN
  /\ owner \in {"new", "built", "started", "failed", "waiting", "waited", "destroying",
               "freeing", "destroyed", "undefined"}
  /\ stopper \in [Threads -> {"idle", "entered", "claimed", "draining", "returned"}]
  /\ rpc \in [Rpcs -> {"none", "executing", "cancelled", "answered", "aborted", "refused"}]

\* isRunning is true only while calls are accepted.
RunningMeansServing == running => server = "serving"

\* When wait has returned no handler executes; and one that executes when the
\* GrpcServer is destroyed, with the service it belongs to, is left over by nothing
\* but another thread's shutdown, which the destructor neither joins nor waits for.
NoHandlerOutlivesServer ==
  /\ owner = "waited" => Executing = {}
  /\ owner = "destroyed" /\ Executing # {} => \E t \in Stoppers : stopper[t] = "draining"

\* "Give currently executing RPCs a small grace period." (grpc_server.cpp:100): a
\* server that is being shut down is not destroyed before they have ended.
GraceGranted == owner = "destroyed" => Executing = {}

\* Once a call of shutdown is under way while running_ is set, the server comes
\* down and wait returns, whichever of several calls, the destructor's among them,
\* wins the exchange.
ShutdownStops == \A t \in Threads :
  stopper[t] = "entered" /\ running ~> (server = "stopped" /\ owner # "waiting") \/ owner = "undefined"

\* "Gracefully shuts down the server." (grpc_server.hpp:35): every call of
\* shutdown that finds a server brings it down.
EveryShutdownStops == \A t \in Threads :
  stopper[t] = "entered" ~> server = "stopped" \/ owner = "undefined"
-----------------------------------------------------------------------------
(* The inductive invariant of GrpcServerProofs. *)

Stopping == {t \in Threads : stopper[t] \in {"claimed", "draining"}}

\* Where the owner is tells what the server is; running_ is set only between
\* the end of start and the one exchange that clears it, and the thread that
\* won it, no other, takes the server through draining; a server that is
\* stopped, or was never built, has no handlers.
IInv ==
  /\ owner \in {"new", "failed"} => server = "none"
  /\ owner = "built" => server = "serving"
  /\ owner = "waited" => server = "stopped"
  /\ owner = "freeing" => \A t \in Threads : stopper[t] # "draining"
  /\ stopper[Owner] # "idle" => owner \in {"destroying", "freeing", "destroyed", "undefined"}
  /\ owner \in {"freeing", "destroyed"} => stopper[Owner] = "returned"
  /\ owner = "destroyed" =>
       server \in {"none", "stopped"} \/ \E t \in Threads : stopper[t] = "draining"
  /\ running => /\ owner \in {"started", "waiting", "destroying"}
                /\ server = "serving" /\ Stopping = {}
                /\ owner = "destroying" => stopper[Owner] = "entered"
  /\ server = "draining" => owner \in {"freeing", "undefined"} \/ \E t \in Threads : stopper[t] = "draining"
  /\ \A t \in Threads : stopper[t] = "claimed" /\ Alive =>
       server = "serving" /\ owner \in {"started", "waiting", "destroying"}
  /\ \A t \in Threads : stopper[t] = "draining" => server = "draining"
  /\ \A t, u \in Stopping : t = u
  /\ server \in {"none", "stopped"} => Executing = {}
=============================================================================
