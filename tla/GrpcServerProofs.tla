-------------------------- MODULE GrpcServerProofs --------------------------
(***************************************************************************)
(* Theorems about GrpcServer for any number of threads that call shutdown   *)
(* and any number of calls: one of the threads at most takes the server     *)
(* down, and wait returns after the last handler; the destructor may not.   *)
(***************************************************************************)
EXTENDS GrpcServer, TLAPS

\* A step of the owner.
Owns == Build \/ MarkRunning \/ CallWait \/ Waited \/ Destroy \/ Free \/ Freed \/ UseFreed

LEMMA InitInv == Init => TypeOK /\ IInv
BY GrpcServerConstants DEF Init, TypeOK, IInv, Stopping, Executing, Threads, Alive

\* Every action keeps the types.
LEMMA StepType ==
  ASSUME TypeOK, [Next]_vars
  PROVE  TypeOK'
<1>1. CASE Owns
  BY <1>1 DEF TypeOK, Owns, Build, MarkRunning, CallWait, Waited, Destroy, Free, Freed, UseFreed
<1>2. ASSUME NEW t \in Threads, Enter(t) \/ Stop(t) \/ GraceEnds(t)
      PROVE  TypeOK'
  BY <1>2 DEF TypeOK, Enter, Stop, Claim, Drain, Drained, GraceEnds
<1>3. ASSUME NEW c \in Rpcs, Arrive(c) \/ Finish(c)
      PROVE  TypeOK'
  BY <1>3 DEF TypeOK, Arrive, Finish, Executing
<1>4. CASE UNCHANGED vars
  BY <1>4 DEF TypeOK, vars
<1> QED BY <1>1, <1>2, <1>3, <1>4 DEF Next, Owns

\* The owner's steps: start, wait and the destructor, up to the freeing.
LEMMA OwnerInv ==
  ASSUME TypeOK, IInv, Owns
  PROVE  IInv'
<1>1. CASE Build
  BY <1>1, GrpcServerConstants DEF TypeOK, IInv, Build, Stopping, Executing, Threads, Alive
<1>2. CASE MarkRunning
  BY <1>2, GrpcServerConstants DEF TypeOK, IInv, MarkRunning, Stopping, Executing, Threads, Alive
<1>3. CASE CallWait
  BY <1>3, GrpcServerConstants DEF TypeOK, IInv, CallWait, Stopping, Executing, Threads, Alive
<1>4. CASE Waited
  BY <1>4, GrpcServerConstants DEF TypeOK, IInv, Waited, Stopping, Executing, Threads, Alive
<1>5. CASE Destroy
  BY <1>5, GrpcServerConstants DEF TypeOK, IInv, Destroy, Stopping, Executing, Threads, Alive
<1>6. CASE Free
  BY <1>6, GrpcServerConstants DEF TypeOK, IInv, Free, Stopping, Executing, Threads, Alive
<1>7. CASE Freed
  BY <1>7, GrpcServerConstants DEF TypeOK, IInv, Freed, Stopping, Executing, Threads, Alive
<1>8. CASE UseFreed
  BY <1>8, GrpcServerConstants DEF TypeOK, IInv, UseFreed, Stopping, Executing, Threads, Alive
<1> QED BY <1>1, <1>2, <1>3, <1>4, <1>5, <1>6, <1>7, <1>8 DEF Owns

\* The steps of a thread in shutdown.
LEMMA StopperInv ==
  ASSUME TypeOK, IInv, NEW t \in Threads, Enter(t) \/ Stop(t) \/ GraceEnds(t)
  PROVE  IInv'
<1>1. CASE Enter(t)
  BY <1>1, GrpcServerConstants DEF TypeOK, IInv, Enter, Stopping, Executing, Threads, Alive
<1>2. CASE Claim(t)
  BY <1>2 DEF TypeOK, IInv, Claim, Stopping, Executing, Threads, Alive
<1>3. CASE Drain(t)
  BY <1>3 DEF TypeOK, IInv, Drain, Stopping, Executing, Threads, Alive
<1>4. CASE GraceEnds(t)
  BY <1>4 DEF TypeOK, IInv, GraceEnds, Stopping, Executing, Threads, Alive
<1>5. CASE Drained(t)
  BY <1>5 DEF TypeOK, IInv, Drained, Stopping, Executing, Threads, Alive
<1> QED BY <1>1, <1>2, <1>3, <1>4, <1>5 DEF Stop

\* The steps of a call.
LEMMA RpcInv ==
  ASSUME TypeOK, IInv, NEW c \in Rpcs, Arrive(c) \/ Finish(c)
  PROVE  IInv'
<1>1. CASE Arrive(c)
  BY <1>1 DEF TypeOK, IInv, Arrive, Stopping, Executing, Threads, Alive
<1>2. CASE Finish(c)
  BY <1>2 DEF TypeOK, IInv, Finish, Stopping, Executing, Threads, Alive
<1> QED BY <1>1, <1>2

\* Every variable has its type and the inductive invariant holds: the owner, the
\* server, running_ and the threads in shutdown agree in every reachable state.
THEOREM Invariance == Spec => [](TypeOK /\ IInv)
<1>1. TypeOK /\ IInv /\ [Next]_vars => (TypeOK /\ IInv)'
  <2> SUFFICES ASSUME TypeOK, IInv, [Next]_vars PROVE IInv'
    BY StepType
  <2>1. CASE UNCHANGED vars
    BY <2>1 DEF IInv, Stopping, Executing, Threads, Alive, vars
  <2> QED BY <2>1, OwnerInv, StopperInv, RpcInv DEF Next, Owns
<1> QED BY InitInv, <1>1, PTL DEF Spec

\* isRunning never tells of a server that does not accept calls, whichever
\* threads race in shutdown.
THEOREM RunningServes == Spec => []RunningMeansServing
<1>1. IInv => RunningMeansServing
  BY DEF IInv, RunningMeansServing
<1> QED BY Invariance, <1>1, PTL

\* When wait has returned no handler executes any more; and where the destructor
\* frees the service under one that does, another thread had won the exchange of
\* shutdown and is still waiting for the handlers.
THEOREM HandlersFinish == Spec => []NoHandlerOutlivesServer
<1>1. TypeOK /\ IInv => NoHandlerOutlivesServer
  BY DEF TypeOK, IInv, NoHandlerOutlivesServer, Threads
<1> QED BY Invariance, <1>1, PTL
=============================================================================
