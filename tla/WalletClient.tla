----------------------------- MODULE WalletClient -----------------------------
(***************************************************************************)
(* WalletClient::getBalance of the risk service: one gRPC call to the wallet *)
(* service with a deadline.  The wallet service's gRPC server is not part of *)
(* the sources: any reply may come at any time, or none.                     *)
(***************************************************************************)
EXTENDS Integers

CONSTANTS TimeoutMs,  \* timeoutMs_
          MaxTime     \* bound: the last value of the clock

\* What a module that instantiates this one assumes of the constants.
WalletClientConstants ==
  /\ TimeoutMs \in Nat \ {0}  \* the constructor throws otherwise
  /\ MaxTime \in Nat

\* How a string of the reply relates to the argument it should echo.
Echo  == {"empty", "asked", "other"}
Codes == {"OK", "NOT_FOUND", "INVALID_ARGUMENT", "DEADLINE_EXCEEDED", "UNAVAILABLE", "CANCELLED",
          "INTERNAL"}
Reply == [code : Codes, userId : Echo, currency : Echo, balance : {"empty", "value"}]

\* WalletClientStatus.
Statuses == {"OK", "NOT_FOUND", "INVALID_ARGUMENT", "DEADLINE_EXCEEDED", "UNAVAILABLE",
             "INTERNAL_ERROR"}

VARIABLES clock, pc, deadline, reply, result
vars == <<clock, pc, deadline, reply, result>>

NoReply == [code |-> "INTERNAL", userId |-> "empty", currency |-> "empty", balance |-> "empty"]

Init ==
  /\ clock = 0 /\ deadline = 0
  /\ pc = "idle"
  /\ reply = NoReply
  /\ result = [status |-> "INTERNAL_ERROR", balance |-> "none"]

Tick ==
  /\ clock < MaxTime
  /\ pc = "waiting" => clock < deadline
  /\ clock' = clock + 1
  /\ UNCHANGED <<pc, deadline, reply, result>>

\* validateRequest throws on an empty user or currency; otherwise the call goes
\* out with its deadline.
Ask ==
  /\ pc = "idle"
  /\ \/ pc' = "thrown" /\ UNCHANGED deadline
     \/ clock + TimeoutMs <= MaxTime /\ pc' = "waiting" /\ deadline' = clock + TimeoutMs
  /\ UNCHANGED <<clock, reply, result>>

\* A reply, or an error of the transport, before the deadline.
Receive ==
  /\ pc = "waiting"
  /\ reply' \in Reply
  /\ pc' = "received"
  /\ UNCHANGED <<clock, deadline, result>>

\* The deadline: the call ends without a reply.
Expire ==
  /\ pc = "waiting" /\ clock = deadline
  /\ reply' = [NoReply EXCEPT !.code = "DEADLINE_EXCEEDED"]
  /\ pc' = "received"
  /\ UNCHANGED <<clock, deadline, result>>

\* mapGrpcError.
MapGrpcError(code) ==
  IF code \in {"NOT_FOUND", "INVALID_ARGUMENT", "DEADLINE_EXCEEDED", "UNAVAILABLE"}
  THEN code ELSE "INTERNAL_ERROR"

\* Mutant: only empty answers are refused.
NotEmpty(r) == r.userId # "empty" /\ r.currency # "empty" /\ r.balance # "empty"

\* The defensive checks on the reply.
Acceptable(r) ==
  /\ r.userId # "empty" /\ r.currency # "empty" /\ r.balance # "empty"
  /\ r.userId = "asked" /\ r.currency = "asked"

\* getBalance returns.
Return ==
  /\ pc = "received"
  /\ result' =
       IF reply.code # "OK" THEN [status |-> MapGrpcError(reply.code), balance |-> "none"]
       ELSE IF ~ Acceptable(reply) THEN [status |-> "INTERNAL_ERROR", balance |-> "none"]
       ELSE [status |-> "OK", balance |-> reply.balance]
  /\ pc' = "returned"
  /\ UNCHANGED <<clock, deadline, reply>>

Next == Tick \/ Ask \/ Receive \/ Expire \/ Return

Spec == Init /\ [][Next]_vars
-----------------------------------------------------------------------------
(* Properties. *)

\* Every variable has its type.
TypeOK ==
  /\ clock \in 0..MaxTime /\ deadline \in Nat
  /\ pc \in {"idle", "thrown", "waiting", "received", "returned"}
  /\ reply \in Reply
  /\ result \in [status : Statuses, balance : {"none", "empty", "value"}]

\* A balance is returned as OK exactly when the wallet service sent one, for
\* the user and the currency asked for, and nothing else carries a balance.
OkMeansAsked == pc = "returned" =>
  /\ result.status = "OK" <=>
       reply = [code |-> "OK", userId |-> "asked", currency |-> "asked", balance |-> "value"]
  /\ result.balance = "value" <=> result.status = "OK"

\* What the proofs show inductive.
IInv == TypeOK /\ OkMeansAsked
=============================================================================
