------------------------------- MODULE PreTrade -------------------------------
(***************************************************************************)
(* One call of RiskService: CheckPreTrade, or GetRiskProfile, from the       *)
(* request on the wire to the response, its client cancelling at any moment. *)
(* The pipeline of checks is not part of the sources; it returns any         *)
(* RiskResult or throws.                                                     *)
(***************************************************************************)
EXTENDS Integers, Sequences

\* enum class RiskRejectReason and the enum of risk.proto, by value from 0.
DomainReasons == <<"NONE", "INSUFFICIENT_BALANCE", "POSITION_LIMIT_EXCEEDED",
  "ORDER_SIZE_TOO_SMALL", "ORDER_SIZE_TOO_LARGE", "PRICE_OUT_OF_BAND", "RATE_LIMIT_EXCEEDED",
  "WALLET_SERVICE_UNAVAILABLE", "PRICE_UNAVAILABLE", "POSITION_UNAVAILABLE",
  "RISK_SERVICE_UNAVAILABLE">>

\* Mutant: the proto's enum without WALLET_SERVICE_UNAVAILABLE.
ProtoReasonsOlder == <<"UNSPECIFIED">> \o SubSeq(DomainReasons, 2, 7)
                       \o SubSeq(DomainReasons, 9, 11) \o <<"UNKNOWN">>

ProtoReasons == [DomainReasons EXCEPT ![1] = "UNSPECIFIED"]

Reasons == {DomainReasons[i] : i \in DOMAIN DomainReasons}

\* Wire values of OrderSide and OrderType: 0 is UNSPECIFIED, 1 BUY or MARKET,
\* 2 SELL or LIMIT, 3 stands for a value a newer client may send.
Wire == 0..3

\* A request: which strings are not empty, and the enum values.
Request == [requestId : BOOLEAN, userId : BOOLEAN, symbol : BOOLEAN, side : Wire, type : Wire,
            price : BOOLEAN, quantity : BOOLEAN]

\* A request of GetRiskProfile, and its response: whether it has the limits.
ProfileRequest  == [userId : BOOLEAN]
ProfileResponse == [userId : BOOLEAN, limits : BOOLEAN]

Calls == Request \cup ProfileRequest

\* What the pipeline did with the order, and what the client is sent.
Verdict  == [kind : {"none", "pass", "reject", "throw"}, reason : Reasons]
Response == [passed : BOOLEAN, reason : Reasons \cup {"UNSPECIFIED"},
             failedCheck : {"", "request_validation", "risk_service", "check"},
             requestId : BOOLEAN]

VARIABLES request, cancelled, pc, verdict, response, status
vars == <<request, cancelled, pc, verdict, response, status>>

NoVerdict   == [kind |-> "none", reason |-> "NONE"]
NoProfile   == [userId |-> FALSE, limits |-> FALSE]
NewResponse == [passed |-> FALSE, reason |-> "UNSPECIFIED", failedCheck |-> "", requestId |-> FALSE]

Start(call) ==
  /\ request = call
  /\ cancelled = FALSE
  /\ pc = IF call \in Request THEN "received" ELSE "profile"
  /\ verdict = NoVerdict
  /\ response = IF call \in Request THEN NewResponse ELSE NoProfile
  /\ status = "none"

Init == \E call \in Calls : Start(call)

\* The client gives up, or the server's grace period ends.
Cancel ==
  /\ pc # "returned" /\ ~ cancelled
  /\ cancelled' = TRUE
  /\ UNCHANGED <<request, pc, verdict, response, status>>

Return(code, r) ==
  /\ pc' = "returned"
  /\ status' = code
  /\ response' = r
  /\ UNCHANGED <<request, cancelled>>

\* validatePreTradeRequest.
Valid(q) ==
  /\ q.requestId /\ q.userId /\ q.symbol
  /\ q.side # 0 /\ q.type # 0
  /\ q.quantity
  /\ q.type = 2 => q.price

\* toDomainOrderSide and toDomainOrderType do not throw.
Convertible(q) == q.side \in {1, 2} /\ q.type \in {1, 2}

\* IsCancelled is looked at once, before the validation.
RefuseCancelled ==
  /\ pc = "received" /\ cancelled
  /\ Return("CANCELLED", NewResponse)
  /\ UNCHANGED verdict

RefuseInvalid ==
  /\ pc = "received" /\ ~ cancelled /\ ~ Valid(request)
  /\ Return("INVALID_ARGUMENT", [NewResponse EXCEPT !.failedCheck = "request_validation",
                                                    !.requestId = request.requestId])
  /\ UNCHANGED verdict

\* Both catch blocks.
Unavailable == [NewResponse EXCEPT !.reason = "RISK_SERVICE_UNAVAILABLE",
                                   !.failedCheck = "risk_service", !.requestId = request.requestId]

\* toDomainOrder throws on an enum value it does not know.
RefuseUnknownEnum ==
  /\ pc = "received" /\ ~ cancelled /\ Valid(request) /\ ~ Convertible(request)
  /\ Return("INTERNAL", Unavailable)
  /\ UNCHANGED verdict

\* The order goes to the pipeline.
Accept ==
  /\ pc = "received" /\ ~ cancelled /\ Valid(request) /\ Convertible(request)
  /\ pc' = "evaluating"
  /\ UNCHANGED <<request, cancelled, verdict, response, status>>

\* riskCheckPipeline.evaluate returns RiskResult::pass, RiskResult::reject, or throws.
Evaluate ==
  /\ pc = "evaluating" /\ verdict = NoVerdict
  /\ \/ verdict' = [kind |-> "pass", reason |-> "NONE"]
     \/ verdict' = [kind |-> "throw", reason |-> "NONE"]
     \/ \E reason \in Reasons \ {"NONE"} : verdict' = [kind |-> "reject", reason |-> reason]
  /\ UNCHANGED <<request, cancelled, pc, response, status>>

\* static_cast of the enum through int.
Cast(reason) == ProtoReasons[CHOOSE i \in DOMAIN DomainReasons : DomainReasons[i] = reason]

\* writeRiskResult.
Answer ==
  /\ pc = "evaluating" /\ verdict.kind \in {"pass", "reject"}
  /\ Return("OK", [passed |-> verdict.kind = "pass", reason |-> Cast(verdict.reason),
                   failedCheck |-> "check", requestId |-> request.requestId])
  /\ UNCHANGED verdict

AnswerFailure ==
  /\ pc = "evaluating" /\ verdict.kind = "throw"
  /\ Return("INTERNAL", Unavailable)
  /\ UNCHANGED verdict

\* GetRiskProfile: the limits of the configuration, the same for every user.
GetRiskProfile ==
  /\ pc = "profile"
  /\ IF cancelled THEN Return("CANCELLED", NoProfile)
     ELSE IF ~ request.userId THEN Return("INVALID_ARGUMENT", NoProfile)
     ELSE Return("OK", [userId |-> TRUE, limits |-> TRUE])
  /\ UNCHANGED verdict

Next ==
  \/ Cancel \/ RefuseCancelled \/ RefuseInvalid \/ RefuseUnknownEnum
  \/ Accept \/ Evaluate \/ Answer \/ AnswerFailure \/ GetRiskProfile

Spec == Init /\ [][Next]_vars
-----------------------------------------------------------------------------
(* Properties. *)

\* Every variable has its type.
TypeOK ==
  /\ request \in Calls /\ cancelled \in BOOLEAN
  /\ pc \in {"received", "profile", "evaluating", "returned"}
  /\ verdict \in Verdict /\ response \in Response \cup ProfileResponse
  /\ status \in {"none", "OK", "CANCELLED", "INVALID_ARGUMENT", "INTERNAL"}

\* A complete order: a limit order has a price, side and type have a case.
Complete(q) ==
  /\ q.requestId /\ q.userId /\ q.symbol /\ q.quantity
  /\ q.side \in {1, 2}
  /\ q.type = 1 \/ (q.type = 2 /\ q.price)

\* The client reads what the pipeline decided about a complete order: passed is
\* a pass and nothing else, exceptions, bad requests and late cancellations
\* included, and the reason is the one the check gave, name by name, though two
\* enums of two files are cast into each other by value.
AnswersTellVerdict == pc = "returned" /\ request \in Request =>
  /\ response.passed <=> verdict.kind = "pass"
  /\ verdict.kind # "none" => Complete(request)
  /\ status = "OK" =>
       response.reason = IF verdict.kind = "pass" THEN "UNSPECIFIED" ELSE verdict.reason

\* The call is where its request is: an order is evaluated when it is complete, and
\* has a verdict from then on.
CallInv ==
  /\ pc \in {"received", "evaluating"} => request \in Request
  /\ pc = "profile" => request \in ProfileRequest
  /\ pc \in {"received", "profile"} => verdict = NoVerdict
  /\ pc = "evaluating" => Complete(request)
  /\ verdict.kind = "reject" <=> verdict.reason # "NONE"

\* What the proofs show inductive.
IInv == TypeOK /\ CallInv /\ AnswersTellVerdict
=============================================================================
