------------------------------- MODULE MCParts -------------------------------
(***************************************************************************)
(* The parts of the three services that share no state with another part:   *)
(* seeding and accounts, sessions and their list, the list of API keys, the  *)
(* transaction list, the start, publishes and stop of a Nest service, the    *)
(* conversion of decimals, a call of the risk service and a call of the      *)
(* wallet service.  A behaviour of all of them is one of each, interleaved,  *)
(* so TLC explores one part at a time: the initial state chooses which.      *)
(***************************************************************************)
EXTENDS Integers, FiniteSets, Sequences, SequencesExt

CONSTANTS
  Requests, Emails, Passwords, Permissions, GrantRoles, Faults,
  Creators, Revokers, Jtis,
  MaxRows, MaxKeys,
  Ids, PerPage, PageTime,
  Features, Callers, MaxEvents, Users, Partitions, MaxRetries,
  Digits, Decimals, MaxInt, MaxLength,
  TimeoutMs,
  MaxTime, Null

VARIABLES
  part,  \* the part that takes the steps
  roles, permissions, grants, users, seed, form, accountPc, found,
  sessionRows, auditLog, job, sessionPc, before,
  listClock, listStep, active, listed, shown, counts, at,
  keyClock, keyText, keyActive, keyStep, keys, kept, meta, keyShown,
  pageClock, createdAt, type, posted, query, page, phase, balance, answer, total, got, base,
  service, brokers, boot, kafkaClient, stop, todo, held, hash, event, sendPc, attempts,
  number, wire, log, done, late,
  text, parsePc, index, negative, whole, fraction, fractionScale, hasWholeDigit, decimalSeen,
  fractionDigits, parsed,
  request, cancelled, callPc, verdict, response, status,
  clock, pc, deadline, reply, result

Account == INSTANCE Accounts WITH pc <- accountPc
Session == INSTANCE Sessions WITH rows <- sessionRows, pc <- sessionPc
Listing == INSTANCE SessionList WITH clock <- listClock, step <- listStep
KeyList == INSTANCE ApiKeyList WITH clock <- keyClock, text <- keyText, active <- keyActive,
                                    step <- keyStep, shown <- keyShown
History == INSTANCE Transactions WITH clock <- pageClock, MaxTime <- PageTime
Process == INSTANCE Messaging WITH client <- kafkaClient, pc <- sendPc
Decimal == INSTANCE Fixed8 WITH pc <- parsePc, result <- parsed
Check   == INSTANCE PreTrade WITH pc <- callPc
Client  == INSTANCE WalletClient

ASSUME PartsConstants ==
  /\ Account!AccountsConstants /\ Session!SessionsConstants /\ Listing!SessionListConstants
  /\ KeyList!ApiKeyListConstants /\ History!TransactionsConstants /\ Process!MessagingConstants
  /\ Decimal!Fixed8Constants /\ Client!WalletClientConstants

\* Two of the four permissions of the seed script, and the roles of
\* role-permission.seed.ts:9-10.
SeedPermissions == <<"read:user", "create:user">>
CodeGrantRoles  == <<"ADMIN", "USER">>

\* The feature modules are alike, and so are the requests that publish and the partitions.
Symmetry == Permutations(Features) \cup Permutations(Callers) \cup Permutations(Partitions)

accountVars == <<roles, permissions, grants, users, seed, form, accountPc, found>>
sessionVars == <<sessionRows, auditLog, job, sessionPc, before>>
listingVars == <<listClock, listStep, active, listed, shown, counts, at>>
keyListVars == <<keyClock, keyText, keyActive, keyStep, keys, kept, meta, keyShown>>
historyVars == <<pageClock, createdAt, type, posted, query, page, phase, balance, answer, total,
                 got, base>>
processVars == <<service, brokers, boot, kafkaClient, stop, todo, held, hash, event, sendPc,
                 attempts, number, wire, log, done, late>>
decimalVars == <<text, parsePc, index, negative, whole, fraction, fractionScale, hasWholeDigit,
                 decimalSeen, fractionDigits, parsed>>
checkVars   == <<request, cancelled, callPc, verdict, response, status>>
clientVars  == <<clock, pc, deadline, reply, result>>

userVars   == <<accountVars, sessionVars, listingVars, keyListVars>>
walletVars == <<historyVars, processVars>>
riskVars   == <<decimalVars, checkVars, clientVars>>
vars       == <<part, userVars, walletVars, riskVars>>

Parts == {"account", "session", "listing", "keyList", "history", "process", "decimal", "check", "client"}

\* Any of S for the part that is explored; the others rest in one initial state.
Choice(p, S) == IF part = p THEN S ELSE {CHOOSE x \in S : TRUE}

Inputs ==
  /\ part \in Parts
  /\ keyText  \in Choice("keyList", KeyList!Texts)
  /\ query    \in Choice("history", History!Queries)
  /\ service  \in Choice("process", {"wallet", "user"})
  /\ brokers  \in Choice("process", {"unset", "blank", "named"})
  /\ text     \in Choice("decimal", Decimal!Texts)
  /\ \E call  \in Choice("check", Check!Calls) : Check!Start(call)

Init ==
  /\ Inputs
  /\ Account!Init /\ Session!Init /\ Listing!Init /\ KeyList!Init /\ History!Init /\ Process!Init
  /\ Decimal!Enter /\ Client!Init

AccountStep == part = "account" /\ Account!Next
  /\ UNCHANGED <<sessionVars, listingVars, keyListVars, walletVars, riskVars>>
SessionStep == part = "session" /\ Session!Next
  /\ UNCHANGED <<accountVars, listingVars, keyListVars, walletVars, riskVars>>
ListingStep == part = "listing" /\ Listing!Next
  /\ UNCHANGED <<accountVars, sessionVars, keyListVars, walletVars, riskVars>>
KeyListStep == part = "keyList" /\ KeyList!Next
  /\ UNCHANGED <<accountVars, sessionVars, listingVars, walletVars, riskVars>>
HistoryStep == part = "history" /\ History!Next /\ UNCHANGED <<processVars, userVars, riskVars>>
ProcessStep == part = "process" /\ Process!Next /\ UNCHANGED <<historyVars, userVars, riskVars>>
DecimalStep == part = "decimal" /\ Decimal!Next
  /\ UNCHANGED <<checkVars, clientVars, userVars, walletVars>>
CheckStep == part = "check" /\ Check!Next
  /\ UNCHANGED <<decimalVars, clientVars, userVars, walletVars>>
ClientStep == part = "client" /\ Client!Next
  /\ UNCHANGED <<decimalVars, checkVars, userVars, walletVars>>

Next == UNCHANGED part /\
  (\/ AccountStep \/ SessionStep \/ ListingStep \/ KeyListStep \/ HistoryStep \/ ProcessStep
   \/ DecimalStep \/ CheckStep \/ ClientStep)

Spec == Init /\ [][Next]_vars
-----------------------------------------------------------------------------
(* The properties of the parts, by the names they have there. *)

\* What registrations and logins were told agrees with the accounts there are.
OutcomesMatchAccounts == Account!OutcomesMatchAccounts

\* Sessions are revoked as their callers asked, and there if they were told so.
RevokedAsAsked == Session!RevokedAsAsked

\* A list of sessions is coherent though it reads the clock many times.
ListCoherent == Listing!ListCoherent

\* A list of API keys is coherent though its parts are computed at different times.
KeyListCoherent == KeyList!KeyListCoherent

\* A client that reads the transaction list to its end misses no transaction.
NoneMissed == History!NoneMissed

\* A service serves with every client connected, and its stop disconnects them in order.
StartsWholeStopsInOrder == Process!StartsWholeStopsInOrder

\* The wallet's events are there once, but for those whose number another one got.
OnceUnlessDisplaced == Process!OnceUnlessDisplaced

\* Fixed8::parse accepts exactly the decimals that fit, and returns their value.
ParsesExactly == Decimal!ParsesExactly

\* The client of CheckPreTrade reads what the pipeline decided.
AnswersTellVerdict == Check!AnswersTellVerdict

\* WalletClient returns a balance as OK only for the wallet that was asked for.
OkMeansAsked == Client!OkMeansAsked
=============================================================================
