------------------------------ MODULE ApiKeyList ------------------------------
(***************************************************************************)
(* One list of a user's API keys.  All rows are read by one query; from     *)
(* then on the answer is computed from them, but the time is asked for      *)
(* once for the filter, once for the counts and once for every key that is  *)
(* shown, and keys expire in between.                                       *)
(***************************************************************************)
EXTENDS Integers, FiniteSets, Sequences

CONSTANTS MaxRows,  \* bound: keys of the user
          MaxKeys,  \* MAX_KEYS_PER_USER of the mapper
          MaxTime,  \* bound: the last value of the clock
          Null      \* absent

\* What a module that instantiates this one assumes of the constants.
ApiKeyListConstants ==
  /\ MaxRows \in Nat \ {0} /\ MaxKeys \in Nat \ {0} /\ MaxTime \in Nat
  /\ Null \notin 0..MaxTime + 1 /\ Null \notin BOOLEAN

VARIABLES clock,
          text,    \* what the client writes for the parameter "active"
          active,  \* query.active
          step,    \* what the service does next
          keys,    \* allKeys: the rows, newest first
          kept,    \* filteredKeys, by their positions in keys
          meta,    \* the numbers of the answer
          shown    \* isActive of the positions shown so far

vars == <<clock, text, active, step, keys, kept, meta, shown>>

Key  == [expiresAt : (0..MaxTime + 1) \cup {Null}, revoked : BOOLEAN]
Meta == [total : 0..MaxRows, active : 0..MaxRows, revoked : 0..MaxRows, limit : {MaxKeys}]
Texts == {"absent", "true", "false", "other"}

Init ==
  /\ clock = 0
  /\ text \in Texts /\ active = Null
  /\ step = "receive"
  /\ keys = << >> /\ kept = {} /\ shown = << >>
  /\ meta = [total |-> 0, active |-> 0, revoked |-> 0, limit |-> MaxKeys]

Tick ==
  /\ clock < MaxTime
  /\ clock' = clock + 1
  /\ UNCHANGED <<text, active, step, keys, kept, meta, shown>>

\* The transformation of the parameter, and its validation by IsBoolean.
Receive ==
  /\ step = "receive"
  /\ active' = CASE text = "true" -> TRUE [] text = "false" -> FALSE [] OTHER -> Null
  /\ step' = IF text = "other" THEN "refused" ELSE "find"
  /\ UNCHANGED <<clock, text, keys, kept, meta, shown>>

\* findAllByUser: whatever keys the user has, expired and revoked ones included.
Find ==
  /\ step = "find"
  /\ \E n \in 0..MaxRows : keys' \in [1..n -> Key]
  /\ step' = "filter"
  /\ UNCHANGED <<clock, text, active, kept, meta, shown>>

IsActive(key) == ~ key.revoked /\ (key.expiresAt = Null \/ key.expiresAt > clock)

Keeps(key) == active = Null \/ active = IsActive(key)

Filter ==
  /\ step = "filter"
  /\ kept' = {i \in DOMAIN keys : Keeps(keys[i])}
  /\ step' = "count"
  /\ UNCHANGED <<clock, text, active, keys, meta, shown>>

\* Mutant: an expired key is counted as active.
ActiveUnlessRevoked == Cardinality({i \in DOMAIN keys : ~ keys[i].revoked})

Active      == {i \in DOMAIN keys : IsActive(keys[i])}
ActiveCount == Cardinality(Active)

\* toDtoList: both counts from one look at the clock.
Count ==
  /\ step = "count"
  /\ meta' = [meta EXCEPT !.active = ActiveCount, !.revoked = Len(keys) - ActiveCount, !.total = Cardinality(kept)]
  /\ step' = "show"
  /\ UNCHANGED <<clock, text, active, keys, kept, shown>>

\* The filtered keys that are still to be shown, and the first of them.
ToShow   == kept \ DOMAIN shown
First(S) == CHOOSE i \in S : \A j \in S : i <= j

\* toDto of the next key; behind the last one the list is answered.
Show ==
  /\ step = "show"
  /\ IF ToShow # {}
     THEN /\ shown' = [i \in DOMAIN shown \cup {First(ToShow)} |->
                         IF i \in DOMAIN shown THEN shown[i] ELSE IsActive(keys[i])]
          /\ UNCHANGED step
     ELSE step' = "answered" /\ UNCHANGED shown
  /\ UNCHANGED <<clock, text, active, keys, kept, meta>>

Next == Tick \/ Receive \/ Find \/ Filter \/ Count \/ Show

Spec == Init /\ [][Next]_vars
-----------------------------------------------------------------------------
(* Properties. *)

\* Every variable has its type.
TypeOK ==
  /\ clock \in 0..MaxTime
  /\ text \in Texts /\ active \in {TRUE, FALSE, Null}
  /\ step \in {"receive", "refused", "find", "filter", "count", "show", "answered"}
  /\ keys \in Seq(Key) /\ Len(keys) <= MaxRows
  /\ kept \subseteq DOMAIN keys
  /\ DOMAIN shown \subseteq kept /\ shown \in [DOMAIN shown -> BOOLEAN]
  /\ meta \in Meta

Flagged == Cardinality({i \in DOMAIN shown : shown[i]})

\* An answer whose parts were computed at different times still adds up: every
\* key is in one of the two counts; keys may expire from the filter to the count
\* and from the count to the key that is shown, so of the active keys asked for
\* at most as many are counted, and at most as many shown as active; and a list
\* of inactive keys shows none as active and counts at least as many.
KeyListCoherent ==
  /\ step \in {"show", "answered"} =>
       /\ meta.active + meta.revoked = Len(keys)
       /\ active = TRUE  => meta.active <= meta.total
       /\ active = FALSE => meta.total <= meta.revoked
       /\ active = Null  => meta.total = Len(keys)
  /\ Flagged <= meta.active
  /\ active = FALSE => Flagged = 0

\* What the filter left, W being the keys the count found active: keys expire but
\* never become active again, so those active now were active at every earlier look.
Chosen(W) ==
  /\ active = TRUE  => W \subseteq kept
  /\ active = FALSE => W \cap kept = {}
  /\ active = Null  => kept = DOMAIN keys
Counted == \E W \in SUBSET DOMAIN keys :
  /\ Active \subseteq W /\ Chosen(W)
  /\ meta.active = Cardinality(W) /\ meta.revoked = Len(keys) - Cardinality(W)
  /\ meta.total = Cardinality(kept)
  /\ \A i \in DOMAIN shown : shown[i] => i \in W

\* What every step relies on because of those before it.
IInv ==
  /\ step \in {"receive", "refused", "find"} => keys = << >>
  /\ step \notin {"show", "answered"} => shown = << >> /\ meta.active = 0
  /\ step = "count" => Chosen(Active)
  /\ step \in {"show", "answered"} => Counted

\* "Maximum of ${MAX_KEYS_PER_USER} active API keys allowed." (api-key.service.ts:72):
\* a list that shows fewer active keys than the limit leaves room for another,
\* by the count of unrevoked rows that a creation makes (api-key.repository.ts:45).
RoomShownIsRoom == step = "answered" /\ meta.active < meta.limit =>
  Cardinality({i \in DOMAIN keys : ~ keys[i].revoked}) < MaxKeys
=============================================================================
