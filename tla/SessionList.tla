----------------------------- MODULE SessionList -----------------------------
(***************************************************************************)
(* One list of a user's sessions.  All rows are read by one query; from     *)
(* then on the answer is computed element by element, and the time is asked *)
(* for again for the filter, for every element that is shown and for every  *)
(* element of both counts, while sessions expire.                           *)
(***************************************************************************)
EXTENDS Integers, FiniteSets, Sequences

CONSTANTS MaxRows,  \* bound: sessions of the user
          MaxTime,  \* bound: the last value of the clock
          Null

\* What a module that instantiates this one assumes of the constants.
SessionListConstants ==
  /\ MaxRows \in Nat \ {0} /\ MaxTime \in Nat
  /\ Null \notin 0..MaxTime + 1 /\ Null \notin BOOLEAN

VARIABLES clock,
          step,     \* what the service does next
          active,   \* query.active: TRUE, FALSE or Null (undefined)
          listed,   \* what findAllByUser returned, newest first
          shown,    \* the positions in listed of the answer's elements, with the
                    \* isActive each shows (Null before it is mapped)
          counts,   \* the numbers of the answer
          at        \* elements the current loop has behind it

vars == <<clock, step, active, listed, shown, counts, at>>

Row == [expiresAt : 0..MaxTime + 1, revoked : BOOLEAN]

Init ==
  /\ clock = 0
  /\ step = "idle" /\ active = Null
  /\ listed = << >> /\ shown = << >>
  /\ counts = [active |-> 0, revoked |-> 0] /\ at = 0

Tick ==
  /\ clock < MaxTime
  /\ clock' = clock + 1
  /\ UNCHANGED <<step, active, listed, shown, counts, at>>

\* The request: "active" is absent or, transformed by the DTO, one of two values;
\* any other is refused.
Receive ==
  /\ step = "idle"
  /\ \/ active' \in {TRUE, FALSE, Null} /\ step' = "find"
     \/ step' = "refused" /\ UNCHANGED active
  /\ UNCHANGED <<clock, listed, shown, counts, at>>

\* findAllByUser: whatever sessions there are, revoked and expired ones included.
Find ==
  /\ step = "find"
  /\ \E n \in 0..MaxRows : listed' \in [1..n -> Row]
  /\ step' = "filter"
  /\ UNCHANGED <<clock, active, shown, counts, at>>

\* revokedAt is null and expiresAt lies after the time asked for now.
IsActive(row) == ~ row.revoked /\ row.expiresAt > clock

Keeps(row) == active = Null \/ active = IsActive(row)

\* The filter asks for the time once.
Filter ==
  /\ step = "filter"
  /\ shown' = [i \in {j \in DOMAIN listed : Keeps(listed[j])} |-> Null]
  /\ step' = "map"
  /\ UNCHANGED <<clock, active, listed, counts, at>>

\* One round of a loop over n elements; next is the step behind the loop.
Loop(n, next) ==
  IF at + 1 >= n THEN at' = 0 /\ step' = next ELSE at' = at + 1 /\ UNCHANGED step

\* The elements that are still to be mapped, and the first of them.
ToMap    == {i \in DOMAIN shown : shown[i] = Null}
First(S) == CHOOSE i \in S : \A j \in S : i <= j

\* toDto of the next element.
Map ==
  /\ step = "map"
  /\ IF ToMap # {}
     THEN /\ shown' = [shown EXCEPT ![First(ToMap)] = IsActive(listed[First(ToMap)])]
          /\ UNCHANGED step
     ELSE step' = "countActive" /\ UNCHANGED shown
  /\ UNCHANGED <<clock, active, listed, counts, at>>

Tally(test(_)) == IF at < Len(listed) /\ test(listed[at + 1]) THEN 1 ELSE 0

CountActive ==
  /\ step = "countActive"
  /\ counts' = [counts EXCEPT !.active = @ + Tally(IsActive)]
  /\ Loop(Len(listed), "countRevoked")
  /\ UNCHANGED <<clock, active, listed, shown>>

\* Mutant: an expired session is not counted as revoked.
RevokedOnly(row) == row.revoked

\* Revoked, or expired by the time asked for now.
IsRevoked(row) == row.revoked \/ row.expiresAt <= clock

CountRevoked ==
  /\ step = "countRevoked"
  /\ counts' = [counts EXCEPT !.revoked = @ + Tally(IsRevoked)]
  /\ Loop(Len(listed), "answered")
  /\ UNCHANGED <<clock, active, listed, shown>>

Next == Tick \/ Receive \/ Find \/ Filter \/ Map \/ CountActive \/ CountRevoked

Spec == Init /\ [][Next]_vars
-----------------------------------------------------------------------------
(* Properties. *)

Labels == {"idle", "refused", "find", "filter", "map", "countActive", "countRevoked", "answered"}

\* Every variable has its type.
TypeOK ==
  /\ clock \in 0..MaxTime
  /\ listed \in Seq(Row)
  /\ step \in Labels /\ active \in {TRUE, FALSE, Null}
  /\ DOMAIN shown \subseteq DOMAIN listed /\ shown \in [DOMAIN shown -> BOOLEAN \cup {Null}]
  /\ counts \in [active : 0..Len(listed), revoked : 0..Len(listed)]
  /\ at \in 0..Len(listed)

Expired == {i \in DOMAIN listed : ~ listed[i].revoked /\ listed[i].expiresAt <= clock}
Flagged == {i \in DOMAIN shown : shown[i] = TRUE}

\* One answer reads the clock many times and is still coherent: no session is
\* missing from both counts, those in both are sessions that expired meanwhile, a
\* list of inactive sessions never shows one as active, and at most as many are
\* counted as active as a list of all or of the active ones shows as active.
ListCoherent ==
  /\ step = "answered" =>
       /\ counts.active + counts.revoked >= Len(listed)
       /\ counts.active + counts.revoked <= Len(listed) + Cardinality(Expired)
       /\ active # FALSE => counts.active <= Cardinality(Flagged)
  /\ active = FALSE => Flagged = {}

Active == {i \in DOMAIN listed : IsActive(listed[i])}

\* What the filter left, and what was mapped of it.
Chosen ==
  /\ active # FALSE => Active \subseteq DOMAIN shown
  /\ active = FALSE => Active \cap DOMAIN shown = {} /\ Flagged = {}
  /\ \A i \in Active \cap DOMAIN shown : shown[i] \in {TRUE, Null}

\* A are the sessions counted as active so far, R those counted as revoked, m and
\* n how far the two counts have come.
Tallied(A, R, m, n) ==
  /\ counts.active = Cardinality(A) /\ counts.revoked = Cardinality(R)
  /\ A \subseteq 1..m /\ R \subseteq 1..n
  /\ Active \cap 1..m \subseteq A /\ (1..n) \ R \subseteq A
  /\ \A i \in A : ~ listed[i].revoked
  /\ \A i \in R : IsRevoked(listed[i])
  /\ active # FALSE => A \subseteq Flagged

\* What every step relies on because of those before it.
IInv ==
  /\ step \in {"idle", "refused", "find"} => listed = << >>
  /\ step \in {"idle", "refused", "find", "filter"} => shown = << >>
  /\ step \notin {"countActive", "countRevoked"} => at = 0
  /\ step \in {"countActive", "countRevoked"} => at < Len(listed) \/ at = 0
  /\ step \notin {"idle", "refused", "find", "filter"} => Chosen
  /\ step \in {"countActive", "countRevoked", "answered"} => ToMap = {}
  /\ step \notin {"countRevoked", "answered"} => counts.revoked = 0
  /\ step \notin {"countActive", "countRevoked", "answered"} => counts.active = 0
  /\ step = "countActive" => \E A \in SUBSET DOMAIN listed : Tallied(A, {}, at, 0)
  /\ step = "countRevoked" =>
       \E A \in SUBSET DOMAIN listed : \E R \in SUBSET DOMAIN listed : Tallied(A, R, Len(listed), at)
  /\ step = "answered" =>
       \E A \in SUBSET DOMAIN listed : \E R \in SUBSET DOMAIN listed :
         Tallied(A, R, Len(listed), Len(listed))
=============================================================================
