---------------------------- MODULE ConnectionPool ----------------------------
(***************************************************************************)
(* What RedisClient promises of its pool: while it is open a context is     *)
(* either free or leased to one thread, and comes back when the lease ends, *)
(* however the command went; once it closes nothing is leased any more.     *)
(* RedisPool, with its mutex and condition variable, implements this.       *)
(***************************************************************************)
CONSTANTS Workers, Connections, None

VARIABLES phase,  \* "opening", "open", "closing" or "closed"
          free,   \* contexts that may be leased
          lease   \* the context each thread holds, or None

vars == <<phase, free, lease>>

Init ==
  /\ phase = "opening" /\ free = {}
  /\ lease = [w \in Workers |-> None]

\* The constructor opens every context or throws.
Open ==
  /\ phase = "opening"
  /\ \/ phase' = "open" /\ free' \in (SUBSET Connections) \ {{}}
     \/ phase' = "closed" /\ UNCHANGED free
  /\ UNCHANGED lease

Lease(w) ==
  /\ phase = "open" /\ lease[w] = None
  /\ \E c \in free : lease' = [lease EXCEPT ![w] = c] /\ free' = free \ {c}
  /\ UNCHANGED phase

\* A context that comes back after the pool began to close is not leased again.
Return(w) ==
  /\ lease[w] # None
  /\ lease' = [lease EXCEPT ![w] = None]
  /\ free' = IF phase = "open" THEN free \cup {lease[w]} ELSE free
  /\ UNCHANGED phase

\* The destructor.
Close ==
  /\ \/ phase = "open" /\ phase' = "closing" /\ free' = {}
     \/ phase = "closing" /\ phase' = "closed" /\ UNCHANGED free
  /\ UNCHANGED lease

Next == Open \/ Close \/ \E w \in Workers : Lease(w) \/ Return(w)

Spec == Init /\ [][Next]_vars
=============================================================================
