--------------------------- MODULE UserEventsProofs ---------------------------
(***************************************************************************)
(* Theorems about UserEvents for any messages, any length of the partition   *)
(* and any number of crashes: nothing is passed unhandled, and what lies      *)
(* behind a committed offset is kept.                                         *)
(***************************************************************************)
EXTENDS UserEvents, TLAPS

USE UserEventsConstants

LEMMA InitInv == Init => TypeOK /\ IInv
<1> SUFFICES ASSUME Init PROVE TypeOK /\ IInv
  OBVIOUS
<1>1. TypeOK
  BY DEF Init, TypeOK
<1>2. OffsetsInv
  BY DEF Init, OffsetsInv
<1>3. NothingSkipped
  BY DEF Init, NothingSkipped, Passes
<1> QED BY <1>1, <1>2, <1>3 DEF IInv

\* Numbers and bounds of the variables, from the type and the offsets.
LEMMA Bounds ==
  ASSUME TypeOK, OffsetsInv
  PROVE  /\ Len(log) \in Nat /\ position \in Nat /\ start \in Nat /\ attempts \in Nat
         /\ position <= Len(log) /\ start <= Len(log)
         /\ committed # None => committed \in Nat /\ start < committed /\ committed <= Len(log)
         /\ DOMAIN log = 1..Len(log)
         /\ \A i \in Nat : Passes(i) => i <= Len(log)
BY DEF TypeOK, OffsetsInv, Passes

\* A step after which the group has passed no more messages than before skips none.
LEMMA SettledStay ==
  ASSUME TypeOK, IInv, start' = start, handled \subseteq handled', Len(log') \in Nat,
         \A i \in Nat : Passes(i)' => Passes(i),
         \A i \in 1..Len(log) : log'[i] = log[i]
  PROVE  NothingSkipped'
<1> SUFFICES ASSUME NEW i \in start + 1..Len(log'), Passes(i)' PROVE Settled(i)'
  BY DEF NothingSkipped
<1>1. start \in Nat /\ i \in Nat
  BY Bounds DEF IInv
<1>2. Passes(i) /\ i \in start + 1..Len(log)
  BY <1>1, Bounds DEF IInv
<1>3. Settled(i) /\ log'[i] = log[i]
  BY <1>1, <1>2 DEF IInv, NothingSkipped
<1> QED BY <1>3 DEF Settled

\* A handler that returns settles the message it was given, so the runner may
\* pass it.
LEMMA PassInv ==
  ASSUME TypeOK, IInv, SkipEmpty \/ Handle
  PROVE  TypeOK' /\ IInv'
<1>1. /\ pc = "running" /\ position + 1 \in 1..Len(log) /\ position' = position + 1
      /\ UNCHANGED <<log, committed, pc, attempts, start, crashes>>
      /\ handled \subseteq handled' /\ handled' \subseteq handled \cup {position + 1}
      /\ position + 1 \in handled' \/ log[position + 1] = "empty"
  <2>1. position + 1 \in 1..Len(log)
    BY Bounds DEF IInv, SkipEmpty, Handle, HasMessage
  <2> QED BY <2>1 DEF SkipEmpty, Handle, HasMessage, Message
<1>2. TypeOK'
  BY <1>1, Bounds DEF TypeOK, IInv
<1>3. OffsetsInv'
  BY <1>1, Bounds DEF IInv, OffsetsInv
<1>4. ASSUME NEW i \in start + 1..Len(log), Passes(i)' PROVE Settled(i)'
  <2>1. CASE Passes(i)
    <3>1. Settled(i)
      BY <2>1 DEF IInv, NothingSkipped
    <3> QED BY <1>1, <3>1 DEF Settled
  <2>2. CASE ~ Passes(i)
    <3>1. i = position + 1
      BY <1>1, <1>4, <2>2, Bounds DEF IInv, Passes
    <3> QED BY <1>1, <3>1 DEF Settled
  <2> QED BY <2>1, <2>2
<1>5. NothingSkipped'
  BY <1>1, <1>4 DEF NothingSkipped
<1> QED BY <1>2, <1>3, <1>5 DEF IInv

\* A restart begins where the group committed, or at the end of the log.
LEMMA RunInv ==
  ASSUME TypeOK, IInv, Run
  PROVE  TypeOK' /\ IInv'
<1> USE DEF Run
<1>1. TypeOK'
  BY Bounds DEF TypeOK, IInv, OffsetsInv
<1>2. OffsetsInv'
  BY Bounds DEF TypeOK, IInv, OffsetsInv
<1>3. CASE committed = None
  <2>1. start' = Len(log) /\ log' = log
    BY <1>3
  <2>2. NothingSkipped'
    BY <2>1, Bounds DEF IInv, NothingSkipped
  <2> QED BY <1>1, <1>2, <2>2 DEF IInv
<1>4. CASE committed # None
  <2>1. start' = start /\ \A i \in Nat : Passes(i)' => Passes(i)
    BY <1>4 DEF Passes
  <2>2. NothingSkipped'
    BY <2>1, Bounds, SettledStay DEF IInv
  <2> QED BY <1>1, <1>2, <2>2 DEF IInv
<1> QED BY <1>1, <1>2, <1>3, <1>4 DEF IInv

LEMMA ProduceInv ==
  ASSUME TypeOK, IInv, NEW kind \in Kinds, Produce(kind)
  PROVE  TypeOK' /\ IInv'
<1> USE DEF Produce
<1>1. /\ log' \in Seq(Kinds) /\ Len(log') = Len(log) + 1
      /\ \A i \in 1..Len(log) : log'[i] = log[i]
  BY DEF TypeOK
<1>2. TypeOK'
  BY <1>1, Bounds DEF TypeOK, IInv
<1>3. OffsetsInv'
  BY <1>1, Bounds DEF IInv, OffsetsInv
<1>4. \A i \in Nat : Passes(i)' => Passes(i)
  BY DEF Passes
<1>5. NothingSkipped'
  BY <1>1, <1>4, Bounds, SettledStay DEF IInv
<1> QED BY <1>2, <1>3, <1>5 DEF IInv

\* What is committed the runner has passed; a crash forgets only the position.
LEMMA RestInv ==
  ASSUME TypeOK, IInv, Boot \/ Throw \/ GiveUp \/ CommitOffset \/ Crash
  PROVE  TypeOK' /\ IInv'
<1> USE DEF Boot, CreateConsumer, Subscribe, Fails, Throw, GiveUp, CommitOffset, Crash, HasMessage
<1>1. TypeOK'
  BY Bounds DEF TypeOK, IInv
<1>2. OffsetsInv'
  BY Bounds DEF IInv, OffsetsInv
<1>3. \A i \in Nat : Passes(i)' => Passes(i)
  BY Bounds DEF IInv, OffsetsInv, Passes
<1>4. NothingSkipped'
  BY <1>3, Bounds, SettledStay DEF IInv
<1> QED BY <1>1, <1>2, <1>4 DEF IInv

LEMMA StepInv == TypeOK /\ IInv /\ [Next]_vars => TypeOK' /\ IInv'
<1> SUFFICES ASSUME TypeOK, IInv, [Next]_vars PROVE TypeOK' /\ IInv'
  OBVIOUS
<1>1. CASE UNCHANGED vars
  BY <1>1 DEF vars, TypeOK, IInv, OffsetsInv, NothingSkipped, Passes, Settled
<1> QED BY <1>1, PassInv, RunInv, ProduceInv, RestInv DEF Next, Consume

THEOREM Invariance == Spec => [](TypeOK /\ IInv)
BY InitInv, StepInv, PTL DEF Spec

\* However often the process dies between a handler and its commit, the runner
\* passes and the group commits only messages that were handled or had no value.
THEOREM AtLeastOnce == Spec => []NothingSkipped
BY Invariance, PTL DEF IInv

\* The group has committed an offset, and message i lies behind the start it had
\* then.
Behind(i) == committed # None /\ start < i

\* An offset once committed stays, and the group never starts anew.
LEMMA BehindStays ==
  ASSUME TypeOK, IInv, [Next]_vars, NEW i \in Nat, Behind(i)
  PROVE  Behind(i)'
<1> USE DEF Behind
<1>1. position # None
  BY Bounds DEF IInv
<1> QED BY <1>1 DEF Next, Produce, Boot, Run, Consume, SkipEmpty, Handle, Fails, Throw, GiveUp,
                    CommitOffset, Crash, vars

\* Once an offset is committed no restart, of the process or of the consumer, jumps
\* over a message behind it that was not handled.
THEOREM KeptBehindOffset == Spec => EventsKept
<1> SUFFICES ASSUME NEW i \in 1..MaxMessages
             PROVE  Spec => [](committed # None /\ committed < i => [](Passes(i) => Settled(i)))
  BY DEF EventsKept
<1>1. TypeOK /\ IInv /\ committed # None /\ committed < i => Behind(i)
  BY Bounds DEF IInv, Behind
<1>2. TypeOK /\ IInv /\ Behind(i) /\ [Next]_vars => Behind(i)'
  BY BehindStays
<1>3. TypeOK /\ IInv /\ Behind(i) => (Passes(i) => Settled(i))
  <2> SUFFICES ASSUME TypeOK, IInv, Behind(i), Passes(i) PROVE Settled(i)
    OBVIOUS
  <2>1. i \in start + 1..Len(log)
    BY Bounds DEF IInv, Behind
  <2> QED BY <2>1 DEF IInv, NothingSkipped
<1> QED BY <1>1, <1>2, <1>3, Invariance, PTL DEF Spec
=============================================================================
