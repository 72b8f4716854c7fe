---------------------------- MODULE RWLockProofs ----------------------------
(***************************************************************************)
(* Proofs about RWLock for every finite set of threads, with and without   *)
(* spurious wake-ups.  The invariant is the conjunction of the four        *)
(* properties: exclusion follows from the tests of the counters only when  *)
(* the counters are exact, and what a leaving writer does for sleepers     *)
(* depends on w_wait counting the writers asleep.                          *)
(***************************************************************************)
EXTENDS RWLock, FiniteSetTheorems, TLAPS

Inv == TypeOK /\ CountersExact /\ Exclusion /\ SleepersHaveAWaker

LEMMA InitInv == Init => Inv
  <1> SUFFICES ASSUME Init PROVE Inv OBVIOUS
  <1>1. Readers = {} /\ Writers = {} /\ Waiting = {}
    BY DEF Init, Readers, Writers, Waiting
  <1>2. TypeOK
    BY ThreadAssumption DEF Init, TypeOK
  <1> QED BY <1>1, <1>2, FS_EmptySet
          DEF Init, Inv, CountersExact, Exclusion, SleepersHaveAWaker

-----------------------------------------------------------------------------
(* Counting.  A counter is zero exactly when nobody is in its group, and   *)
(* follows the group when one thread joins or leaves it.                   *)
LEMMA GroupsFinite == IsFiniteSet(Readers) /\ IsFiniteSet(Writers) /\ IsFiniteSet(Waiting)
  BY ThreadAssumption, FS_Subset DEF Readers, Writers, Waiting

LEMMA CountZero ==
  ASSUME CountersExact
  PROVE  /\ r_active = 0 <=> Readers = {}
         /\ w_active = 0 <=> Writers = {}
         /\ w_wait = 0 <=> Waiting = {}
  BY GroupsFinite, FS_EmptySet DEF CountersExact

LEMMA Join ==
  ASSUME NEW S, IsFiniteSet(S), NEW t, t \notin S
  PROVE  Cardinality(S \cup {t}) = Cardinality(S) + 1
  BY FS_AddElement

LEMMA Quit ==
  ASSUME NEW S, IsFiniteSet(S), NEW t \in S
  PROVE  Cardinality(S \ {t}) = Cardinality(S) - 1 /\ Cardinality(S) \in Nat \ {0}
  BY FS_RemoveElement, FS_CardinalityType, FS_EmptySet

-----------------------------------------------------------------------------
(* Steps that touch no counter and no sleeper. *)
LEMMA OutsideInv ==
  ASSUME Inv, NEW t \in Threads, Start(t) \/ Done(t)
  PROVE  Inv'
  <1>1. PICK from, to \in InMonitor \cup {"reading", "writing", "idle"} :
          /\ Call(t, from, to)
          /\ <<from, to>> \in {<<"idle", "startRead">>, <<"idle", "startWrite">>,
                               <<"reading", "doneRead">>, <<"writing", "doneWrite">>}
    BY DEF Start, Done, StartRead, StartWrite, DoneRead, DoneWrite, InMonitor
  <1>2. pc[t] = from /\ pc' = [pc EXCEPT ![t] = to]
        /\ UNCHANGED <<lock, Rcond, Wcond, w_wait, w_active, r_active>>
    BY <1>1 DEF Call
  <1>3. Readers' = Readers /\ Writers' = Writers /\ Waiting' = Waiting
    BY <1>1, <1>2 DEF Inv, TypeOK, Readers, Writers, Waiting
  <1>4. t \notin Rcond \cup Wcond /\ lock # t
    BY <1>1, <1>2, ThreadAssumption DEF Inv, TypeOK, InMonitor, Waiting
  <1>5. TypeOK'
    BY <1>1, <1>2, <1>3, <1>4 DEF Inv, TypeOK, InMonitor
  <1> QED BY <1>2, <1>3, <1>5
          DEF Inv, CountersExact, Exclusion, SleepersHaveAWaker

LEMMA AcquireInv ==
  ASSUME Inv, NEW t \in Threads, Acquire(t)
  PROVE  Inv'
  BY DEF Acquire, Inv, TypeOK, CountersExact, Exclusion, SleepersHaveAWaker,
         Readers, Writers, Waiting

LEMMA SpuriousInv ==
  ASSUME Inv, NEW t \in Threads, SpuriousWakeup(t)
  PROVE  Inv'
  BY DEF SpuriousWakeup, Inv, TypeOK, CountersExact, Exclusion, SleepersHaveAWaker,
         Readers, Writers, Waiting

(* Waking takes sleepers away, one of them if there is any. *)
LEMMA Woken ==
  ASSUME NEW S, NEW T \in OneWoken(S)
  PROVE  T \subseteq S /\ (S # {} => \E t \in S : t \notin T)
  BY DEF OneWoken

-----------------------------------------------------------------------------
(* The six steps inside the monitor. *)
LEMMA ReadWaitsInv ==
  ASSUME Inv, NEW t \in Threads, ReadWaits(t)
  PROVE  Inv'
  <1>1. /\ lock = t /\ pc[t] = "startRead" /\ (w_active # 0 \/ w_wait # 0)
        /\ Rcond' = Rcond \cup {t} /\ lock' = NULL /\ pc' = pc
        /\ UNCHANGED <<Wcond, w_wait, w_active, r_active>>
    BY DEF ReadWaits, Leave, ReaderMustWait, Inv, TypeOK
  <1>2. Readers' = Readers /\ Writers' = Writers /\ Waiting' = Waiting
    BY <1>1 DEF Readers, Writers, Waiting
  <1>3. Writers \cup Waiting # {}
    BY <1>1, CountZero DEF Inv
  <1>4. TypeOK'
    BY <1>1, <1>2 DEF Inv, TypeOK
  <1> QED BY <1>1, <1>2, <1>3, <1>4
          DEF Inv, CountersExact, Exclusion, SleepersHaveAWaker

LEMMA ReadEntersInv ==
  ASSUME Inv, NEW t \in Threads, ReadEnters(t)
  PROVE  Inv'
  <1>1. /\ lock = t /\ pc[t] = "startRead" /\ w_active = 0 /\ w_wait = 0
        /\ r_active' = r_active + 1 /\ lock' = NULL
        /\ pc' = [pc EXCEPT ![t] = "reading"]
        /\ UNCHANGED <<Rcond, Wcond, w_wait, w_active>>
    BY DEF ReadEnters, Leave, ReaderMustWait, Inv, TypeOK
  <1>2. t \notin Readers /\ t \notin Writers /\ t \notin Waiting /\ t \notin Rcond \cup Wcond
    BY <1>1, ThreadAssumption DEF Inv, TypeOK, Readers, Writers, Waiting
  <1>3. Readers' = Readers \cup {t} /\ Writers' = Writers /\ Waiting' = Waiting
    BY <1>1, <1>2 DEF Inv, TypeOK, Readers, Writers, Waiting
  <1>4. Writers = {} /\ Waiting = {}
    BY <1>1, CountZero DEF Inv
  <1>5. CountersExact'
    BY <1>1, <1>2, <1>3, Join, GroupsFinite DEF Inv, CountersExact
  <1>6. TypeOK'
    BY <1>1, <1>2, <1>3, ThreadAssumption DEF Inv, TypeOK
  <1> QED BY <1>1, <1>3, <1>4, <1>5, <1>6 DEF Inv, Exclusion, SleepersHaveAWaker

LEMMA ReadLeavesInv ==
  ASSUME Inv, NEW t \in Threads, ReadLeaves(t)
  PROVE  Inv'
  <1>1. /\ lock = t /\ pc[t] = "doneRead" /\ r_active' = r_active - 1 /\ lock' = NULL
        /\ Wcond' \in IF r_active - 1 = 0 THEN OneWoken(Wcond) ELSE {Wcond}
        /\ pc' = [pc EXCEPT ![t] = "idle"]
        /\ UNCHANGED <<Rcond, w_wait, w_active>>
    BY DEF ReadLeaves, Leave, LastReader
  <1>2. t \in Readers /\ t \notin Writers /\ t \notin Waiting /\ t \notin Rcond \cup Wcond
    BY <1>1, ThreadAssumption DEF Inv, TypeOK, Readers, Writers, Waiting
  <1>3. Readers' = Readers \ {t} /\ Writers' = Writers /\ Waiting' = Waiting
    BY <1>1, <1>2 DEF Inv, TypeOK, Readers, Writers, Waiting
  <1>4. CountersExact' /\ r_active \in Nat \ {0}
    BY <1>1, <1>2, <1>3, Quit, GroupsFinite DEF Inv, CountersExact
  <1>5. Wcond' \subseteq Wcond
    BY <1>1, Woken
  <1>6. TypeOK'
    BY <1>1, <1>2, <1>3, <1>4, <1>5, ThreadAssumption DEF Inv, TypeOK
  <1>7. Exclusion'
    BY <1>3 DEF Inv, Exclusion
  <1>8. ASSUME Wcond' # {} PROVE (Writers \cup Readers \cup (Waiting \ Wcond))' # {}
    <2>1. CASE r_active - 1 = 0
      <3>1. PICK u \in Wcond : u \notin Wcond'
        BY <1>1, <1>5, <1>8, <2>1, Woken
      <3>2. u \in Waiting'
        BY <3>1, <1>3 DEF Inv, TypeOK
      <3> QED BY <3>1, <3>2
    <2>2. CASE r_active - 1 # 0
      <3>1. r_active' # 0 BY <1>1, <2>2
      <3>2. Readers' # {} BY <3>1, <1>4, FS_EmptySet DEF CountersExact
      <3> QED BY <3>2
    <2> QED BY <2>1, <2>2
  <1>9. SleepersHaveAWaker'
    BY <1>1, <1>3, <1>8 DEF Inv, SleepersHaveAWaker
  <1> QED BY <1>4, <1>6, <1>7, <1>9 DEF Inv

LEMMA WriteWaitsInv ==
  ASSUME Inv, NEW t \in Threads, WriteWaits(t)
  PROVE  Inv'
  <1>1. /\ lock = t /\ pc[t] \in {"startWrite", "waitWrite"} /\ (r_active # 0 \/ w_active # 0)
        /\ w_wait' = IF pc[t] = "startWrite" THEN w_wait + 1 ELSE w_wait
        /\ Wcond' = Wcond \cup {t} /\ lock' = NULL
        /\ pc' = [pc EXCEPT ![t] = "waitWrite"]
        /\ UNCHANGED <<Rcond, w_active, r_active>>
    BY DEF WriteWaits, Leave, WriterMustWait
  <1>2. t \notin Readers /\ t \notin Writers /\ (t \in Waiting <=> pc[t] = "waitWrite")
        /\ t \notin Rcond
    BY <1>1, ThreadAssumption DEF Inv, TypeOK, Readers, Writers, Waiting
  <1>3. Readers' = Readers /\ Writers' = Writers /\ Waiting' = Waiting \cup {t}
    BY <1>1, <1>2 DEF Inv, TypeOK, Readers, Writers, Waiting
  <1>4. CountersExact'
    <2>1. CASE pc[t] = "startWrite"
      BY <2>1, <1>1, <1>2, <1>3, Join, GroupsFinite DEF Inv, CountersExact
    <2>2. CASE pc[t] = "waitWrite"
      <3>1. Waiting' = Waiting BY <2>2, <1>2, <1>3
      <3> QED BY <2>2, <3>1, <1>1, <1>3 DEF Inv, CountersExact
    <2> QED BY <1>1, <2>1, <2>2
  <1>5. Writers \cup Readers # {}
    BY <1>1, CountZero DEF Inv
  <1>6. TypeOK'
    BY <1>1, <1>2, <1>3, ThreadAssumption DEF Inv, TypeOK, InMonitor
  <1> QED BY <1>1, <1>3, <1>4, <1>5, <1>6 DEF Inv, Exclusion, SleepersHaveAWaker

LEMMA WriteEntersInv ==
  ASSUME Inv, NEW t \in Threads, WriteEnters(t)
  PROVE  Inv'
  <1>1. /\ lock = t /\ pc[t] \in {"startWrite", "waitWrite"} /\ r_active = 0 /\ w_active = 0
        /\ w_wait' = IF pc[t] = "waitWrite" THEN w_wait - 1 ELSE w_wait
        /\ w_active' = w_active + 1 /\ lock' = NULL
        /\ pc' = [pc EXCEPT ![t] = "writing"]
        /\ UNCHANGED <<Rcond, Wcond, r_active>>
    BY DEF WriteEnters, Leave, WriterMustWait, WaitersAfter, Inv, TypeOK
  <1>2. t \notin Readers /\ t \notin Writers /\ (t \in Waiting <=> pc[t] = "waitWrite")
        /\ t \notin Rcond \cup Wcond
    BY <1>1, ThreadAssumption DEF Inv, TypeOK, Readers, Writers, Waiting
  <1>3. Readers' = Readers /\ Writers' = Writers \cup {t} /\ Waiting' = Waiting \ {t}
    BY <1>1, <1>2 DEF Inv, TypeOK, Readers, Writers, Waiting
  <1>4. Readers = {} /\ Writers = {}
    BY <1>1, CountZero DEF Inv
  <1>5. w_active' = Cardinality(Writers')
    BY <1>1, <1>2, <1>3, Join, GroupsFinite DEF Inv, CountersExact
  <1>6. w_wait' = Cardinality(Waiting') /\ w_wait' \in Nat
    <2>1. CASE pc[t] = "waitWrite"
      BY <2>1, <1>1, <1>2, <1>3, Quit, GroupsFinite DEF Inv, CountersExact
    <2>2. CASE pc[t] = "startWrite"
      <3>1. Waiting' = Waiting BY <2>2, <1>2, <1>3
      <3> QED BY <2>2, <3>1, <1>1 DEF Inv, CountersExact, TypeOK
    <2> QED BY <1>1, <2>1, <2>2
  <1>7. CountersExact'
    BY <1>1, <1>3, <1>5, <1>6 DEF Inv, CountersExact
  <1>8. TypeOK'
    BY <1>1, <1>2, <1>3, <1>6, ThreadAssumption DEF Inv, TypeOK
  <1> QED BY <1>1, <1>3, <1>4, <1>7, <1>8 DEF Inv, Exclusion, SleepersHaveAWaker

LEMMA WriteLeavesInv ==
  ASSUME Inv, NEW t \in Threads, WriteLeaves(t)
  PROVE  Inv'
  <1>1. /\ lock = t /\ pc[t] = "doneWrite" /\ w_active' = w_active - 1 /\ lock' = NULL
        /\ \/ w_wait # 0 /\ Wcond' \in OneWoken(Wcond) /\ Rcond' = Rcond
           \/ w_wait = 0 /\ Rcond' = {} /\ Wcond' = Wcond
        /\ pc' = [pc EXCEPT ![t] = "idle"]
        /\ UNCHANGED <<w_wait, r_active>>
    BY DEF WriteLeaves, Leave, BroadcastReaders
  <1>2. t \notin Readers /\ t \in Writers /\ t \notin Waiting /\ t \notin Rcond \cup Wcond
    BY <1>1, ThreadAssumption DEF Inv, TypeOK, Readers, Writers, Waiting
  <1>3. Readers' = Readers /\ Writers' = Writers \ {t} /\ Waiting' = Waiting
    BY <1>1, <1>2 DEF Inv, TypeOK, Readers, Writers, Waiting
  <1>4. CountersExact' /\ w_active' \in Nat
    BY <1>1, <1>2, <1>3, Quit, GroupsFinite DEF Inv, CountersExact
  <1>5. Wcond' \subseteq Wcond /\ Rcond' \subseteq Rcond
    BY <1>1, Woken
  <1>6. TypeOK'
    BY <1>1, <1>2, <1>3, <1>4, <1>5, ThreadAssumption DEF Inv, TypeOK
  <1>7. Exclusion'
    BY <1>3 DEF Inv, Exclusion
  <1>8. SleepersHaveAWaker'
    <2>1. CASE w_wait = 0
      <3>1. Waiting = {} /\ Wcond' = {} /\ Rcond' = {}
        BY <1>1, <2>1, CountZero DEF Inv, TypeOK
      <3> QED BY <3>1 DEF SleepersHaveAWaker
    <2>2. CASE w_wait # 0
      <3>1. Waiting' # {}
        BY <2>2, <1>3, CountZero DEF Inv
      <3>2. ASSUME Wcond' # {} PROVE (Waiting \ Wcond)' # {}
        <4>1. PICK u \in Wcond : u \notin Wcond'
          BY <1>1, <1>5, <2>2, <3>2, Woken
        <4>2. u \in Waiting'
          BY <4>1, <1>3 DEF Inv, TypeOK
        <4> QED BY <4>1, <4>2
      <3> QED BY <3>1, <3>2 DEF SleepersHaveAWaker
    <2> QED BY <2>1, <2>2
  <1> QED BY <1>4, <1>6, <1>7, <1>8 DEF Inv

-----------------------------------------------------------------------------
LEMMA NextInv == Inv /\ [Next]_vars => Inv'
  <1> SUFFICES ASSUME Inv, [Next]_vars PROVE Inv' OBVIOUS
  <1>1. CASE UNCHANGED vars
    BY <1>1 DEF vars, Inv, TypeOK, CountersExact, Exclusion, SleepersHaveAWaker,
                Readers, Writers, Waiting
  <1>2. ASSUME NEW t \in Threads, Monitor(t) PROVE Inv'
    BY <1>2, ReadWaitsInv, ReadEntersInv, ReadLeavesInv, WriteWaitsInv, WriteEntersInv,
       WriteLeavesInv DEF Monitor
  <1>3. CASE Next
    BY <1>2, <1>3, OutsideInv, AcquireInv, SpuriousInv DEF Next
  <1> QED BY <1>1, <1>3

LEMMA SpecInv == Spec => []Inv
  BY InitInv, NextInv, PTL DEF Spec

(* Every variable keeps its type and sleepers stay where they belong. *)
THEOREM TypeCorrect == Spec => []TypeOK
  BY SpecInv, PTL DEF Inv

(* A writer shares the lock with nobody, for any number of threads. *)
THEOREM ExclusionCorrect == Spec => []Exclusion
  BY SpecInv, PTL DEF Inv

(* The three counters are exact, for any number of threads. *)
THEOREM CountersCorrect == Spec => []CountersExact
  BY SpecInv, PTL DEF Inv

(* No wake-up is lost, for any number of threads. *)
THEOREM NoLostWakeup == Spec => []SleepersHaveAWaker
  BY SpecInv, PTL DEF Inv

-----------------------------------------------------------------------------
(* What each step does to the two groups that ReadersWriters knows of. *)
LEMMA StepMaps == Inv /\ [Next]_vars => [RW!Next]_<<Readers, Writers>>
  <1> SUFFICES ASSUME Inv, [Next]_vars
               PROVE  RW!Next \/ (Readers' = Readers /\ Writers' = Writers)
    OBVIOUS
  <1> USE DEF Readers, Writers, Inv, TypeOK
  <1>1. ASSUME UNCHANGED pc PROVE Readers' = Readers /\ Writers' = Writers
    BY <1>1
  <1>2. ASSUME NEW t \in Threads, Start(t) \/ Done(t)
        PROVE  Readers' = Readers /\ Writers' = Writers
    BY <1>2 DEF Start, Done, StartRead, StartWrite, DoneRead, DoneWrite, Call
  <1>3. ASSUME NEW t \in Threads, Acquire(t) \/ SpuriousWakeup(t) \/ ReadWaits(t)
        PROVE  UNCHANGED pc
    BY <1>3 DEF Acquire, SpuriousWakeup, ReadWaits, Leave
  <1>4. ASSUME NEW t \in Threads, WriteWaits(t)
        PROVE  Readers' = Readers /\ Writers' = Writers
    BY <1>4 DEF WriteWaits, Leave
  <1>5. ASSUME NEW t \in Threads, ReadEnters(t) PROVE RW!BeginRead(t)
    <2>1. Writers = {}
      BY <1>5, CountZero DEF ReadEnters, ReaderMustWait
    <2>2. t \notin Readers /\ Readers' = Readers \cup {t} /\ Writers' = Writers
      BY <1>5 DEF ReadEnters, Leave
    <2> QED BY <2>1, <2>2 DEF RW!BeginRead
  <1>6. ASSUME NEW t \in Threads, ReadLeaves(t) PROVE RW!EndRead(t)
    <2>1. t \in Readers /\ Readers' = Readers \ {t} /\ Writers' = Writers
      BY <1>6 DEF ReadLeaves, Leave
    <2> QED BY <2>1 DEF RW!EndRead
  <1>7. ASSUME NEW t \in Threads, WriteEnters(t) PROVE RW!BeginWrite(t)
    <2>1. Readers = {} /\ Writers = {}
      BY <1>7, CountZero DEF WriteEnters, WriterMustWait
    <2>2. Writers' = Writers \cup {t} /\ Readers' = Readers
      BY <1>7 DEF WriteEnters, Leave
    <2> QED BY <2>1, <2>2 DEF RW!BeginWrite
  <1>8. ASSUME NEW t \in Threads, WriteLeaves(t) PROVE RW!EndWrite(t)
    <2>1. t \in Writers /\ Writers' = Writers \ {t} /\ Readers' = Readers
      BY <1>8 DEF WriteLeaves, Leave
    <2> QED BY <2>1 DEF RW!EndWrite
  <1>9. CASE UNCHANGED vars
    BY <1>1, <1>9 DEF vars
  <1>10. CASE Next
    <2> USE DEF RW!Next
    <2>1. PICK t \in Threads :
            Start(t) \/ Done(t) \/ Acquire(t) \/ Monitor(t) \/ SpuriousWakeup(t)
      BY <1>10 DEF Next
    <2> HIDE DEF Readers, Writers, Inv, TypeOK
    <2> QED BY <2>1, <1>1, <1>2, <1>3, <1>4, <1>5, <1>6, <1>7, <1>8 DEF Monitor
  <1> QED BY <1>9, <1>10

(* RWLock implements ReadersWriters, for any number of threads. *)
THEOREM ImplementsReadersWriters == Spec => Implements
  <1>1. Init => RW!Init
    BY DEF Init, RW!Init, Readers, Writers
  <1> QED BY <1>1, StepMaps, SpecInv, PTL DEF Spec, Implements, RW!Spec

(* No reader overtakes a writer that waits, for any number of threads. *)
THEOREM WritePriorityCorrect == Spec => WritePriority
  <1> DEFINE Priority == \A t \in Threads :
                           t \in Readers' \ Readers => Writers \cup Waiting = {}
  <1>1. ASSUME Inv, NEW u \in Threads, ReadEnters(u) PROVE Writers \cup Waiting = {}
    BY <1>1, CountZero DEF Inv, TypeOK, ReadEnters, ReaderMustWait
  <1>2. ASSUME Inv, NEW u \in Threads, NEW t \in Threads, t \in Readers' \ Readers,
               \/ Start(u) \/ Done(u) \/ Acquire(u) \/ SpuriousWakeup(u)
               \/ ReadWaits(u) \/ ReadLeaves(u)
               \/ WriteWaits(u) \/ WriteEnters(u) \/ WriteLeaves(u)
        PROVE  FALSE
    <2>1. CASE Start(u) \/ Done(u)
      BY <1>2, <2>1 DEF Start, Done, StartRead, StartWrite, DoneRead, DoneWrite, Call,
                        Readers, Inv, TypeOK
    <2>2. CASE Acquire(u) \/ SpuriousWakeup(u)
      BY <1>2, <2>2 DEF Acquire, SpuriousWakeup, Readers
    <2>3. CASE ReadWaits(u) \/ ReadLeaves(u)
      BY <1>2, <2>3 DEF ReadWaits, ReadLeaves, Leave, Readers, Inv, TypeOK
    <2>4. CASE WriteWaits(u) \/ WriteEnters(u) \/ WriteLeaves(u)
      BY <1>2, <2>4 DEF WriteWaits, WriteEnters, WriteLeaves, Leave, Readers, Inv, TypeOK
    <2> QED BY <1>2, <2>1, <2>2, <2>3, <2>4
  <1>3. Inv /\ [Next]_vars => [Priority]_vars
    BY <1>1, <1>2 DEF Next, Monitor
  <1>4. Spec => [][Priority]_vars
    <2> HIDE DEF Priority
    <2> QED BY <1>3, SpecInv, PTL DEF Spec
  <1> QED BY <1>4 DEF WritePriority
=============================================================================
