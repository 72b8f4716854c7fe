------------------------------- MODULE RWLock -------------------------------
(***************************************************************************)
(* The readers/writer lock with writer priority of project_1a (pthreads)   *)
(* and project_1b (Nachos threads): a monitor of three counters, one lock  *)
(* and the condition variables Rcond and Wcond.                            *)
(*                                                                         *)
(* A call runs from getting the lock to Release or Wait in one step, since *)
(* only the thread that has the lock touches the counters.  A thread woken *)
(* from Wait competes for the lock with every other thread (Mesa style).   *)
(***************************************************************************)
EXTENDS Integers, FiniteSets

CONSTANTS Threads,
          SpuriousWakeups,  \* TRUE: Wait may return unsignalled, as pthread_cond_wait may
          NULL              \* no thread

ASSUME ThreadAssumption == IsFiniteSet(Threads) /\ NULL \notin Threads
ASSUME WakeupAssumption == SpuriousWakeups \in BOOLEAN

VARIABLES pc,        \* where each thread is; "waitWrite" is inside the loop of startWrite
          lock,      \* the thread that has the lock
          Rcond,     \* readers asleep in Rcond->Wait
          Wcond,     \* writers asleep in Wcond->Wait
          w_wait,    \* counters of waiting writers, active writers, active readers
          w_active,
          r_active

vars == <<pc, lock, Rcond, Wcond, w_wait, w_active, r_active>>

InMonitor == {"startRead", "doneRead", "startWrite", "waitWrite", "doneWrite"}

Init == /\ pc = [t \in Threads |-> "idle"]
        /\ lock = NULL
        /\ Rcond = {} /\ Wcond = {}
        /\ w_wait = 0 /\ w_active = 0 /\ r_active = 0

-----------------------------------------------------------------------------
(* The thread calls one of the four operations. *)
Call(t, from, to) == /\ pc[t] = from
                     /\ pc' = [pc EXCEPT ![t] = to]
                     /\ UNCHANGED <<lock, Rcond, Wcond, w_wait, w_active, r_active>>

StartRead(t)  == Call(t, "idle", "startRead")
StartWrite(t) == Call(t, "idle", "startWrite")
DoneRead(t)   == Call(t, "reading", "doneRead")
DoneWrite(t)  == Call(t, "writing", "doneWrite")

(* lock->Acquire(), at the head of a call or on the way out of Wait. *)
Acquire(t) == /\ lock = NULL
              /\ pc[t] \in InMonitor /\ t \notin Rcond \cup Wcond
              /\ lock' = t
              /\ UNCHANGED <<pc, Rcond, Wcond, w_wait, w_active, r_active>>

(* The end of a call or the start of a wait: t gives the lock up at `to'. *)
Leave(t, to) == lock' = NULL /\ pc' = [pc EXCEPT ![t] = to]

(* Condition::Signal: wake one sleeper of cond, if there is one. *)
OneWoken(cond) == IF cond = {} THEN {{}} ELSE {cond \ {t} : t \in cond}

(* Mutant: readers do not give way to writers that wait. *)
NoPriority     == w_active # 0
ReaderMustWait == w_active # 0 \/ w_wait # 0

ReadWaits(t) ==
  /\ lock = t /\ pc[t] = "startRead" /\ ReaderMustWait
  /\ Rcond' = Rcond \cup {t}
  /\ Leave(t, "startRead")
  /\ UNCHANGED <<Wcond, w_wait, w_active, r_active>>

ReadEnters(t) ==
  /\ lock = t /\ pc[t] = "startRead" /\ ~ReaderMustWait
  /\ r_active' = r_active + 1
  /\ Leave(t, "reading")
  /\ UNCHANGED <<Rcond, Wcond, w_wait, w_active>>

(* 0 == --r_active.  Mutant: 0 == r_active--. *)
PostDecrement == r_active = 0
LastReader    == r_active - 1 = 0

ReadLeaves(t) ==
  /\ lock = t /\ pc[t] = "doneRead"
  /\ r_active' = r_active - 1
  /\ Wcond' \in IF LastReader THEN OneWoken(Wcond) ELSE {Wcond}
  /\ Leave(t, "idle")
  /\ UNCHANGED <<Rcond, w_wait, w_active>>

(* Mutants: writers ignore the readers inside; writers ignore one another. *)
ReadersIgnored == w_active # 0
WritersIgnored == r_active # 0
WriterMustWait == r_active # 0 \/ w_active # 0

WriteWaits(t) ==
  /\ lock = t /\ pc[t] \in {"startWrite", "waitWrite"} /\ WriterMustWait
  /\ w_wait' = IF pc[t] = "startWrite" THEN w_wait + 1 ELSE w_wait
  /\ Wcond' = Wcond \cup {t}
  /\ Leave(t, "waitWrite")
  /\ UNCHANGED <<Rcond, w_active, r_active>>

(* The waiting writers once t enters.  Mutants: t always counts itself out; *)
(* t never does.                                                            *)
AlwaysCountedOut(t) == w_wait - 1
NeverCountedOut(t)  == w_wait
WaitersAfter(t) == IF pc[t] = "waitWrite" THEN w_wait - 1 ELSE w_wait

WriteEnters(t) ==
  /\ lock = t /\ pc[t] \in {"startWrite", "waitWrite"} /\ ~WriterMustWait
  /\ w_wait' = WaitersAfter(t)
  /\ w_active' = w_active + 1
  /\ Leave(t, "writing")
  /\ UNCHANGED <<Rcond, Wcond, r_active>>

(* Who is left asleep on Rcond when no writer waits.  Mutant: Signal takes *)
(* the place of Broadcast.                                                 *)
SignalReaders    == OneWoken(Rcond)
BroadcastReaders == {{}}

WriteLeaves(t) ==
  /\ lock = t /\ pc[t] = "doneWrite"
  /\ w_active' = w_active - 1
  /\ \/ w_wait # 0 /\ Wcond' \in OneWoken(Wcond) /\ UNCHANGED Rcond
     \/ w_wait = 0 /\ Rcond' \in BroadcastReaders /\ UNCHANGED Wcond
  /\ Leave(t, "idle")
  /\ UNCHANGED <<w_wait, r_active>>

(* pthread_cond_wait returns without a signal. *)
SpuriousWakeup(t) ==
  /\ SpuriousWakeups /\ t \in Rcond \cup Wcond
  /\ Rcond' = Rcond \ {t} /\ Wcond' = Wcond \ {t}
  /\ UNCHANGED <<pc, lock, w_wait, w_active, r_active>>

Monitor(t) == \/ ReadWaits(t)  \/ ReadEnters(t)  \/ ReadLeaves(t)
              \/ WriteWaits(t) \/ WriteEnters(t) \/ WriteLeaves(t)

Start(t) == StartRead(t) \/ StartWrite(t)
Done(t)  == DoneRead(t) \/ DoneWrite(t)

Next == \E t \in Threads :
          Start(t) \/ Done(t) \/ Acquire(t) \/ Monitor(t) \/ SpuriousWakeup(t)

Spec == Init /\ [][Next]_vars

(* A ready thread is run, a free lock goes to a thread that wants it, and  *)
(* a thread that is inside leaves; no thread has to come back.             *)
Fairness == \A t \in Threads : WF_vars(Acquire(t)) /\ WF_vars(Monitor(t)) /\ WF_vars(Done(t))

FairSpec == Spec /\ Fairness

-----------------------------------------------------------------------------
Readers == {t \in Threads : pc[t] \in {"reading", "doneRead"}}
Writers == {t \in Threads : pc[t] \in {"writing", "doneWrite"}}
Waiting == {t \in Threads : pc[t] = "waitWrite"}

(* Every variable has its type; sleepers are where the code puts them, and *)
(* the thread that has the lock is awake.                                  *)
TypeOK ==
  /\ pc \in [Threads -> InMonitor \cup {"idle", "reading", "writing"}]
  /\ lock \in Threads \cup {NULL}
  /\ lock # NULL => pc[lock] \in InMonitor /\ lock \notin Rcond \cup Wcond
  /\ Rcond \subseteq {t \in Threads : pc[t] = "startRead"}
  /\ Wcond \subseteq Waiting
  /\ w_wait \in Nat /\ w_active \in Nat /\ r_active \in Nat

(* A writer shares the lock with nobody: the two tests TEST_RW_WEXCLUDE    *)
(* and TEST_RW_RWEXCLUDE of threadtest.cc, for every interleaving.         *)
Exclusion == \A t \in Writers : Readers = {} /\ Writers = {t}

(* The counters count the threads they are named for, through every wait   *)
(* and every wake-up that turns out to be premature.                       *)
CountersExact == /\ r_active = Cardinality(Readers)
                 /\ w_active = Cardinality(Writers)
                 /\ w_wait   = Cardinality(Waiting)

(* No wake-up is lost: while a thread sleeps, some thread is inside, or    *)
(* has been woken, whose way out will signal it.                           *)
SleepersHaveAWaker ==
  /\ Rcond # {} => Writers \cup Waiting # {}
  /\ Wcond # {} => Writers \cup Readers \cup (Waiting \ Wcond) # {}

(* Writer priority, "if a writer is active or waiting, we need to wait"    *)
(* (rwlock.cc:24): no reader gets in past a writer that waits or writes.   *)
WritePriority ==
  [][\A t \in Threads : t \in Readers' \ Readers => Writers \cup Waiting = {}]_vars

(* RWLock implements ReadersWriters. *)
RW == INSTANCE ReadersWriters WITH readers <- Readers, writers <- Writers
Implements == RW!Spec

(* Once threads stop asking, and waits end only by signals, every thread  *)
(* that has asked gets in and out: nobody is left asleep by a Signal where *)
(* Broadcast was needed, or by a wake-up spent on a thread that waits on.  *)
Quiet == [][\A t \in Threads : ~Start(t) /\ ~SpuriousWakeup(t)]_vars
Quiesces == <>Quiet => <>[](\A t \in Threads : pc[t] = "idle")
=============================================================================
