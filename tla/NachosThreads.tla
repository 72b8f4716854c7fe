--------------------------- MODULE NachosThreads ---------------------------
(***************************************************************************)
(* The Nachos thread system of project_1b: the scheduler and its ready     *)
(* list, threads that fork, yield, sleep and finish, and the semaphore,    *)
(* lock and condition variable of synch.cc, used by arbitrary threads.     *)
(*                                                                         *)
(* There is one processor.  A primitive runs with interrupts off, so it is *)
(* one step, unless it puts its thread to sleep; the step that follows its *)
(* wake-up goes on inside the primitive, with interrupts still off.  A     *)
(* timer interrupt takes effect when a primitive turns interrupts on: it   *)
(* is a Yield between two primitives.                                      *)
(***************************************************************************)
EXTENDS Integers, Sequences, FiniteSets

CONSTANTS Threads,
          Main,          \* the thread Nachos starts with
          InitialValue,  \* of the semaphore
          MaxValue,      \* bound on the semaphore's value
          NULL           \* no thread

ASSUME ThreadAssumption == IsFiniteSet(Threads) /\ Main \in Threads /\ NULL \notin Threads
ASSUME ValueAssumption  == InitialValue \in Nat /\ MaxValue \in Nat /\ InitialValue <= MaxValue

VARIABLES
  current,              \* the thread on the processor; NULL once Idle has halted the machine
  ready,                \* the ready list
  doing,                \* where each thread is: "run" outside every primitive, or the
                        \* primitive it sleeps in or was woken in
  threadToBeDestroyed,  \* a finished thread whose stack may still be in use
  destroyed,            \* the threads that have been deleted
  semValue, semQueue,   \* the semaphore
  lockValue, lockQueue, threadHolding,   \* the lock
  condQueue,            \* the condition variable
  inside                \* threads that returned from Acquire or Wait and have the lock, they think

semaphore == <<semValue, semQueue>>
lock      == <<lockValue, lockQueue, threadHolding>>
monitor   == <<lock, condQueue, inside>>
vars      == <<current, ready, doing, threadToBeDestroyed, destroyed, semaphore, monitor>>

Elements(q) == {q[i] : i \in DOMAIN q}

(* Lock::Lock leaves threadHolding as it finds it; NULL stands for every   *)
(* value that is no thread of this program.                                *)
Init ==
  /\ current = Main
  /\ ready = <<>>
  /\ doing = [t \in Threads |-> IF t = Main THEN "run" ELSE "unborn"]
  /\ threadToBeDestroyed = NULL
  /\ destroyed = {}
  /\ semValue = InitialValue /\ semQueue = <<>>
  /\ lockValue = 1 /\ lockQueue = <<>> /\ threadHolding = NULL
  /\ condQueue = <<>>
  /\ inside = {}

-----------------------------------------------------------------------------
(* Scheduler::Run after the old thread was left at d[old], with list r to  *)
(* choose from and threadToBeDestroyed = c.  Whoever returns from SWITCH   *)
(* deletes c; a thread that runs for the first time does not, since it     *)
(* starts in ThreadRoot.  With nobody ready Idle halts the machine.        *)
SwitchFrom(r, d, c) ==
  \/ /\ r = <<>>
     /\ current' = NULL
     /\ doing' = d /\ threadToBeDestroyed' = c
     /\ UNCHANGED <<ready, destroyed>>
  \/ /\ r # <<>> /\ d[Head(r)] = "new"
     /\ current' = Head(r) /\ ready' = Tail(r)
     /\ doing' = [d EXCEPT ![Head(r)] = "run"] /\ threadToBeDestroyed' = c
     /\ UNCHANGED destroyed
  \/ /\ r # <<>> /\ d[Head(r)] # "new"
     /\ current' = Head(r) /\ ready' = Tail(r)
     /\ doing' = d /\ threadToBeDestroyed' = NULL
     /\ destroyed' = destroyed \cup ({c} \ {NULL})

(* The ready list r after ReadyToRun of each thread of q.  Mutant: they go *)
(* to its head.                                                            *)
ReadyFirst(r, q) == q \o r
ReadyToRun(r, q) == r \o q

SleepIn(t, primitive, r) ==
  SwitchFrom(r, [doing EXCEPT ![t] = primitive], threadToBeDestroyed)

Returns(t) == /\ doing' = [doing EXCEPT ![t] = "run"]
              /\ UNCHANGED <<current, ready, threadToBeDestroyed, destroyed>>

Runs(t, where) == current = t /\ doing[t] \in where

Wake(q) == /\ ready' = ReadyToRun(ready, q)
           /\ UNCHANGED <<current, doing, threadToBeDestroyed, destroyed>>

(* What List::Remove takes off a queue: its first element, if it has one.  *)
First(q) == SubSeq(q, 1, IF q = <<>> THEN 0 ELSE 1)

(* The queue after the threads in woken were removed from its front.       *)
(* Mutant: they are read but not unlinked.                                 *)
NotUnlinked(q, woken) == q
Without(q, woken) == SubSeq(q, Len(woken) + 1, Len(q))

-----------------------------------------------------------------------------
(* Threads. *)
Fork(t, u) ==
  /\ Runs(t, {"run"}) /\ doing[u] = "unborn"
  /\ doing' = [doing EXCEPT ![u] = "new"]
  /\ ready' = ReadyToRun(ready, <<u>>)
  /\ UNCHANGED <<current, threadToBeDestroyed, destroyed, semaphore, monitor>>

(* The call, and the end of a time slice: the next thread is taken off the *)
(* list before t is put on it.                                             *)
Yield(t) ==
  /\ Runs(t, {"run"}) /\ ready # <<>>
  /\ SwitchFrom(<<Head(ready)>> \o ReadyToRun(Tail(ready), <<t>>), doing, threadToBeDestroyed)
  /\ UNCHANGED <<semaphore, monitor>>

Finish(t) ==
  /\ Runs(t, {"run"})
  /\ SwitchFrom(ready, [doing EXCEPT ![t] = "finished"], t)
  /\ UNCHANGED <<semaphore, monitor>>

-----------------------------------------------------------------------------
(* Semaphores.  Mutants: P tests the value with an if in place of a while; *)
(* V wakes a waiter only when it raises the value from 0.                  *)
TakesOnceWoken(t) == semValue # 0 \/ doing[t] = "P"
Takes(t) == semValue # 0

WokenFromZero == IF semValue = 0 THEN First(semQueue) ELSE <<>>
WokenByV == First(semQueue)

P(t) ==
  /\ Runs(t, {"run", "P"})
  /\ \/ /\ Takes(t)
        /\ semValue' = semValue - 1
        /\ Returns(t)
        /\ UNCHANGED semQueue
     \/ /\ ~Takes(t)
        /\ semQueue' = Append(semQueue, t)
        /\ SleepIn(t, "P", ready)
        /\ UNCHANGED semValue
  /\ UNCHANGED monitor

V(t) ==
  /\ Runs(t, {"run"}) /\ semValue < MaxValue
  /\ Wake(WokenByV)
  /\ semQueue' = Without(semQueue, WokenByV)
  /\ semValue' = semValue + 1
  /\ UNCHANGED monitor

-----------------------------------------------------------------------------
(* The lock.  A thread that has it returns from Acquire at once; one that  *)
(* does not have it returns from Release at once.                          *)
(* Mutant: the value is tested with an if in place of a while.             *)
GetsOnceWoken(t) == lockValue = 1 \/ doing[t] = "Acquire"
Gets(t) == lockValue = 1

Acquire(t) ==
  /\ \/ Runs(t, {"run", "Wait"}) /\ threadHolding # t
     \/ Runs(t, {"Acquire"})
  /\ \/ /\ Gets(t)
        /\ lockValue' = 0 /\ threadHolding' = t
        /\ inside' = inside \cup {t}
        /\ Returns(t)
        /\ UNCHANGED lockQueue
     \/ /\ ~Gets(t)
        /\ lockQueue' = Append(lockQueue, t)
        /\ SleepIn(t, "Acquire", ready)
        /\ UNCHANGED <<lockValue, threadHolding, inside>>
  /\ UNCHANGED <<condQueue, semaphore>>

(* Who is woken when the lock is let go.  Mutant: nobody. *)
NobodyWoken == <<>>
WokenByRelease == First(lockQueue)

(* Lock::Release by the thread that has the lock. *)
Free == /\ lockValue' = 1 /\ threadHolding' = NULL
        /\ lockQueue' = Without(lockQueue, WokenByRelease)

Release(t) ==
  /\ Runs(t, {"run"}) /\ threadHolding = t
  /\ Wake(WokenByRelease)
  /\ Free
  /\ inside' = inside \ {t}
  /\ UNCHANGED <<condQueue, semaphore>>

(* Condition variables: every operation returns at once unless its caller  *)
(* has the lock.  Wait gives the lock up and sleeps in one step, and       *)
(* competes for the lock again when it is woken.                           *)
Wait(t) ==
  /\ Runs(t, {"run"}) /\ threadHolding = t
  /\ condQueue' = Append(condQueue, t)
  /\ Free
  /\ inside' = inside \ {t}
  /\ SleepIn(t, "Wait", ReadyToRun(ready, WokenByRelease))
  /\ UNCHANGED semaphore

Signal(t) ==
  /\ Runs(t, {"run"}) /\ threadHolding = t
  /\ Wake(First(condQueue))
  /\ condQueue' = Without(condQueue, First(condQueue))
  /\ UNCHANGED <<lock, inside, semaphore>>

Broadcast(t) ==
  /\ Runs(t, {"run"}) /\ threadHolding = t
  /\ Wake(condQueue)
  /\ condQueue' = <<>>
  /\ UNCHANGED <<lock, inside, semaphore>>

Step(t) == \/ \E u \in Threads : Fork(t, u)
           \/ Yield(t) \/ Finish(t)
           \/ P(t) \/ V(t)
           \/ Acquire(t) \/ Release(t) \/ Wait(t) \/ Signal(t) \/ Broadcast(t)

Next == \E t \in Threads : Step(t)

Spec == Init /\ [][Next]_vars

(* With -rs the timer interrupts at random, again and again, so that a     *)
(* thread that keeps calling primitives is made to yield.                  *)
FairSpec == Spec /\ WF_vars(Next) /\ SF_vars(\E t \in Threads : Yield(t))

-----------------------------------------------------------------------------
Alive     == {t \in Threads : doing[t] \notin {"unborn", "finished"}}
Queued    == semQueue \o lockQueue \o condQueue
InLoop(w, q) == {t \in Threads : doing[t] = w} \ Elements(q)

(* Every variable has its type. *)
TypeOK ==
  /\ current \in Threads \cup {NULL}
  /\ ready \in Seq(Threads)
  /\ doing \in [Threads -> {"unborn", "new", "run", "P", "Acquire", "Wait", "finished"}]
  /\ threadToBeDestroyed \in Threads \cup {NULL}
  /\ destroyed \subseteq Threads
  /\ semValue \in 0..MaxValue /\ semQueue \in Seq(Threads)
  /\ lockValue \in {0, 1} /\ lockQueue \in Seq(Threads)
  /\ threadHolding \in Threads \cup {NULL}
  /\ condQueue \in Seq(Threads)
  /\ inside \subseteq Threads

(* No thread is lost and none is in two places: every thread alive is on   *)
(* the processor, on the ready list or on one queue, exactly once.         *)
EachThreadOnce ==
  LET all == ready \o Queued
  IN  /\ \A i, j \in DOMAIN all : all[i] = all[j] => i = j
      /\ current \notin Elements(all)
      /\ Elements(all) \cup ({current} \ {NULL}) = Alive

(* A V is not lost: threads sleep in P only while as many others as the    *)
(* value has room for have been woken and have yet to take it.             *)
SemaphoreWakeups == semQueue # <<>> => semValue <= Cardinality(InLoop("P", semQueue))

(* A Release is not lost: nobody sleeps for a FREE lock unless a thread    *)
(* has been woken that has yet to try it.                                  *)
LockWakeups ==
  lockQueue # <<>> /\ lockValue = 1 => InLoop("Acquire", lockQueue) # {}

(* The lock and the condition variable implement MesaMonitor: nobody takes *)
(* the lock from its holder, also across a Wait and its re-Acquire, and a  *)
(* Signal or a Broadcast finds every thread that gave the lock up to wait. *)
Mesa == INSTANCE MesaMonitor WITH holder <- threadHolding, waiting <- Elements(condQueue)
ImplementsMonitor == Mesa!Spec

(* The ready list is fair: a ready thread gets the processor. *)
ReadyRuns == \A t \in Threads : t \in Elements(ready) ~> t \notin Elements(ready)
=============================================================================
