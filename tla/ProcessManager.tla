--------------------------- MODULE ProcessManager ---------------------------
(***************************************************************************)
(* Processes of project_3b: process ids, and the system calls Fork, Exec,  *)
(* Join and Exit as ProcessManager and exception.cc carry them out.        *)
(*                                                                         *)
(* There is one processor.  Without a timer a process loses it only where  *)
(* it gives it up; with one (-rs) also where a primitive of synch.cc turns *)
(* interrupts on again, so Join is cut after Acquire, after Wait, and      *)
(* after Release.  Exit runs with interrupts off and is cut only where it  *)
(* has to sleep for the lock.  One lock and one condition variable belong  *)
(* to each process id; they are the ones of NachosThreads.                 *)
(***************************************************************************)
EXTENDS Integers, Sequences, FiniteSets

CONSTANTS Threads,        \* the kernel threads processes run on
          Main,           \* the thread of the program the kernel is started with
          MAX_PROCESSES,
          ExitStatuses,   \* what processes pass to Exit
          HeapStatuses,   \* what pcbStatuses may hold before anyone wrote to it
          NULL

Pids == 0..(MAX_PROCESSES - 1)

ASSUME ThreadAssumption == IsFiniteSet(Threads) /\ Main \in Threads /\ NULL \notin Threads
ASSUME PidAssumption    == MAX_PROCESSES \in Nat \ {0}
ASSUME StatusAssumption ==
  /\ ExitStatuses \subseteq Int /\ HeapStatuses \subseteq Int /\ HeapStatuses # {}
  /\ NULL \notin Int

VARIABLES
  timer,     \* TRUE if the kernel was started with -rs
  pc,        \* where each thread is: "none" (no process), "run", or inside Join or Exit
  pid,       \* the process id in each thread's PCB, -1 if it was given none
  target,    \* the id each thread joins
  processesBitMap, processesWaitingOnPID, pcbStatuses,
  lock,      \* the thread that has the lock of each id
  lockQueue, \* the threads asleep in Acquire on it
  condQueue, \* the threads asleep in Wait on it
  outcome,   \* history: the status on record when the process a thread joins exited, NULL before
  halted     \* TRUE once an assertion failed or memory outside an array was used

locks == <<lock, lockQueue, condQueue>>
table == <<processesBitMap, processesWaitingOnPID>>
vars  == <<timer, pc, pid, target, table, pcbStatuses, locks, outcome, halted>>

Init ==
  /\ timer \in BOOLEAN
  /\ pc = [t \in Threads |-> IF t = Main THEN "run" ELSE "none"]
  /\ pid = [t \in Threads |-> IF t = Main THEN 0 ELSE -1]
  /\ target = [t \in Threads |-> -1]
  /\ processesBitMap = {0}
  /\ processesWaitingOnPID = [p \in Pids |-> IF p = 0 THEN 1 ELSE 0]
  /\ pcbStatuses \in [Pids -> HeapStatuses]
  /\ lock = [p \in Pids |-> NULL]
  /\ lockQueue = [p \in Pids |-> <<>>]
  /\ condQueue = [p \in Pids |-> {}]
  /\ outcome = [t \in Threads |-> NULL]
  /\ halted = FALSE

Queued(t, p) == \E i \in DOMAIN lockQueue[p] : lockQueue[p][i] = t

(* t can be on the processor: without a timer nobody else is in the middle *)
(* of a system call it has not given up the processor in.                  *)
Dispatched(t) ==
  /\ ~halted
  /\ timer \/ \A u \in Threads \ {t} : pc[u] \notin {"locked", "woken", "return"}

At(t, where) == Dispatched(t) /\ pc[t] = where

Goto(t, where) == pc' = [pc EXCEPT ![t] = where]

Halt == halted' = TRUE /\ UNCHANGED <<pc, pid, target, table, pcbStatuses, locks, outcome>>

-----------------------------------------------------------------------------
(* Lock::Acquire once: t gets the lock of p or goes to sleep for it.       *)
Take(t, p, got, waits) ==
  /\ UNCHANGED condQueue
  /\ \/ /\ lock[p] = NULL
        /\ lock' = [lock EXCEPT ![p] = t]
        /\ Goto(t, got)
        /\ UNCHANGED lockQueue
     \/ /\ lock[p] # NULL
        /\ lockQueue' = [lockQueue EXCEPT ![p] = Append(@, t)]
        /\ Goto(t, waits)
        /\ UNCHANGED lock

(* Lock::Release: the lock is free and the first thread asleep for it is   *)
(* woken to try again.                                                     *)
Woken(q) == SubSeq(q, 2, Len(q))
LetGo(p) == lock' = [lock EXCEPT ![p] = NULL] /\ lockQueue' = [lockQueue EXCEPT ![p] = Woken(@)]

(* Mutant of Uncount: the id is given back one too early. *)
UncountEarly(p) ==
  /\ processesWaitingOnPID' = [processesWaitingOnPID EXCEPT ![p] = @ - 1]
  /\ processesBitMap' = IF processesWaitingOnPID'[p] = 1 THEN processesBitMap \ {p}
                                                         ELSE processesBitMap

(* An id is free again once nobody is counted for it. *)
Uncount(p) ==
  /\ processesWaitingOnPID' = [processesWaitingOnPID EXCEPT ![p] = @ - 1]
  /\ processesBitMap' = IF processesWaitingOnPID'[p] = 0 THEN processesBitMap \ {p}
                                                         ELSE processesBitMap

GetStatus(p) == IF p \in processesBitMap THEN pcbStatuses[p] ELSE -1

-----------------------------------------------------------------------------
(* getPID for the new thread u.  When every id is taken, Find returns -1   *)
(* and the count at index -1, the last element of pcbStatuses, is set to 1.*)
FirstFree(p) == p \in Pids \ processesBitMap /\ \A q \in Pids \ processesBitMap : p <= q

GetPID(p) ==
  /\ FirstFree(p)
  /\ processesBitMap' = processesBitMap \cup {p}
  /\ processesWaitingOnPID' = [processesWaitingOnPID EXCEPT ![p] = 1]
  /\ UNCHANGED pcbStatuses

NoPID ==
  /\ processesBitMap = Pids
  /\ pcbStatuses' = [pcbStatuses EXCEPT ![MAX_PROCESSES - 1] = 1]
  /\ UNCHANGED table

Starts(u, p) == Goto(u, "run") /\ pid' = [pid EXCEPT ![u] = p]

(* Fork gives up when there is no id. *)
Fork(t, u) ==
  /\ At(t, "run") /\ pc[u] = "none"
  /\ \/ \E p \in Pids : GetPID(p) /\ Starts(u, p)
     \/ NoPID /\ UNCHANGED <<pc, pid>>
  /\ UNCHANGED <<target, locks, outcome, halted>>

(* Exec goes on with id -1. *)
Exec(t, u) ==
  /\ At(t, "run") /\ pc[u] = "none"
  /\ \/ \E p \in Pids : GetPID(p) /\ Starts(u, p)
     \/ NoPID /\ Starts(u, -1)
  /\ UNCHANGED <<target, locks, outcome, halted>>

-----------------------------------------------------------------------------
(* Join.  It returns at once, or gets the lock of the id. *)
Join(t, p) ==
  /\ At(t, "run")
  /\ \/ p = -1 /\ Halt
     \/ /\ p \in Pids /\ GetStatus(p) < 0
        /\ UNCHANGED vars
     \/ /\ p \in Pids /\ GetStatus(p) >= 0
        /\ target' = [target EXCEPT ![t] = p]
        /\ Take(t, p, "locked", "join")
        /\ UNCHANGED <<pid, table, pcbStatuses, outcome, halted>>

JoinAgain(t) ==
  /\ At(t, "join") /\ ~Queued(t, target[t])
  /\ Take(t, target[t], "locked", "join")
  /\ UNCHANGED <<pid, target, table, pcbStatuses, outcome, halted>>

(* Mutant of JoinSleeps: the thread does not count itself. *)
SleepsUncounted(t) ==
  /\ At(t, "locked")
  /\ condQueue' = [condQueue EXCEPT ![target[t]] = @ \cup {t}]
  /\ LetGo(target[t])
  /\ Goto(t, "asleep")
  /\ UNCHANGED <<pid, target, table, pcbStatuses, outcome, halted>>

(* The thread counts itself and goes to sleep, whatever became of the process. *)
JoinSleeps(t) ==
  /\ At(t, "locked")
  /\ processesWaitingOnPID' = [processesWaitingOnPID EXCEPT ![target[t]] = @ + 1]
  /\ condQueue' = [condQueue EXCEPT ![target[t]] = @ \cup {t}]
  /\ LetGo(target[t])
  /\ Goto(t, "asleep")
  /\ UNCHANGED <<pid, target, processesBitMap, pcbStatuses, outcome, halted>>

JoinWakes(t) ==
  /\ At(t, "asleep") /\ t \notin condQueue[target[t]] /\ ~Queued(t, target[t])
  /\ Take(t, target[t], "woken", "asleep")
  /\ UNCHANGED <<pid, target, table, pcbStatuses, outcome, halted>>

JoinLeaves(t) ==
  /\ At(t, "woken")
  /\ Uncount(target[t])
  /\ LetGo(target[t])
  /\ Goto(t, "return")
  /\ UNCHANGED <<pid, target, pcbStatuses, condQueue, outcome, halted>>

(* Join returns GetStatus(target[t]). *)
JoinReturns(t) ==
  /\ At(t, "return")
  /\ Goto(t, "run")
  /\ target' = [target EXCEPT ![t] = -1]
  /\ outcome' = [outcome EXCEPT ![t] = NULL]
  /\ UNCHANGED <<pid, table, pcbStatuses, locks, halted>>

-----------------------------------------------------------------------------
(* Mutants of Broadcast: a Signal, and one condition for all processes. *)
SignalOne(p) ==
  IF condQueue[p] = {} THEN UNCHANGED condQueue
  ELSE \E u \in condQueue[p] : condQueue' = [condQueue EXCEPT ![p] = @ \ {u}]
OneForAll(p) == condQueue' = [q \in Pids |-> {}]

Broadcast(p) == condQueue' = [condQueue EXCEPT ![p] = {}]

(* Mutant of Finish: its Release wakes nobody. *)
FinishSilently(t, p, status) ==
  /\ lock[p] = NULL
  /\ Broadcast(p)
  /\ outcome' = [u \in Threads |-> IF u \in condQueue[p] THEN status ELSE outcome[u]]
  /\ Uncount(p)
  /\ Goto(t, "none")
  /\ pid' = [pid EXCEPT ![t] = -1]
  /\ UNCHANGED <<target, lock, lockQueue>>

(* Exit: the status is published; with the lock, which it gets and lets go *)
(* in one step, it wakes everyone in Wait and the first in line for the    *)
(* lock; and the id is given back.  A thread that was given no id uses     *)
(* what lies before the arrays for its condition and lock.                 *)
Finish(t, p, status) ==
  /\ lock[p] = NULL
  /\ Broadcast(p)
  /\ LetGo(p)
  /\ outcome' = [u \in Threads |-> IF u \in condQueue[p] THEN status ELSE outcome[u]]
  /\ Uncount(p)
  /\ Goto(t, "none")
  /\ pid' = [pid EXCEPT ![t] = -1]
  /\ UNCHANGED target

WaitToFinish(t, p) ==
  /\ lock[p] # NULL
  /\ lockQueue' = [lockQueue EXCEPT ![p] = Append(@, t)]
  /\ Goto(t, "exit")
  /\ UNCHANGED <<pid, target, table, lock, condQueue, outcome>>

Exit(t, status) ==
  /\ At(t, "run")
  /\ \/ pid[t] = -1 /\ Halt
     \/ /\ pid[t] # -1
        /\ pcbStatuses' = [pcbStatuses EXCEPT ![pid[t]] = status]
        /\ Finish(t, pid[t], status) \/ WaitToFinish(t, pid[t])
        /\ UNCHANGED halted

ExitAgain(t) ==
  /\ At(t, "exit") /\ ~Queued(t, pid[t])
  /\ Finish(t, pid[t], pcbStatuses[pid[t]]) \/ WaitToFinish(t, pid[t])
  /\ UNCHANGED <<pcbStatuses, halted>>

-----------------------------------------------------------------------------
Kernel(t) == \/ JoinAgain(t) \/ JoinSleeps(t) \/ JoinWakes(t) \/ JoinLeaves(t) \/ JoinReturns(t)
             \/ ExitAgain(t)

Step == \E t \in Threads :
          \/ \E u \in Threads : Fork(t, u) \/ Exec(t, u)
          \/ \E p \in Pids \cup {-1} : Join(t, p)
          \/ \E status \in ExitStatuses : Exit(t, status)
          \/ Kernel(t)

Next == Step /\ UNCHANGED timer

Spec == Init /\ [][Next]_vars

(* The ready list is FIFO: a thread that is ready gets the processor. *)
FairSpec == Spec /\ \A t \in Threads : SF_vars(Kernel(t) /\ UNCHANGED timer)

-----------------------------------------------------------------------------
InJoin     == {"join", "locked", "asleep", "woken"}
HoldsLock  == {"locked", "woken"}
Processes(p) == {t \in Threads : pc[t] # "none" /\ pid[t] = p}
Wants(t, p)  == \/ pc[t] = "join" /\ target[t] = p
                \/ pc[t] = "exit" /\ pid[t] = p
                \/ pc[t] = "asleep" /\ target[t] = p /\ t \notin condQueue[p]
Trying(p)    == {t \in Threads : Wants(t, p) /\ ~Queued(t, p)}
Sleepers(p)  == {t \in Threads : pc[t] \in {"asleep", "woken"} /\ target[t] = p}

(* Every variable has its type; without a timer no count gets below zero.  *)
TypeOK ==
  /\ timer \in BOOLEAN
  /\ pc \in [Threads -> InJoin \cup {"none", "run", "return", "exit"}]
  /\ pid \in [Threads -> Pids \cup {-1}]
  /\ target \in [Threads -> Pids \cup {-1}]
  /\ \A t \in Threads : pc[t] \in InJoin => target[t] \in Pids
  /\ processesBitMap \subseteq Pids
  /\ processesWaitingOnPID \in [Pids -> IF timer THEN Int ELSE Nat]
  /\ pcbStatuses \in [Pids -> Int]
  /\ lock \in [Pids -> Threads \cup {NULL}]
  /\ lockQueue \in [Pids -> Seq(Threads)]
  /\ condQueue \in [Pids -> SUBSET Threads]
  /\ outcome \in [Threads -> Int \cup {NULL}]
  /\ halted \in BOOLEAN

(* The lock of an id is held exactly by a thread between Acquire and Wait, *)
(* or between Wait and Release, of a Join on that id; and no Release is    *)
(* lost, that of an Exit included: while threads sleep for a lock that is  *)
(* free, one has been woken that has yet to try it.                        *)
LockExact ==
  \A p \in Pids :
    /\ \A t \in Threads : lock[p] = t <=> pc[t] \in HoldsLock /\ target[t] = p
    /\ lockQueue[p] # <<>> => lock[p] # NULL \/ Trying(p) # {}

(* getPID, join and clearPID count ids exactly: an id is marked while a    *)
(* process has it or a thread waits for it, and its count says how many;   *)
(* no two processes have the same id.  It needs that no timer runs: Join   *)
(* looks at the status before it counts itself.                            *)
IdsCounted ==
  \A p \in Pids :
    /\ Cardinality(Processes(p)) <= 1
    /\ processesWaitingOnPID[p] = Cardinality(Processes(p)) + Cardinality(Sleepers(p))
    /\ p \in processesBitMap <=> processesWaitingOnPID[p] # 0

PidsExact == ~timer => IdsCounted

(* A Join that slept in Wait returns only after the process with that id   *)
(* went through broadcast.                                                 *)
NoEarlyReturn == \A t \in Threads : pc[t] \in {"woken", "return"} => outcome[t] # NULL

(* The value joinImpl returns is the status the process exited with.       *)
JoinReturnsStatus ==
  [][\A t \in Threads : ~timer /\ JoinReturns(t) => GetStatus(target[t]) = outcome[t]]_vars

(* It is that status or -1, never another process's, unless it was the one *)
(* with the last id, whose status getPID overwrites when ids run out.      *)
JoinReturnsStatusOrFailure ==
  [][\A t \in Threads : ~timer /\ JoinReturns(t) /\ target[t] # MAX_PROCESSES - 1 =>
       GetStatus(target[t]) \in {-1, outcome[t]}]_vars

(* Everyone who sleeps in Wait when the process exits gets out of Join.    *)
WokenReturn ==
  \A t \in Threads : ~timer /\ pc[t] = "asleep" /\ outcome[t] # NULL ~> pc[t] = "run" \/ halted
=============================================================================
