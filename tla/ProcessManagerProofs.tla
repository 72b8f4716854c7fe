------------------------ MODULE ProcessManagerProofs ------------------------
(***************************************************************************)
(* Proofs about ProcessManager for any number of threads and process ids.  *)
(* The locks and wake-ups of Join are right whether or not the timer runs; *)
(* the counts of ids and the status Join returns need that it does not.    *)
(***************************************************************************)
EXTENDS ProcessManager, FiniteSetTheorems, SequenceTheorems, TLAPS

Mid == {"locked", "woken", "return"}

(* TypeOK without the claim that counts are natural numbers. *)
Types ==
  /\ pc \in [Threads -> InJoin \cup {"none", "run", "return", "exit"}]
  /\ pid \in [Threads -> Pids \cup {-1}]
  /\ target \in [Threads -> Pids \cup {-1}]
  /\ \A t \in Threads : pc[t] \in InJoin => target[t] \in Pids
  /\ \A t \in Threads : pc[t] = "exit" => pid[t] \in Pids
  /\ processesBitMap \subseteq Pids
  /\ processesWaitingOnPID \in [Pids -> Int]
  /\ pcbStatuses \in [Pids -> Int]
  /\ lock \in [Pids -> Threads \cup {NULL}]
  /\ lockQueue \in [Pids -> Seq(Threads)]
  /\ condQueue \in [Pids -> SUBSET Threads]
  /\ outcome \in [Threads -> Int \cup {NULL}]
  /\ halted \in BOOLEAN

(* What the actions share. *)
Begins(t, u) ==
  /\ At(t, "run") /\ pc[u] = "none"
  /\ \/ \E p \in Pids : GetPID(p) /\ Starts(u, p)
     \/ NoPID /\ (Starts(u, -1) \/ UNCHANGED <<pc, pid>>)
  /\ UNCHANGED <<target, locks, outcome, halted>>

LEMMA ForkBegins == ASSUME NEW t, NEW u, Fork(t, u) PROVE Begins(t, u)
  BY DEF Fork, Begins

LEMMA ExecBegins == ASSUME NEW t, NEW u, Exec(t, u) PROVE Begins(t, u)
  BY DEF Exec, Begins

LEMMA WokenType == \A q \in Seq(Threads) : Woken(q) \in Seq(Threads)
  BY SubSeqProperties DEF Woken

LEMMA LastPid == MAX_PROCESSES - 1 \in Pids /\ 0 \in Pids /\ -1 \notin Pids
  BY PidAssumption DEF Pids

LEMMA InitTypes == Init => Types
  <1> SUFFICES ASSUME Init PROVE Types OBVIOUS
  <1> USE ThreadAssumption, StatusAssumption, LastPid
  <1>1. pcbStatuses \in [Pids -> Int]
    BY DEF Init
  <1>2. lockQueue \in [Pids -> Seq(Threads)]
    BY DEF Init
  <1>3. /\ pc \in [Threads -> InJoin \cup {"none", "run", "return", "exit"}]
        /\ \A t \in Threads : pc[t] \notin InJoin /\ pc[t] # "exit"
    BY DEF Init, InJoin
  <1>4. pid \in [Threads -> Pids \cup {-1}] /\ target \in [Threads -> Pids \cup {-1}]
    BY DEF Init
  <1>5. processesBitMap \subseteq Pids /\ processesWaitingOnPID \in [Pids -> Int]
    BY DEF Init
  <1>6. /\ lock \in [Pids -> Threads \cup {NULL}] /\ condQueue \in [Pids -> SUBSET Threads]
        /\ outcome \in [Threads -> Int \cup {NULL}] /\ halted \in BOOLEAN
    BY DEF Init
  <1> QED BY <1>1, <1>2, <1>3, <1>4, <1>5, <1>6 DEF Types

LEMMA BeginsTypes ==
  ASSUME Types, NEW t \in Threads, NEW u \in Threads, Begins(t, u)
  PROVE  Types'
  <1>1. /\ \/ UNCHANGED <<pc, pid>>
           \/ \E p \in Pids \cup {-1} : pc' = [pc EXCEPT ![u] = "run"] /\ pid' = [pid EXCEPT ![u] = p]
        /\ UNCHANGED <<target, lock, lockQueue, condQueue, outcome, halted>>
    BY DEF Begins, Starts, Goto, locks
  <1>2. /\ processesBitMap' \subseteq Pids /\ processesWaitingOnPID' \in [Pids -> Int]
        /\ pcbStatuses' \in [Pids -> Int]
    BY LastPid DEF Types, Begins, GetPID, NoPID, table
  <1>3. pid' \in [Threads -> Pids \cup {-1}]
    BY <1>1 DEF Types
  <1>4. /\ pc' \in [Threads -> InJoin \cup {"none", "run", "return", "exit"}]
        /\ \A v \in Threads : pc'[v] \in InJoin \cup {"exit"} => pc'[v] = pc[v] /\ pid'[v] = pid[v]
    BY <1>1 DEF Types, InJoin
  <1> QED BY <1>1, <1>2, <1>3, <1>4 DEF Types

LEMMA LetGoTypes ==
  ASSUME Types, NEW p \in Pids, LetGo(p)
  PROVE  lock' \in [Pids -> Threads \cup {NULL}] /\ lockQueue' \in [Pids -> Seq(Threads)]
  BY WokenType DEF Types, LetGo

LEMMA TakeTypes ==
  ASSUME Types, NEW t \in Threads, NEW p \in Pids, NEW got, NEW waits, Take(t, p, got, waits)
  PROVE  /\ lock' \in [Pids -> Threads \cup {NULL}] /\ lockQueue' \in [Pids -> Seq(Threads)]
         /\ condQueue' \in [Pids -> SUBSET Threads]
         /\ \/ pc' = [pc EXCEPT ![t] = got]
            \/ pc' = [pc EXCEPT ![t] = waits]
  <1>1. CASE lock[p] = NULL
    <2>1. UNCHANGED <<lockQueue, condQueue>> /\ lock' = [lock EXCEPT ![p] = t] /\ Goto(t, got)
      BY <1>1 DEF Take
    <2> QED BY <2>1 DEF Types, Goto
  <1>2. CASE lock[p] # NULL
    <2>1. Append(lockQueue[p], t) \in Seq(Threads)
      BY AppendProperties DEF Types
    <2>2. /\ UNCHANGED <<lock, condQueue>>
          /\ lockQueue' = [lockQueue EXCEPT ![p] = Append(@, t)]
          /\ pc' = [pc EXCEPT ![t] = waits]
      BY <1>2 DEF Take, Goto
    <2>3. lockQueue' \in [Pids -> Seq(Threads)]
      BY <2>1, <2>2 DEF Types
    <2> QED BY <2>2, <2>3 DEF Types
  <1> QED BY <1>1, <1>2

LEMMA UncountTypes ==
  ASSUME Types, NEW p \in Pids, Uncount(p)
  PROVE  processesBitMap' \subseteq Pids /\ processesWaitingOnPID' \in [Pids -> Int]
  BY DEF Types, Uncount

LEMMA FinishTypes ==
  ASSUME Types, NEW t \in Threads, NEW p \in Pids, NEW status \in Int,
         Finish(t, p, status) \/ (pid[t] = p /\ WaitToFinish(t, p)),
         pcbStatuses' \in [Pids -> Int], UNCHANGED halted
  PROVE  Types'
  <1>1. CASE Finish(t, p, status)
    <2>1. lock' \in [Pids -> Threads \cup {NULL}] /\ lockQueue' \in [Pids -> Seq(Threads)]
      BY <1>1, LetGoTypes DEF Finish
    <2> QED BY <1>1, <2>1, UncountTypes DEF Types, Finish, Broadcast, Goto, InJoin
  <1>2. CASE pid[t] = p /\ WaitToFinish(t, p)
    BY <1>2 DEF Types, WaitToFinish, Goto, InJoin, table
  <1> QED BY <1>1, <1>2

LEMMA NextTypes == Types /\ [Next]_vars => Types'
  <1> SUFFICES ASSUME Types, [Next]_vars PROVE Types' OBVIOUS
  <1>1. CASE UNCHANGED vars
    BY <1>1 DEF Types, vars, table, locks
  <1>2. ASSUME NEW t \in Threads, NEW u \in Threads, Fork(t, u) \/ Exec(t, u) PROVE Types'
    BY <1>2, ForkBegins, ExecBegins, BeginsTypes
  <1>3. ASSUME NEW t \in Threads, NEW p \in Pids \cup {-1}, Join(t, p) PROVE Types'
    <2>1. CASE Halt
      BY <2>1 DEF Types, Halt, table, locks
    <2>2. CASE UNCHANGED vars
      BY <2>2, <1>1
    <2>3. CASE p \in Pids /\ Take(t, p, "locked", "join") /\ target' = [target EXCEPT ![t] = p]
               /\ UNCHANGED <<pid, table, pcbStatuses, outcome, halted>>
      <3>1. lock' \in [Pids -> Threads \cup {NULL}] /\ lockQueue' \in [Pids -> Seq(Threads)]
            /\ condQueue' \in [Pids -> SUBSET Threads]
        BY <2>3, TakeTypes
      <3>2. pc' = [pc EXCEPT ![t] = "locked"] \/ pc' = [pc EXCEPT ![t] = "join"]
        BY <2>3, TakeTypes
      <3> QED BY <2>3, <3>1, <3>2 DEF Types, table, InJoin
    <2> QED BY <1>3, <2>1, <2>2, <2>3 DEF Join
  <1>4. ASSUME NEW t \in Threads, JoinAgain(t) \/ JoinWakes(t) PROVE Types'
    <2>1. target[t] \in Pids
      BY <1>4 DEF Types, JoinAgain, JoinWakes, At, InJoin
    <2>2. /\ Take(t, target[t], "locked", "join") \/ Take(t, target[t], "woken", "asleep")
          /\ UNCHANGED <<pid, target, table, pcbStatuses, outcome, halted>>
      BY <1>4 DEF JoinAgain, JoinWakes
    <2>3. lock' \in [Pids -> Threads \cup {NULL}] /\ lockQueue' \in [Pids -> Seq(Threads)]
          /\ condQueue' \in [Pids -> SUBSET Threads]
      BY <2>1, <2>2, TakeTypes
    <2>4. \E where \in InJoin : pc' = [pc EXCEPT ![t] = where]
      BY <2>1, <2>2, TakeTypes DEF InJoin
    <2> QED BY <2>1, <2>2, <2>3, <2>4 DEF Types, table, InJoin
  <1>5. ASSUME NEW t \in Threads, JoinSleeps(t) PROVE Types'
    <2>1. target[t] \in Pids
      BY <1>5 DEF Types, JoinSleeps, At, InJoin
    <2> QED BY <1>5, <2>1, LetGoTypes DEF Types, JoinSleeps, Goto, InJoin
  <1>6. ASSUME NEW t \in Threads, JoinLeaves(t) PROVE Types'
    <2>1. target[t] \in Pids
      BY <1>6 DEF Types, JoinLeaves, At, InJoin
    <2> QED BY <1>6, <2>1, LetGoTypes, UncountTypes DEF Types, JoinLeaves, Goto, InJoin
  <1>7. ASSUME NEW t \in Threads, JoinReturns(t) PROVE Types'
    BY <1>7, LastPid DEF Types, JoinReturns, Goto, InJoin, table, locks
  <1>8. ASSUME NEW t \in Threads, NEW status \in ExitStatuses, Exit(t, status) PROVE Types'
    <2>1. CASE Halt
      BY <2>1 DEF Types, Halt, table, locks
    <2>2. CASE pid[t] # -1 /\ pcbStatuses' = [pcbStatuses EXCEPT ![pid[t]] = status]
               /\ (Finish(t, pid[t], status) \/ WaitToFinish(t, pid[t])) /\ UNCHANGED halted
      <3>1. pid[t] \in Pids /\ status \in Int
        BY <2>2, StatusAssumption DEF Types
      <3>2. pcbStatuses' \in [Pids -> Int]
        BY <2>2, <3>1 DEF Types
      <3> QED BY <2>2, <3>1, <3>2, FinishTypes
    <2> QED BY <1>8, <2>1, <2>2 DEF Exit
  <1>9. ASSUME NEW t \in Threads, ExitAgain(t) PROVE Types'
    <2>1. pid[t] \in Pids /\ pcbStatuses[pid[t]] \in Int
      BY <1>9 DEF Types, ExitAgain, At
    <2> QED BY <1>9, <2>1, FinishTypes DEF Types, ExitAgain
  <1> QED BY <1>1, <1>2, <1>3, <1>4, <1>5, <1>6, <1>7, <1>8, <1>9 DEF Next, Step, Kernel

LEMMA SpecTypes == Spec => []Types
  BY InitTypes, NextTypes, PTL DEF Spec

-----------------------------------------------------------------------------
(* The lock of an id: who holds it. *)
HeldExact ==
  \A p \in Pids, t \in Threads :
    lock[p] = t <=> pc[t] \in HoldsLock /\ target[t] = p

LEMMA NextHeldExact == Types /\ HeldExact /\ [Next]_vars => HeldExact'
  <1> SUFFICES ASSUME Types, HeldExact, [Next]_vars PROVE HeldExact' OBVIOUS
  <1> USE ThreadAssumption
  <1>1. CASE UNCHANGED vars \/ (Halt)
    BY <1>1 DEF HeldExact, Halt, vars, table, locks
  <1>2. ASSUME NEW t \in Threads, NEW u \in Threads, Fork(t, u) \/ Exec(t, u) PROVE HeldExact'
    <2>1. Begins(t, u)
      BY <1>2, ForkBegins, ExecBegins
    <2>2. UNCHANGED <<target, lock>> /\ \A v \in Threads : pc'[v] \in HoldsLock <=> pc[v] \in HoldsLock
      BY <2>1 DEF Types, Begins, Starts, Goto, locks, HoldsLock
    <2> QED BY <2>2 DEF HeldExact
  <1>3. ASSUME NEW t \in Threads, NEW p \in Pids, pc[t] \notin HoldsLock,
               NEW got \in HoldsLock, NEW waits, waits \notin HoldsLock,
               Take(t, p, got, waits), target' = [target EXCEPT ![t] = p]
        PROVE  HeldExact'
    <2>1. CASE lock[p] = NULL
      BY <1>3, <2>1 DEF Types, HeldExact, Take, Goto
    <2>2. CASE lock[p] # NULL
      BY <1>3, <2>2 DEF Types, HeldExact, Take, Goto
    <2> QED BY <2>1, <2>2
  <1>4. ASSUME NEW t \in Threads, NEW p \in Pids \cup {-1}, Join(t, p) PROVE HeldExact'
    BY <1>1, <1>3, <1>4 DEF Join, At, HoldsLock
  <1>5. ASSUME NEW t \in Threads, JoinAgain(t) \/ JoinWakes(t) PROVE HeldExact'
    <2>1. target[t] \in Pids /\ pc[t] \notin HoldsLock
      BY <1>5 DEF Types, JoinAgain, JoinWakes, At, InJoin, HoldsLock
    <2>2. Take(t, target[t], "locked", "join") \/ Take(t, target[t], "woken", "asleep")
      BY <1>5 DEF JoinAgain, JoinWakes
    <2>3. target' = [target EXCEPT ![t] = target[t]]
      BY <1>5 DEF Types, JoinAgain, JoinWakes
    <2> QED BY <2>1, <2>2, <2>3, <1>3 DEF HoldsLock
  <1>6. ASSUME NEW t \in Threads, pc[t] \in HoldsLock, UNCHANGED target, LetGo(target[t]),
               NEW to, to \notin HoldsLock, Goto(t, to)
        PROVE  HeldExact'
    <2>1. target[t] \in Pids /\ lock[target[t]] = t
      BY <1>6 DEF Types, HeldExact, HoldsLock, InJoin
    <2> QED BY <1>6, <2>1 DEF Types, HeldExact, LetGo, Goto
  <1>7. ASSUME NEW t \in Threads, JoinSleeps(t) \/ JoinLeaves(t) PROVE HeldExact'
    BY <1>6, <1>7 DEF JoinSleeps, JoinLeaves, At, HoldsLock
  <1>8. ASSUME NEW t \in Threads, UNCHANGED lock,
               \A u \in Threads \ {t} : pc'[u] = pc[u] /\ target'[u] = target[u],
               pc[t] \notin HoldsLock, pc'[t] \notin HoldsLock
        PROVE  HeldExact'
    BY <1>8 DEF HeldExact
  <1>9. ASSUME NEW t \in Threads, JoinReturns(t) PROVE HeldExact'
    BY <1>8, <1>9 DEF Types, JoinReturns, At, Goto, HoldsLock, locks
  <1>10. ASSUME NEW t \in Threads, NEW p, NEW status, pc[t] \notin HoldsLock,
                Finish(t, p, status) \/ WaitToFinish(t, p)
         PROVE  HeldExact'
    <2>1. UNCHANGED lock
      BY <1>10 DEF Types, Finish, WaitToFinish, LetGo
    <2> QED BY <1>8, <1>10, <2>1 DEF Types, Finish, WaitToFinish, Goto, HoldsLock
  <1>11. ASSUME NEW t \in Threads, NEW status \in ExitStatuses, Exit(t, status) PROVE HeldExact'
    BY <1>1, <1>10, <1>11 DEF Exit, At, HoldsLock
  <1>12. ASSUME NEW t \in Threads, ExitAgain(t) PROVE HeldExact'
    BY <1>10, <1>12 DEF ExitAgain, At, HoldsLock
  <1> QED BY <1>1, <1>2, <1>4, <1>5, <1>7, <1>9, <1>11, <1>12 DEF Next, Step, Kernel

LEMMA SpecHeldExact == Spec => [](Types /\ HeldExact)
  <1>1. Init => HeldExact
    BY ThreadAssumption DEF Init, HeldExact, HoldsLock
  <1> QED BY <1>1, NextHeldExact, SpecTypes, PTL DEF Spec

-----------------------------------------------------------------------------
(* The queue of a lock: threads that want it, each once, and with the lock *)
(* free one that has been woken.                                           *)
QueueOK(p) ==
  /\ \A t \in Threads : Queued(t, p) => Wants(t, p)
  /\ \A i, j \in DOMAIN lockQueue[p] : lockQueue[p][i] = lockQueue[p][j] => i = j
  /\ lockQueue[p] # <<>> => lock[p] # NULL \/ Trying(p) # {}

QueueInv == \A p \in Pids : QueueOK(p)

LEMMA WokenIs ==
  ASSUME NEW q \in Seq(Threads)
  PROVE  /\ Woken(q) \in Seq(Threads)
         /\ q = <<>> => Woken(q) = <<>>
         /\ q # <<>> => /\ DOMAIN Woken(q) = 1..(Len(q) - 1) /\ DOMAIN q = 1..Len(q) /\ Len(q) \in Nat \ {0}
                        /\ \A i \in 1..(Len(q) - 1) : Woken(q)[i] = q[i + 1]
  <1>1. CASE q = <<>>
    BY <1>1, WokenType DEF Woken
  <1>2. CASE q # <<>>
    <2>1. Len(q) \in Nat \ {0} /\ DOMAIN q = 1..Len(q)
      BY <1>2, EmptySeq
    <2>2. Woken(q) = SubSeq(q, 2, Len(q))
      BY DEF Woken
    <2>3. Len(Woken(q)) = Len(q) - 1 /\ \A i \in 1..(Len(q) - 1) : Woken(q)[i] = q[i + 1]
      BY <2>1, <2>2, SubSeqProperties
    <2>4. Woken(q) \in Seq(Threads)
      BY WokenType
    <2> QED BY <1>2, <2>1, <2>3, <2>4
  <1> QED BY <1>1, <1>2

LEMMA AppendIs ==
  ASSUME NEW q \in Seq(Threads), NEW t \in Threads
  PROVE  /\ DOMAIN q = 1..Len(q) /\ Len(q) \in Nat /\ DOMAIN Append(q, t) = 1..(Len(q) + 1)
         /\ \A i \in 1..Len(q) : Append(q, t)[i] = q[i]
         /\ Append(q, t)[Len(q) + 1] = t
  OBVIOUS

(* What one thread does, the others staying where they are. *)
OthersStay(t) ==
  \A u \in Threads \ {t} : /\ pc'[u] = pc[u] /\ target'[u] = target[u] /\ pid'[u] = pid[u]
                           /\ \A p \in Pids : u \notin condQueue[p] => u \notin condQueue'[p]

LEMMA OthersWant ==
  ASSUME NEW t, OthersStay(t), NEW u \in Threads \ {t}, NEW p \in Pids, Wants(u, p)
  PROVE  Wants(u, p)'
  BY DEF OthersStay, Wants

(* The queues stay as they are. *)
LEMMA QueuesKept ==
  ASSUME Types, QueueInv, NEW t \in Threads, OthersStay(t), UNCHANGED lockQueue,
         \A p \in Pids : ~Queued(t, p) /\ (lock[p] # NULL => lock'[p] # NULL)
                         /\ (Wants(t, p) => Wants(t, p)' \/ lock'[p] # NULL)
  PROVE  QueueInv'
  <1> SUFFICES ASSUME NEW p \in Pids PROVE QueueOK(p)'
    BY DEF QueueInv
  <1>1. QueueOK(p) /\ lockQueue[p] \in Seq(Threads)
    BY DEF QueueInv, Types
  <1>2. \A u \in Threads : Queued(u, p)' <=> Queued(u, p)
    BY DEF Queued
  <1>3. \A u \in Threads : Queued(u, p)' => Wants(u, p)'
    BY <1>1, <1>2, OthersWant DEF QueueOK
  <1>4. ASSUME lock'[p] = NULL, NEW u \in Trying(p) PROVE u \in Trying(p)'
    <2>1. u \in Threads /\ Wants(u, p) /\ ~Queued(u, p)
      BY <1>4 DEF Trying
    <2>2. Wants(u, p)'
      BY <1>4, <2>1, OthersWant
    <2>3. ~Queued(u, p)'
      BY <2>1 DEF Queued
    <2> QED BY <2>1, <2>2, <2>3 DEF Trying
  <1>5. lockQueue'[p] # <<>> => lock'[p] # NULL \/ Trying(p)' # {}
    <2> SUFFICES ASSUME lockQueue[p] # <<>>, lock'[p] = NULL PROVE Trying(p)' # {}
      OBVIOUS
    <2>1. PICK u \in Trying(p) : TRUE
      BY <1>1 DEF QueueOK
    <2> QED BY <1>4, <2>1
  <1> QED BY <1>1, <1>3, <1>5 DEF QueueOK

(* t goes to the end of the queue of p, whose lock is taken. *)
LEMMA QueueJoined ==
  ASSUME Types, QueueInv, NEW t \in Threads, NEW p \in Pids, OthersStay(t), UNCHANGED lock,
         lock[p] # NULL, lockQueue' = [lockQueue EXCEPT ![p] = Append(@, t)],
         Wants(t, p)', \A r \in Pids : ~Queued(t, r) /\ (Wants(t, r) => r = p)
  PROVE  QueueInv'
  <1> SUFFICES ASSUME NEW r \in Pids PROVE QueueOK(r)'
    BY DEF QueueInv
  <1>1. QueueOK(r) /\ lockQueue[r] \in Seq(Threads) /\ lockQueue \in [Pids -> Seq(Threads)]
    BY DEF QueueInv, Types
  <1>2. \A i \in DOMAIN lockQueue[r] : lockQueue[r][i] \in Threads \ {t}
    BY <1>1 DEF Queued
  <1>3. \A u \in Threads : Queued(u, r) => u # t /\ Wants(u, r)'
    BY <1>1, OthersWant DEF QueueOK
  <1>4. CASE r = p
    <2> PICK q \in Seq(Threads) : q = lockQueue[p]
      BY <1>1, <1>4
    <2>1. lockQueue'[p] = Append(q, t)
      BY <1>1
    <2>2. /\ DOMAIN q = 1..Len(q) /\ Len(q) \in Nat /\ DOMAIN Append(q, t) = 1..(Len(q) + 1)
          /\ \A i \in 1..Len(q) : Append(q, t)[i] = q[i]
          /\ Append(q, t)[Len(q) + 1] = t
      BY AppendIs
    <2>3. \A u \in Threads : Queued(u, p)' => Wants(u, p)'
      <3> SUFFICES ASSUME NEW u \in Threads, NEW i \in 1..(Len(q) + 1), Append(q, t)[i] = u PROVE Wants(u, p)'
        BY <2>1, <2>2 DEF Queued
      <3>1. CASE i = Len(q) + 1
        <4>1. u = t
          BY <2>2, <3>1
        <4> QED BY <4>1
      <3>2. CASE i # Len(q) + 1
        <4>1. i \in 1..Len(q) /\ u = q[i]
          BY <2>2, <3>2
        <4>2. Queued(u, r)
          BY <1>4, <2>2, <4>1 DEF Queued
        <4> QED BY <1>3, <1>4, <4>2
      <3> QED BY <3>1, <3>2
    <2>4. \A i, j \in DOMAIN lockQueue'[p] : lockQueue'[p][i] = lockQueue'[p][j] => i = j
      <3>1. \A i, j \in 1..Len(q) : q[i] = q[j] => i = j
        BY <1>1, <1>4, <2>2 DEF QueueOK
      <3>2. \A i \in 1..Len(q) : q[i] # t
        BY <1>2, <1>4, <2>2
      <3> HIDE DEF QueueInv
      <3> SUFFICES ASSUME NEW i \in 1..(Len(q) + 1), NEW j \in 1..(Len(q) + 1), Append(q, t)[i] = Append(q, t)[j]
                   PROVE  i = j
        BY <2>1, <2>2
      <3>3. \A k \in 1..(Len(q) + 1) : k \in 1..Len(q) \/ k = Len(q) + 1
        BY <2>2
      <3> QED BY <3>1, <3>2, <3>3, <2>2
    <2>5. lock'[p] # NULL
      OBVIOUS
    <2> QED BY <1>4, <2>3, <2>4, <2>5 DEF QueueOK
  <1>5. CASE r # p
    <2>1. lockQueue'[r] = lockQueue[r] /\ lock'[r] = lock[r]
      BY <1>1, <1>5
    <2>2. ASSUME NEW u \in Trying(r) PROVE u \in Trying(r)'
      <3>1. u \in Threads /\ Wants(u, r) /\ ~Queued(u, r)
        BY <2>2 DEF Trying
      <3>2. u # t
        BY <1>5, <3>1
      <3>3. Wants(u, r)'
        BY <3>1, <3>2, OthersWant
      <3>4. ~Queued(u, r)'
        BY <2>1, <3>1 DEF Queued
      <3> QED BY <3>1, <3>3, <3>4 DEF Trying
    <2>3. Trying(r) # {} => Trying(r)' # {}
      BY <2>2
    <2>4. \A u \in Threads : Queued(u, r)' => Queued(u, r)
      BY <2>1 DEF Queued
    <2> QED BY <1>1, <1>3, <2>1, <2>3, <2>4 DEF QueueOK
  <1> QED BY <1>4, <1>5

(* The lock of p is let go, and t no longer wants it. *)
LEMMA QueueLetGo ==
  ASSUME Types, QueueInv, NEW t \in Threads, NEW p \in Pids, OthersStay(t), LetGo(p),
         \A r \in Pids : ~Queued(t, r) /\ (Wants(t, r) => r = p)
  PROVE  QueueInv'
  <1> SUFFICES ASSUME NEW r \in Pids PROVE QueueOK(r)'
    BY DEF QueueInv
  <1>1. /\ QueueOK(r) /\ lockQueue[r] \in Seq(Threads) /\ lockQueue \in [Pids -> Seq(Threads)]
        /\ lock \in [Pids -> Threads \cup {NULL}]
    BY DEF QueueInv, Types
  <1>2. \A i \in DOMAIN lockQueue[r] : lockQueue[r][i] \in Threads \ {t}
    BY <1>1 DEF Queued
  <1>3. \A u \in Threads : Queued(u, r) => u # t /\ Wants(u, r)'
    BY <1>1, OthersWant DEF QueueOK
  <1>4. CASE r = p
    <2> PICK q \in Seq(Threads) : q = lockQueue[p]
      BY <1>1, <1>4
    <2>1. lockQueue'[p] = Woken(q)
      BY <1>1 DEF LetGo
    <2>2. CASE q = <<>>
      <3>1. lockQueue'[r] = <<>> /\ DOMAIN lockQueue'[r] = {}
        <4>1. lockQueue'[p] = <<>>
          BY <2>1, <2>2, WokenIs
        <4>2. \A e : e = <<>> => DOMAIN e = {}
          OBVIOUS
        <4> QED BY <1>4, <4>1, <4>2
      <3> QED BY <3>1 DEF QueueOK, Queued
    <2>3. CASE q # <<>>
      <3>1. /\ DOMAIN Woken(q) = 1..(Len(q) - 1) /\ DOMAIN q = 1..Len(q) /\ Len(q) \in Nat \ {0}
            /\ \A i \in 1..(Len(q) - 1) : Woken(q)[i] = q[i + 1]
        BY <2>3, WokenIs
      <3>2. \A i, j \in 1..Len(q) : q[i] = q[j] => i = j
        BY <1>1, <1>4, <3>1 DEF QueueOK
      <3>3. \A i \in 1..(Len(q) - 1) : i + 1 \in 1..Len(q)
        BY <3>1
      <3>4. \A u \in Threads : Queued(u, p)' => Wants(u, p)'
        <4>1. ASSUME NEW u \in Threads, Queued(u, p)' PROVE Queued(u, p)
          <5>1. PICK i \in 1..(Len(q) - 1) : Woken(q)[i] = u
            BY <2>1, <3>1, <4>1 DEF Queued
          <5>2. q[i + 1] = u /\ i + 1 \in DOMAIN q
            BY <3>1, <3>3, <5>1
          <5> QED BY <5>2 DEF Queued
        <4> QED BY <1>3, <1>4, <4>1
      <3>5. \A i, j \in DOMAIN lockQueue'[p] : lockQueue'[p][i] = lockQueue'[p][j] => i = j
        BY <2>1, <3>1, <3>2, <3>3
      <3>6. q[1] \in Threads /\ Wants(q[1], p)'
        <4>1. PICK u \in Threads : u = q[1]
          BY <1>2, <1>4, <3>1
        <4>2. Queued(u, p)
          BY <3>1, <4>1 DEF Queued
        <4>3. Wants(u, p)'
          BY <1>3, <1>4, <4>2
        <4> QED BY <4>1, <4>3
      <3>7. ~Queued(q[1], p)'
        <4>1. \A i \in 1..(Len(q) - 1) : i + 1 # 1
          BY <3>1
        <4>2. \A i \in 1..(Len(q) - 1) : Woken(q)[i] # q[1]
          BY <3>1, <3>2, <3>3, <4>1
        <4> QED BY <2>1, <3>1, <4>2 DEF Queued
      <3>8. q[1] \in Trying(p)'
        BY <3>6, <3>7 DEF Trying
      <3> QED BY <1>4, <3>4, <3>5, <3>8 DEF QueueOK
    <2> QED BY <2>2, <2>3
  <1>5. CASE r # p
    <2>1. lockQueue'[r] = lockQueue[r] /\ lock'[r] = lock[r]
      BY <1>1, <1>5 DEF LetGo
    <2>2. ASSUME NEW u \in Trying(r) PROVE u \in Trying(r)'
      <3>1. u \in Threads /\ Wants(u, r) /\ ~Queued(u, r)
        BY <2>2 DEF Trying
      <3>2. u # t
        BY <1>5, <3>1
      <3>3. Wants(u, r)'
        BY <3>1, <3>2, OthersWant
      <3>4. ~Queued(u, r)'
        BY <2>1, <3>1 DEF Queued
      <3> QED BY <3>1, <3>3, <3>4 DEF Trying
    <2>3. Trying(r) # {} => Trying(r)' # {}
      BY <2>2
    <2>4. \A u \in Threads : Queued(u, r)' => Queued(u, r)
      BY <2>1 DEF Queued
    <2> QED BY <1>1, <1>3, <2>1, <2>3, <2>4 DEF QueueOK
  <1> QED BY <1>4, <1>5

(* A thread in the queue of a lock wants that lock. *)
LEMMA QueuedWants ==
  ASSUME QueueInv, NEW t \in Threads, NEW p \in Pids, Queued(t, p)
  PROVE  Wants(t, p)
  BY DEF QueueInv, QueueOK

(* One pass through the loop of Acquire by a thread that is in no queue. *)
LEMMA TakeQueueInv ==
  ASSUME Types, QueueInv, NEW t \in Threads, NEW p \in Pids, NEW got, NEW waits, Take(t, p, got, waits),
         UNCHANGED pid, \A u \in Threads \ {t} : target'[u] = target[u], target'[t] = p,
         waits = "join" \/ (waits = "asleep" /\ pc[t] = "asleep" /\ t \notin condQueue[p]),
         \A r \in Pids : ~Queued(t, r) /\ (Wants(t, r) => r = p)
  PROVE  QueueInv'
  <1>1. CASE lock[p] = NULL
    <2>1. /\ lock' = [lock EXCEPT ![p] = t] /\ UNCHANGED <<lockQueue, condQueue>>
          /\ pc' = [pc EXCEPT ![t] = got]
      BY <1>1 DEF Take, Goto
    <2>2. OthersStay(t)
      BY <2>1 DEF OthersStay, Types
    <2>3. \A r \in Pids : (lock[r] # NULL => lock'[r] # NULL) /\ (Wants(t, r) => lock'[r] # NULL)
      BY <2>1, ThreadAssumption DEF Types
    <2> QED BY <2>1, <2>2, <2>3, QueuesKept
  <1>2. CASE lock[p] # NULL
    <2>1. /\ lockQueue' = [lockQueue EXCEPT ![p] = Append(@, t)] /\ UNCHANGED <<lock, condQueue>>
          /\ pc' = [pc EXCEPT ![t] = waits]
      BY <1>2 DEF Take, Goto
    <2>2. OthersStay(t)
      BY <2>1 DEF OthersStay, Types
    <2>3. Wants(t, p)'
      BY <2>1 DEF Wants, Types
    <2> QED BY <1>2, <2>1, <2>2, <2>3, QueueJoined
  <1> QED BY <1>1, <1>2

LEMMA ExitQueueInv ==
  ASSUME Types, QueueInv, NEW t \in Threads, NEW p \in Pids, pid[t] = p, NEW status,
         Finish(t, p, status) \/ WaitToFinish(t, p),
         \A r \in Pids : ~Queued(t, r) /\ (Wants(t, r) => r = p)
  PROVE  QueueInv'
  <1>1. CASE Finish(t, p, status)
    <2>1. OthersStay(t)
      BY <1>1 DEF OthersStay, Types, Finish, Goto, Broadcast
    <2> QED BY <1>1, <2>1, QueueLetGo DEF Finish
  <1>2. CASE WaitToFinish(t, p)
    <2>1. OthersStay(t)
      BY <1>2 DEF OthersStay, Types, WaitToFinish, Goto
    <2>2. Wants(t, p)'
      BY <1>2 DEF Wants, Types, WaitToFinish, Goto
    <2> QED BY <1>2, <2>1, <2>2, QueueJoined DEF WaitToFinish
  <1> QED BY <1>1, <1>2

LEMMA NextQueueInv == Types /\ QueueInv /\ [Next]_vars => QueueInv'
  <1> SUFFICES ASSUME Types, QueueInv, [Next]_vars PROVE QueueInv' OBVIOUS
  <1>1. CASE UNCHANGED vars \/ Halt
    BY <1>1 DEF QueueInv, QueueOK, Trying, Wants, Queued, Halt, vars, table, locks
  <1>2. ASSUME NEW t \in Threads, pc[t] \notin {"join", "exit", "asleep"}
        PROVE  \A r \in Pids : ~Queued(t, r) /\ ~Wants(t, r)
    BY <1>2, QueuedWants DEF Wants
  <1>3. ASSUME NEW t \in Threads, pc[t] \in {"join", "asleep"}, ~Queued(t, target[t])
        PROVE  \A r \in Pids : ~Queued(t, r) /\ (Wants(t, r) => r = target[t])
    BY <1>3, QueuedWants DEF Wants
  <1>4. ASSUME NEW t \in Threads, NEW u \in Threads, Fork(t, u) \/ Exec(t, u) PROVE QueueInv'
    <2>1. Begins(t, u)
      BY <1>4, ForkBegins, ExecBegins
    <2>2. UNCHANGED <<lock, lockQueue>> /\ OthersStay(u) /\ pc[u] = "none"
      BY <2>1 DEF Types, Begins, Starts, Goto, OthersStay, locks
    <2> QED BY <1>2, <2>2, QueuesKept
  <1>5. ASSUME NEW t \in Threads, NEW p \in Pids \cup {-1}, Join(t, p) PROVE QueueInv'
    <2>1. CASE p \in Pids /\ Take(t, p, "locked", "join") /\ target' = [target EXCEPT ![t] = p]
               /\ UNCHANGED <<pid, table, pcbStatuses, outcome, halted>> /\ At(t, "run")
      <3>1. target'[t] = p /\ \A u \in Threads \ {t} : target'[u] = target[u]
        BY <2>1 DEF Types
      <3> QED BY <1>2, <2>1, <3>1, TakeQueueInv DEF At
    <2> QED BY <1>1, <1>5, <2>1 DEF Join
  <1>6. ASSUME NEW t \in Threads, JoinAgain(t) PROVE QueueInv'
    <2>1. target[t] \in Pids /\ pc[t] = "join" /\ ~Queued(t, target[t])
      BY <1>6 DEF Types, JoinAgain, At, InJoin
    <2> QED BY <1>3, <1>6, <2>1, TakeQueueInv DEF JoinAgain
  <1>7. ASSUME NEW t \in Threads, JoinWakes(t) PROVE QueueInv'
    <2>1. target[t] \in Pids /\ pc[t] = "asleep" /\ ~Queued(t, target[t]) /\ t \notin condQueue[target[t]]
      BY <1>7 DEF Types, JoinWakes, At, InJoin
    <2> QED BY <1>3, <1>7, <2>1, TakeQueueInv DEF JoinWakes
  <1>8. ASSUME NEW t \in Threads, JoinSleeps(t) \/ JoinLeaves(t) PROVE QueueInv'
    <2>1. target[t] \in Pids /\ pc[t] \in {"locked", "woken"} /\ LetGo(target[t])
      BY <1>8 DEF Types, JoinSleeps, JoinLeaves, At, InJoin
    <2>2. OthersStay(t)
      <3>1. condQueue' = [condQueue EXCEPT ![target[t]] = @ \cup {t}] \/ UNCHANGED condQueue
        BY <1>8 DEF JoinSleeps, JoinLeaves
      <3>2. /\ UNCHANGED <<pid, target>>
            /\ pc' = [pc EXCEPT ![t] = "asleep"] \/ pc' = [pc EXCEPT ![t] = "return"]
        BY <1>8 DEF JoinSleeps, JoinLeaves, Goto
      <3>3. \A u \in Threads \ {t}, p \in Pids : u \notin condQueue[p] => u \notin condQueue'[p]
        <4>1. condQueue \in [Pids -> SUBSET Threads]
          BY DEF Types
        <4>2. CASE condQueue' = [condQueue EXCEPT ![target[t]] = @ \cup {t}]
          BY <2>1, <4>1, <4>2
        <4>3. CASE UNCHANGED condQueue
          BY <4>3
        <4> QED BY <3>1, <4>2, <4>3
      <3> QED BY <3>2, <3>3 DEF OthersStay, Types
    <2> QED BY <1>2, <2>1, <2>2, QueueLetGo
  <1>9. ASSUME NEW t \in Threads, JoinReturns(t) PROVE QueueInv'
    <2>1. pc[t] = "return" /\ UNCHANGED <<lock, lockQueue>> /\ OthersStay(t)
      BY <1>9 DEF OthersStay, Types, JoinReturns, At, Goto, locks
    <2> QED BY <1>2, <2>1, QueuesKept
  <1>10. ASSUME NEW t \in Threads, NEW status \in ExitStatuses, Exit(t, status) PROVE QueueInv'
    <2>1. CASE pid[t] # -1
      <3>1. pid[t] \in Pids /\ pc[t] = "run" /\ (Finish(t, pid[t], status) \/ WaitToFinish(t, pid[t]))
        BY <1>10, <2>1 DEF Types, Exit, At
      <3> QED BY <1>2, <3>1, ExitQueueInv
    <2> QED BY <1>1, <1>10, <2>1 DEF Exit
  <1>11. ASSUME NEW t \in Threads, ExitAgain(t) PROVE QueueInv'
    <2>1. /\ pid[t] \in Pids /\ pc[t] = "exit" /\ ~Queued(t, pid[t])
          /\ Finish(t, pid[t], pcbStatuses[pid[t]]) \/ WaitToFinish(t, pid[t])
      BY <1>11 DEF Types, ExitAgain, At
    <2>2. \A r \in Pids : ~Queued(t, r) /\ (Wants(t, r) => r = pid[t])
      BY <2>1, QueuedWants DEF Wants
    <2> QED BY <2>1, <2>2, ExitQueueInv
  <1> QED BY <1>1, <1>4, <1>5, <1>6, <1>7, <1>8, <1>9, <1>10, <1>11 DEF Next, Step, Kernel

(* The lock of an id is held exactly by a thread in the middle of its Join, *)
(* and while threads sleep for a lock that is free one has been woken that  *)
(* has yet to try it, with and without the timer.                           *)
THEOREM LockCorrect == Spec => []LockExact
  <1>1. Init => QueueInv
    BY DEF Init, QueueInv, QueueOK, Queued
  <1>2. HeldExact /\ QueueInv => LockExact
    BY DEF HeldExact, QueueInv, QueueOK, LockExact
  <1> QED BY <1>1, <1>2, NextQueueInv, SpecHeldExact, PTL DEF Spec

-----------------------------------------------------------------------------
(* Wake-ups.  Only threads asleep are in the queues of the conditions, and *)
(* the threads an exit has met are those that were taken off a queue.      *)
AsleepInQueue ==
  \A p \in Pids, t \in Threads : t \in condQueue[p] => pc[t] = "asleep" /\ target[t] = p
Roused == {t \in Threads : \/ pc[t] \in {"woken", "return"}
                           \/ pc[t] = "asleep" /\ t \notin condQueue[target[t]]}
RousedHaveOutcome == \A t \in Threads : t \in Roused <=> outcome[t] # NULL

WakeInv == AsleepInQueue /\ RousedHaveOutcome

(* A step that only moves t between places outside Wait. *)
LEMMA OutsideWait ==
  ASSUME Types, WakeInv, NEW t \in Threads, UNCHANGED <<condQueue, outcome>>,
         pc[t] \notin {"asleep", "woken", "return"},
         pc'[t] \notin {"asleep", "woken", "return"},
         \A u \in Threads \ {t} : pc'[u] = pc[u] /\ target'[u] = target[u]
  PROVE  WakeInv'
  <1>1. \A p \in Pids : t \notin condQueue[p]
    BY DEF WakeInv, AsleepInQueue
  <1>2. AsleepInQueue'
    BY <1>1 DEF WakeInv, AsleepInQueue
  <1>3. Roused' = Roused
    BY DEF Roused
  <1> QED BY <1>2, <1>3 DEF WakeInv, RousedHaveOutcome

LEMMA FinishWakeInv ==
  ASSUME Types, WakeInv, NEW t \in Threads, NEW p \in Pids, NEW status \in Int,
         pc[t] \notin {"asleep", "woken", "return"}, Finish(t, p, status)
  PROVE  WakeInv'
  <1> USE StatusAssumption
  <1>1. AsleepInQueue'
    BY DEF Types, WakeInv, AsleepInQueue, Finish, Broadcast, Goto
  <1>2. ASSUME NEW u \in Threads PROVE u \in Roused' <=> outcome'[u] # NULL
    <2>1. CASE u \in condQueue[p]
      <3>1. pc[u] = "asleep" /\ target[u] = p /\ u # t
        BY <2>1 DEF WakeInv, AsleepInQueue
      <3>2. pc'[u] = "asleep" /\ target'[u] = p /\ condQueue'[p] = {} /\ outcome'[u] = status
        BY <2>1, <3>1 DEF Types, Finish, Broadcast, Goto
      <3> QED BY <3>2 DEF Roused
    <2>2. CASE u \notin condQueue[p] /\ u # t
      <3>1. pc'[u] = pc[u] /\ target'[u] = target[u] /\ outcome'[u] = outcome[u]
        BY <2>2 DEF Types, Finish, Goto
      <3>2. pc[u] = "asleep" => (u \in condQueue'[target[u]] <=> u \in condQueue[target[u]])
        BY <2>2 DEF Types, Finish, Broadcast, InJoin
      <3> QED BY <3>1, <3>2 DEF Roused, WakeInv, RousedHaveOutcome
    <2>3. CASE u = t
      <3>1. pc'[t] = "none"
        BY DEF Types, Finish, Goto
      <3>2. t \notin condQueue[p] /\ outcome[t] = NULL
        BY DEF WakeInv, AsleepInQueue, RousedHaveOutcome, Roused
      <3> QED BY <2>3, <3>1, <3>2 DEF Finish, Roused
    <2> QED BY <2>1, <2>2, <2>3
  <1> QED BY <1>1, <1>2 DEF WakeInv, RousedHaveOutcome

LEMMA NextWakeInv == Types /\ WakeInv /\ [Next]_vars => WakeInv'
  <1> SUFFICES ASSUME Types, WakeInv, [Next]_vars PROVE WakeInv' OBVIOUS
  <1>1. CASE UNCHANGED vars \/ Halt
    BY <1>1 DEF WakeInv, AsleepInQueue, RousedHaveOutcome, Roused, Halt, vars, table, locks
  <1>2. ASSUME NEW t \in Threads, NEW u \in Threads, Fork(t, u) \/ Exec(t, u) PROVE WakeInv'
    <2>1. Begins(t, u)
      BY <1>2, ForkBegins, ExecBegins
    <2> QED BY <2>1, OutsideWait DEF Types, Begins, Starts, Goto, locks
  <1>3. ASSUME NEW t \in Threads, NEW p \in Pids \cup {-1}, Join(t, p) PROVE WakeInv'
    <2>1. CASE p \in Pids /\ Take(t, p, "locked", "join") /\ target' = [target EXCEPT ![t] = p]
               /\ UNCHANGED <<pid, table, pcbStatuses, outcome, halted>> /\ pc[t] = "run"
      BY <2>1, OutsideWait DEF Types, Take, Goto
    <2> QED BY <1>1, <1>3, <2>1 DEF Join, At
  <1>4. ASSUME NEW t \in Threads, JoinAgain(t) PROVE WakeInv'
    BY <1>4, OutsideWait DEF Types, JoinAgain, Take, Goto, At
  <1>5. ASSUME NEW t \in Threads, JoinSleeps(t) PROVE WakeInv'
    <2>1. target[t] \in Pids /\ pc[t] = "locked"
      BY <1>5 DEF Types, JoinSleeps, At, InJoin
    <2>2. outcome[t] = NULL
      BY <2>1 DEF WakeInv, RousedHaveOutcome, Roused
    <2>3. AsleepInQueue'
      BY <1>5, <2>1 DEF Types, WakeInv, AsleepInQueue, JoinSleeps, Goto
    <2>4. ASSUME NEW u \in Threads PROVE u \in Roused' <=> outcome[u] # NULL
      <3>1. CASE u = t
        BY <1>5, <2>1, <2>2, <3>1 DEF Types, JoinSleeps, Goto, Roused
      <3>2. CASE u # t
        BY <1>5, <2>1, <3>2 DEF Types, JoinSleeps, Goto, Roused, WakeInv, RousedHaveOutcome, InJoin
      <3> QED BY <3>1, <3>2
    <2> QED BY <1>5, <2>3, <2>4 DEF JoinSleeps, WakeInv, RousedHaveOutcome
  <1>6. ASSUME NEW t \in Threads, UNCHANGED <<target, condQueue, outcome>>, t \in Roused, t \in Roused',
               \A p \in Pids : t \notin condQueue[p],
               \A u \in Threads \ {t} : pc'[u] = pc[u]
        PROVE  WakeInv'
    <2>1. AsleepInQueue'
      BY <1>6 DEF WakeInv, AsleepInQueue
    <2>2. Roused' = Roused
      BY <1>6 DEF Roused
    <2> QED BY <1>6, <2>1, <2>2 DEF WakeInv, RousedHaveOutcome
  <1>7. ASSUME NEW t \in Threads, JoinWakes(t) PROVE WakeInv'
    <2>1. /\ pc[t] = "asleep" /\ t \notin condQueue[target[t]]
          /\ UNCHANGED <<target, condQueue, outcome>>
      BY <1>7 DEF JoinWakes, At, Take
    <2>2. pc' = [pc EXCEPT ![t] = "woken"] \/ pc' = [pc EXCEPT ![t] = "asleep"]
      BY <1>7 DEF JoinWakes, Take, Goto
    <2>3. t \in Roused /\ t \in Roused' /\ \A u \in Threads \ {t} : pc'[u] = pc[u]
      BY <2>1, <2>2 DEF Types, Roused
    <2>4. \A p \in Pids : t \notin condQueue[p]
      BY <2>1 DEF WakeInv, AsleepInQueue
    <2> QED BY <1>6, <2>1, <2>3, <2>4
  <1>8. ASSUME NEW t \in Threads, JoinLeaves(t) PROVE WakeInv'
    <2>1. pc[t] = "woken" /\ UNCHANGED <<target, condQueue, outcome>> /\ pc' = [pc EXCEPT ![t] = "return"]
      BY <1>8 DEF JoinLeaves, At, Goto
    <2>2. t \in Roused /\ t \in Roused' /\ \A u \in Threads \ {t} : pc'[u] = pc[u]
      BY <2>1 DEF Types, Roused
    <2>3. \A p \in Pids : t \notin condQueue[p]
      BY <2>1 DEF WakeInv, AsleepInQueue
    <2> QED BY <1>6, <2>1, <2>2, <2>3
  <1>9. ASSUME NEW t \in Threads, JoinReturns(t) PROVE WakeInv'
    <2>1. AsleepInQueue'
      BY <1>9 DEF Types, WakeInv, AsleepInQueue, JoinReturns, Goto, At, locks
    <2>2. ASSUME NEW u \in Threads PROVE u \in Roused' <=> outcome'[u] # NULL
      BY <1>9 DEF Types, WakeInv, RousedHaveOutcome, Roused, JoinReturns, Goto, At, locks
    <2> QED BY <2>1, <2>2 DEF WakeInv, RousedHaveOutcome
  <1>10. ASSUME NEW t \in Threads, NEW p, WaitToFinish(t, p),
                pc[t] \notin {"asleep", "woken", "return"}
         PROVE  WakeInv'
    BY <1>10, OutsideWait DEF Types, WaitToFinish, Goto
  <1>11. ASSUME NEW t \in Threads, NEW status \in ExitStatuses, Exit(t, status) PROVE WakeInv'
    <2>1. CASE Halt
      BY <2>1, <1>1
    <2>2. CASE pid[t] # -1
      <3>1. pid[t] \in Pids /\ status \in Int /\ pc[t] \notin {"asleep", "woken", "return"}
        BY <1>11, <2>2, StatusAssumption DEF Types, Exit, At
      <3> QED BY <1>11, <2>2, <3>1, <1>10, FinishWakeInv DEF Exit
    <2> QED BY <1>11, <2>1, <2>2 DEF Exit
  <1>12. ASSUME NEW t \in Threads, ExitAgain(t) PROVE WakeInv'
    <2>1. /\ pid[t] \in Pids /\ pcbStatuses[pid[t]] \in Int
          /\ pc[t] \notin {"asleep", "woken", "return"}
      BY <1>12 DEF Types, ExitAgain, At
    <2> QED BY <1>12, <2>1, <1>10, FinishWakeInv DEF ExitAgain
  <1> QED BY <1>1, <1>2, <1>3, <1>4, <1>5, <1>7, <1>8, <1>9, <1>11, <1>12 DEF Next, Step, Kernel

LEMMA SpecWakeInv == Spec => [](Types /\ WakeInv)
  <1>1. Init => WakeInv
    BY DEF Init, WakeInv, AsleepInQueue, RousedHaveOutcome, Roused
  <1> QED BY <1>1, NextWakeInv, SpecTypes, PTL DEF Spec

(* Nobody who slept in Join gets out of it before an exit woke it, with    *)
(* and without the timer.                                                  *)
THEOREM NoEarlyReturnCorrect == Spec => []NoEarlyReturn
  <1>1. WakeInv => NoEarlyReturn
    BY DEF WakeInv, RousedHaveOutcome, Roused, NoEarlyReturn
  <1> QED BY <1>1, SpecWakeInv, PTL

-----------------------------------------------------------------------------
(* Without the timer system calls do not overlap: nobody waits for a lock, *)
(* and a thread that is about to sleep in Join still finds its id marked.  *)
Serial ==
  /\ \A t \in Threads : pc[t] \notin {"join", "exit"}
  /\ \A t, u \in Threads : pc[t] \in Mid /\ pc[u] \in Mid => t = u
  /\ \A t \in Threads : pc[t] = "locked" => target[t] \in processesBitMap

SerialInv == Types /\ HeldExact /\ Serial

LEMMA Alone ==
  ASSUME ~timer, NEW t \in Threads, Dispatched(t)
  PROVE  \A u \in Threads \ {t} : pc[u] \notin Mid
  BY DEF Dispatched, Mid

LEMMA LockFree ==
  ASSUME ~timer, Types, HeldExact, NEW t \in Threads, NEW p \in Pids,
         Dispatched(t), pc[t] \notin HoldsLock
  PROVE  lock[p] = NULL
  <1>1. \A u \in Threads : lock[p] = u => pc[u] \in HoldsLock
    BY DEF HeldExact
  <1>2. \A u \in Threads : pc[u] \notin HoldsLock
    BY Alone DEF Mid, HoldsLock
  <1> QED BY <1>1, <1>2 DEF Types

LEMMA NextSerial == ~timer /\ SerialInv /\ [Next]_vars => Serial'
  <1> SUFFICES ASSUME ~timer, SerialInv, [Next]_vars PROVE Serial' OBVIOUS
  <1> USE DEF SerialInv
  <1>1. CASE UNCHANGED vars \/ Halt
    BY <1>1 DEF Serial, Halt, vars, table, locks
  <1>2. ASSUME NEW t \in Threads, Dispatched(t), NEW u \in Threads,
               \A v \in Threads \ {u} : pc'[v] = pc[v],
               pc'[u] \notin Mid \cup {"join", "exit"}, pc[t] \notin Mid
        PROVE  Serial'
    BY <1>2, Alone DEF Serial, Mid
  <1>3. ASSUME NEW t \in Threads, NEW u \in Threads, Fork(t, u) \/ Exec(t, u) PROVE Serial'
    <2>1. Begins(t, u)
      BY <1>3, ForkBegins, ExecBegins
    <2>2. pc'[u] \notin Mid \cup {"join", "exit"} /\ \A v \in Threads \ {u} : pc'[v] = pc[v]
      BY <2>1 DEF Types, Begins, Starts, Goto, Mid
    <2> QED BY <2>1, <2>2, <1>2 DEF Begins, At, Mid
  <1>4. ASSUME NEW t \in Threads, Dispatched(t), NEW to, to \notin {"join", "exit"},
               Goto(t, to), to = "locked" => target'[t] \in processesBitMap'
        PROVE  Serial'
    BY <1>4, Alone DEF Types, Serial, Goto, Mid
  <1>5. ASSUME NEW t \in Threads, NEW p \in Pids \cup {-1}, Join(t, p) PROVE Serial'
    <2>1. CASE p \in Pids /\ GetStatus(p) >= 0 /\ Take(t, p, "locked", "join")
               /\ target' = [target EXCEPT ![t] = p]
               /\ UNCHANGED <<pid, table, pcbStatuses, outcome, halted>>
      <3>1. lock[p] = NULL
        BY <1>5, <2>1, LockFree DEF Join, At, HoldsLock
      <3>2. Dispatched(t) /\ Goto(t, "locked")
        BY <1>5, <2>1, <3>1 DEF Join, At, Take
      <3>3. p \in processesBitMap
        BY <2>1 DEF GetStatus
      <3>4. target'[t] \in processesBitMap'
        BY <2>1, <3>3 DEF Types, table
      <3> QED BY <3>2, <3>4, <1>4
    <2> QED BY <1>1, <1>5, <2>1 DEF Join
  <1>6. ASSUME NEW t \in Threads, JoinAgain(t) \/ ExitAgain(t) PROVE Serial'
    BY <1>6 DEF Serial, JoinAgain, ExitAgain, At
  <1>7. ASSUME NEW t \in Threads, JoinWakes(t) PROVE Serial'
    <2>1. target[t] \in Pids /\ pc[t] = "asleep" /\ Dispatched(t)
      BY <1>7 DEF Types, JoinWakes, At, InJoin
    <2>2. lock[target[t]] = NULL
      BY <2>1, LockFree DEF HoldsLock
    <2> QED BY <1>7, <2>1, <2>2, <1>4 DEF JoinWakes, Take
  <1>8. ASSUME NEW t \in Threads, JoinSleeps(t) \/ JoinLeaves(t) \/ JoinReturns(t) PROVE Serial'
    BY <1>8, <1>4 DEF JoinSleeps, JoinLeaves, JoinReturns, At
  <1>9. ASSUME NEW t \in Threads, NEW status \in ExitStatuses, Exit(t, status) PROVE Serial'
    <2>1. CASE pid[t] # -1
      <3>1. pid[t] \in Pids /\ Dispatched(t) /\ pc[t] = "run"
        BY <1>9, <2>1 DEF Types, Exit, At
      <3>2. lock[pid[t]] = NULL
        BY <3>1, LockFree DEF HoldsLock
      <3>3. Finish(t, pid[t], status)
        BY <1>9, <2>1, <3>2 DEF Exit, WaitToFinish
      <3> QED BY <3>1, <3>3, <1>4 DEF Finish
    <2> QED BY <1>1, <1>9, <2>1 DEF Exit
  <1> QED BY <1>1, <1>3, <1>5, <1>6, <1>7, <1>8, <1>9 DEF Next, Step, Kernel

LEMMA TimerFixed == [Next]_vars => timer' = timer
  BY DEF Next, vars

LEMMA SpecSerial == Spec => [](~timer => SerialInv)
  <1> DEFINE I == ~timer => Serial
  <1>1. Init => I
    BY DEF Init, Serial, Mid
  <1>2. Types /\ HeldExact /\ I /\ [Next]_vars => I'
    BY NextSerial, TimerFixed DEF SerialInv
  <1>3. Types /\ HeldExact /\ I => (~timer => SerialInv)
    BY DEF SerialInv
  <1> HIDE DEF I
  <1> QED BY <1>1, <1>2, <1>3, SpecTypes, SpecHeldExact, PTL DEF Spec

-----------------------------------------------------------------------------
(* Counting ids: each step moves at most one thread into or out of the     *)
(* processes and sleepers of one id.                                       *)
PidInv == SerialInv /\ IdsCounted

LEMMA GroupsFinite ==
  \A p : IsFiniteSet(Processes(p)) /\ IsFiniteSet(Sleepers(p))
  BY ThreadAssumption, FS_Subset DEF Processes, Sleepers

LEMMA Added ==
  ASSUME NEW S, IsFiniteSet(S), NEW t, t \notin S
  PROVE  Cardinality(S \cup {t}) = Cardinality(S) + 1
  BY FS_AddElement

LEMMA Removed ==
  ASSUME NEW S, IsFiniteSet(S), NEW t \in S
  PROVE  Cardinality(S \ {t}) = Cardinality(S) - 1 /\ Cardinality(S) \in Nat \ {0}
  BY FS_RemoveElement, FS_CardinalityType, FS_EmptySet

LEMMA Counts ==
  /\ \A p : Cardinality(Processes(p)) \in Nat /\ Cardinality(Sleepers(p)) \in Nat
  /\ \A p : Cardinality(Processes(p)) = 0 <=> Processes(p) = {}
  /\ \A p : Cardinality(Sleepers(p)) = 0 <=> Sleepers(p) = {}
  BY GroupsFinite, FS_CardinalityType, FS_EmptySet

(* An id is free exactly when nobody has it or sleeps for it. *)
LEMMA FreePid ==
  ASSUME IdsCounted, NEW p \in Pids
  PROVE  p \notin processesBitMap <=> Processes(p) = {} /\ Sleepers(p) = {}
  BY Counts DEF IdsCounted

(* An id is freed when its last process or sleeper goes. *)
LEMMA UncountIdsCounted ==
  ASSUME Types, IdsCounted, NEW p \in Pids, Uncount(p), NEW t,
         \/ /\ t \in Processes(p)
            /\ Processes(p)' = Processes(p) \ {t} /\ Sleepers(p)' = Sleepers(p)
         \/ /\ t \in Sleepers(p)
            /\ Processes(p)' = Processes(p) /\ Sleepers(p)' = Sleepers(p) \ {t},
         \A q \in Pids \ {p} : Processes(q)' = Processes(q) /\ Sleepers(q)' = Sleepers(q)
  PROVE  IdsCounted'
  <1>1. /\ processesWaitingOnPID' = [processesWaitingOnPID EXCEPT ![p] = @ - 1]
        /\ processesBitMap' = IF processesWaitingOnPID'[p] = 0 THEN processesBitMap \ {p}
                                                               ELSE processesBitMap
    BY DEF Uncount
  <1>2. /\ Cardinality(Processes(p)') \in Nat /\ Cardinality(Sleepers(p)') \in Nat
        /\ Cardinality(Processes(p)') <= Cardinality(Processes(p))
        /\ Cardinality(Processes(p)') + Cardinality(Sleepers(p)')
             = Cardinality(Processes(p)) + Cardinality(Sleepers(p)) - 1
    BY GroupsFinite, Removed, Counts
  <1>3. /\ Cardinality(Processes(p)) <= 1
        /\ processesWaitingOnPID[p] = Cardinality(Processes(p)) + Cardinality(Sleepers(p))
        /\ p \in processesBitMap
    BY <1>2, Counts DEF IdsCounted
  <1>4. processesWaitingOnPID'[p] = Cardinality(Processes(p)') + Cardinality(Sleepers(p)')
    BY <1>1, <1>2, <1>3, Counts DEF Types
  <1>5. Cardinality(Processes(p)') <= 1
    BY <1>2, <1>3, Counts
  <1>6. p \in processesBitMap' <=> processesWaitingOnPID'[p] # 0
    BY <1>1, <1>3
  <1>7. ASSUME NEW q \in Pids \ {p}
        PROVE  /\ Cardinality(Processes(q)') <= 1
               /\ processesWaitingOnPID'[q] = Cardinality(Processes(q)') + Cardinality(Sleepers(q)')
               /\ q \in processesBitMap' <=> processesWaitingOnPID'[q] # 0
    BY <1>1, <1>7 DEF Types, IdsCounted
  <1> QED BY <1>4, <1>5, <1>6, <1>7 DEF IdsCounted

(* Fork and Exec: a new process, with an id that was free or with none. *)
LEMMA BeginsIdsCounted ==
  ASSUME Types, IdsCounted, NEW t \in Threads, NEW u \in Threads, Begins(t, u)
  PROVE  IdsCounted'
  <1>1. \A q \in Pids : u \notin Processes(q)
    BY DEF Begins, Processes
  <1>2. ASSUME NEW q \in Pids PROVE Sleepers(q)' = Sleepers(q)
    BY DEF Types, Begins, Starts, Goto, Sleepers
  <1>3. CASE \E p \in Pids : GetPID(p) /\ Starts(u, p)
    <2> PICK p \in Pids : GetPID(p) /\ Starts(u, p)
      BY <1>3
    <2>1. Processes(p)' = Processes(p) \cup {u}
      BY DEF Types, Starts, Goto, Processes
    <2>2. ASSUME NEW q \in Pids \ {p} PROVE Processes(q)' = Processes(q)
      BY <1>1, <2>2 DEF Types, Starts, Goto, Processes
    <2>3. Processes(p) = {} /\ Sleepers(p) = {}
      BY FreePid DEF GetPID, FirstFree
    <2>4. Cardinality(Processes(p)') = 1 /\ Cardinality(Sleepers(p)') = 0
      BY <1>2, <2>1, <2>3, FS_Singleton, FS_EmptySet
    <2>5. /\ processesBitMap' = processesBitMap \cup {p}
          /\ processesWaitingOnPID' = [processesWaitingOnPID EXCEPT ![p] = 1]
      BY DEF GetPID
    <2>6. ASSUME NEW q \in Pids
          PROVE  /\ Cardinality(Processes(q)') <= 1
                 /\ processesWaitingOnPID'[q] = Cardinality(Processes(q)') + Cardinality(Sleepers(q)')
                 /\ q \in processesBitMap' <=> processesWaitingOnPID'[q] # 0
      <3>1. CASE q = p
        BY <2>4, <2>5, <3>1 DEF Types
      <3>2. CASE q # p
        BY <1>2, <2>2, <2>5, <3>2 DEF Types, IdsCounted
      <3> QED BY <3>1, <3>2
    <2> QED BY <2>6 DEF IdsCounted
  <1>4. CASE NoPID /\ (Starts(u, -1) \/ UNCHANGED <<pc, pid>>)
    <2>1. ASSUME NEW q \in Pids PROVE Processes(q)' = Processes(q)
      BY <1>1, <1>4, LastPid DEF Types, Starts, Goto, Processes
    <2>2. UNCHANGED <<processesBitMap, processesWaitingOnPID>>
      BY <1>4 DEF NoPID, table
    <2> QED BY <1>2, <2>1, <2>2 DEF IdsCounted
  <1> QED BY <1>3, <1>4 DEF Begins

LEMMA NextIdsCounted == ~timer /\ PidInv /\ [Next]_vars => IdsCounted'
  <1> SUFFICES ASSUME ~timer, PidInv, [Next]_vars PROVE IdsCounted' OBVIOUS
  <1> USE DEF PidInv, SerialInv
  <1>1. ASSUME UNCHANGED table,
               \A q \in Pids : Processes(q)' = Processes(q) /\ Sleepers(q)' = Sleepers(q)
        PROVE  IdsCounted'
    BY <1>1 DEF IdsCounted, table
  <1>2. CASE UNCHANGED vars \/ Halt
    BY <1>2, <1>1 DEF Halt, vars, Processes, Sleepers
  <1>3. ASSUME NEW t \in Threads, NEW u \in Threads, Fork(t, u) \/ Exec(t, u) PROVE IdsCounted'
    BY <1>3, ForkBegins, ExecBegins, BeginsIdsCounted
  <1>4. ASSUME NEW t \in Threads, NEW p \in Pids \cup {-1}, Join(t, p) PROVE IdsCounted'
    <2>1. CASE p \in Pids /\ Take(t, p, "locked", "join") /\ target' = [target EXCEPT ![t] = p]
               /\ UNCHANGED <<pid, table, pcbStatuses, outcome, halted>> /\ pc[t] = "run"
      <3>1. \E to \in {"locked", "join"} : pc' = [pc EXCEPT ![t] = to]
        BY <2>1 DEF Take, Goto
      <3>2. \A q \in Pids : Processes(q)' = Processes(q) /\ Sleepers(q)' = Sleepers(q)
        BY <2>1, <3>1 DEF Types, Processes, Sleepers
      <3> QED BY <1>1, <2>1, <3>2
    <2> QED BY <1>2, <1>4, <2>1 DEF Join, At
  <1>5. ASSUME NEW t \in Threads, JoinAgain(t) \/ ExitAgain(t) PROVE IdsCounted'
    BY <1>5 DEF Serial, JoinAgain, ExitAgain, At
  <1>6. ASSUME NEW t \in Threads, JoinSleeps(t) PROVE IdsCounted'
    <2> PICK p \in Pids : p = target[t]
      BY <1>6 DEF Types, JoinSleeps, At, InJoin
    <2>1. pc[t] = "locked" /\ p \in processesBitMap
      BY <1>6 DEF JoinSleeps, At, Serial
    <2>2. t \notin Sleepers(p) /\ Sleepers(p)' = Sleepers(p) \cup {t} /\ Processes(p)' = Processes(p)
      BY <1>6, <2>1 DEF Types, JoinSleeps, Goto, Sleepers, Processes
    <2>3. \A q \in Pids \ {p} : Processes(q)' = Processes(q) /\ Sleepers(q)' = Sleepers(q)
      BY <1>6, <2>1 DEF Types, JoinSleeps, Goto, Sleepers, Processes
    <2>4. Cardinality(Sleepers(p)') = Cardinality(Sleepers(p)) + 1
      BY <2>2, GroupsFinite, Added
    <2>5. /\ processesWaitingOnPID' = [processesWaitingOnPID EXCEPT ![p] = @ + 1]
          /\ processesBitMap' = processesBitMap
      BY <1>6 DEF JoinSleeps
    <2>6. /\ processesWaitingOnPID'[p] = Cardinality(Processes(p)') + Cardinality(Sleepers(p)')
          /\ processesWaitingOnPID'[p] # 0
      BY <2>1, <2>2, <2>4, <2>5, Counts DEF Types, IdsCounted
    <2>7. ASSUME NEW q \in Pids
          PROVE  /\ Cardinality(Processes(q)') <= 1
                 /\ processesWaitingOnPID'[q] = Cardinality(Processes(q)') + Cardinality(Sleepers(q)')
                 /\ q \in processesBitMap' <=> processesWaitingOnPID'[q] # 0
      <3>1. CASE q = p
        BY <2>1, <2>2, <2>5, <2>6, <3>1 DEF IdsCounted
      <3>2. CASE q # p
        BY <2>3, <2>5, <3>2 DEF Types, IdsCounted
      <3> QED BY <3>1, <3>2
    <2> QED BY <2>7 DEF IdsCounted
  <1>7. ASSUME NEW t \in Threads, JoinWakes(t) PROVE IdsCounted'
    <2>1. \E to \in {"woken", "asleep"} : pc' = [pc EXCEPT ![t] = to]
      BY <1>7 DEF JoinWakes, Take, Goto
    <2>2. \A q \in Pids : Processes(q)' = Processes(q) /\ Sleepers(q)' = Sleepers(q)
      BY <1>7, <2>1 DEF Types, JoinWakes, At, Processes, Sleepers
    <2> QED BY <1>1, <1>7, <2>2 DEF JoinWakes
  <1>8. ASSUME NEW t \in Threads, JoinLeaves(t) PROVE IdsCounted'
    <2> PICK p \in Pids : p = target[t]
      BY <1>8 DEF Types, JoinLeaves, At, InJoin
    <2>1. t \in Sleepers(p)
      BY <1>8 DEF JoinLeaves, At, Sleepers
    <2>2. /\ Processes(p)' = Processes(p) /\ Sleepers(p)' = Sleepers(p) \ {t}
          /\ \A q \in Pids \ {p} : Processes(q)' = Processes(q) /\ Sleepers(q)' = Sleepers(q)
      BY <1>8 DEF Types, JoinLeaves, At, Goto, Processes, Sleepers
    <2> QED BY <1>8, <2>1, <2>2, UncountIdsCounted DEF JoinLeaves
  <1>9. ASSUME NEW t \in Threads, JoinReturns(t) PROVE IdsCounted'
    <2>1. \A q \in Pids : Processes(q)' = Processes(q) /\ Sleepers(q)' = Sleepers(q)
      BY <1>9 DEF Types, JoinReturns, At, Goto, Processes, Sleepers
    <2> QED BY <1>1, <1>9, <2>1 DEF JoinReturns
  <1>10. ASSUME NEW t \in Threads, NEW status \in ExitStatuses, Exit(t, status) PROVE IdsCounted'
    <2>1. CASE pid[t] # -1
      <3> PICK p \in Pids : p = pid[t]
        BY <2>1 DEF Types
      <3>1. Dispatched(t) /\ pc[t] = "run" /\ t \in Processes(p)
        BY <1>10, <2>1 DEF Exit, At, Processes
      <3>2. Finish(t, p, status)
        BY <1>10, <2>1, <3>1, LockFree DEF Exit, WaitToFinish, HoldsLock
      <3>3. /\ Processes(p)' = Processes(p) \ {t} /\ Sleepers(p)' = Sleepers(p)
            /\ \A q \in Pids \ {p} : Processes(q)' = Processes(q) /\ Sleepers(q)' = Sleepers(q)
        BY <3>1, <3>2 DEF Types, Finish, Goto, Processes, Sleepers
      <3> QED BY <3>1, <3>2, <3>3, UncountIdsCounted DEF Finish
    <2> QED BY <1>2, <1>10, <2>1 DEF Exit
  <1> QED BY <1>2, <1>3, <1>4, <1>5, <1>6, <1>7, <1>8, <1>9, <1>10 DEF Next, Step, Kernel

LEMMA InitIdsCounted == Init => IdsCounted
  <1> SUFFICES ASSUME Init PROVE IdsCounted OBVIOUS
  <1>1. ASSUME NEW p \in Pids
        PROVE  Sleepers(p) = {} /\ Processes(p) = IF p = 0 THEN {Main} ELSE {}
    BY ThreadAssumption DEF Init, Processes, Sleepers
  <1>2. Cardinality({Main}) = 1 /\ Cardinality({}) = 0
    BY FS_Singleton, FS_EmptySet
  <1>3. ASSUME NEW p \in Pids
        PROVE  /\ Cardinality(Processes(p)) = IF p = 0 THEN 1 ELSE 0
               /\ Cardinality(Sleepers(p)) = 0
    BY <1>1, <1>2
  <1> QED BY <1>3 DEF Init, IdsCounted

LEMMA SpecPidInv == Spec => [](~timer => PidInv)
  <1> DEFINE S == ~timer => SerialInv
  <1>     I == ~timer => IdsCounted
  <1>1. Init => I
    BY InitIdsCounted
  <1>2. S /\ I /\ [Next]_vars => I'
    BY NextIdsCounted, TimerFixed DEF PidInv
  <1>3. S /\ I => (~timer => PidInv)
    BY DEF PidInv
  <1>4. Spec => []S
    BY SpecSerial
  <1> HIDE DEF S, I
  <1> QED BY <1>1, <1>2, <1>3, <1>4, PTL DEF Spec

(* Without the timer ids are counted exactly: no id is given back while a  *)
(* process has it or a thread sleeps for it, and none is kept longer.      *)
THEOREM PidsCorrect == Spec => []PidsExact
  <1>1. (~timer => PidInv) => PidsExact
    BY DEF PidInv, PidsExact
  <1> QED BY <1>1, SpecPidInv, PTL

(* Every variable has its type; that no count gets below zero without the  *)
(* timer follows from their being exact.                                   *)
THEOREM TypeCorrect == Spec => []TypeOK
  <1>1. Init => timer \in BOOLEAN
    BY DEF Init
  <1>2. timer \in BOOLEAN /\ [Next]_vars => (timer \in BOOLEAN)'
    BY TimerFixed
  <1>3. Types /\ timer \in BOOLEAN /\ (~timer => PidInv) => TypeOK
    <2> SUFFICES ASSUME Types, timer \in BOOLEAN, ~timer => PidInv PROVE TypeOK OBVIOUS
    <2>1. CASE timer
      BY <2>1 DEF Types, TypeOK
    <2>2. CASE ~timer
      <3>1. \A p \in Pids : processesWaitingOnPID[p] \in Nat
        BY <2>2, Counts DEF PidInv, IdsCounted
      <3> QED BY <2>2, <3>1 DEF Types, TypeOK
    <2> QED BY <2>1, <2>2
  <1> QED BY <1>1, <1>2, <1>3, SpecTypes, SpecPidInv, PTL DEF Spec

-----------------------------------------------------------------------------
(* The status.  While a thread that was woken has not counted itself out,  *)
(* its id is not given to a new process, so that nobody overwrites the     *)
(* status it will ask for; getPID overwrites the last one when ids run out. *)
StatusKept ==
  \A t \in Roused, p \in Pids \ {MAX_PROCESSES - 1} : target[t] = p =>
    IF pc[t] = "return" THEN GetStatus(p) \in {-1, outcome[t]}
                        ELSE pcbStatuses[p] = outcome[t] /\ Processes(p) = {}

StatusInv == PidInv /\ WakeInv /\ StatusKept

(* Once t alone can be on its way out of Join, what a step leaves alone *)
(* keeps the status of everyone else.                                   *)
LEMMA OthersKept ==
  ASSUME ~timer, StatusInv, NEW t \in Threads, Dispatched(t),
         NEW u \in Roused \ {t}, NEW p \in Pids \ {MAX_PROCESSES - 1}, target[u] = p,
         pc'[u] = pc[u], outcome'[u] = outcome[u],
         pcbStatuses'[p] = pcbStatuses[p], Processes(p)' \subseteq Processes(p)
  PROVE  IF pc'[u] = "return" THEN GetStatus(p)' \in {-1, outcome'[u]}
                              ELSE pcbStatuses'[p] = outcome'[u] /\ Processes(p)' = {}
  <1>1. u \in Threads /\ pc[u] # "return"
    BY Alone DEF Roused, Mid
  <1>2. pcbStatuses[p] = outcome[u] /\ Processes(p) = {}
    BY <1>1 DEF StatusInv, StatusKept
  <1> QED BY <1>1, <1>2

LEMMA BeginsStatusKept ==
  ASSUME ~timer, StatusInv, NEW t \in Threads, NEW u \in Threads, Begins(t, u)
  PROVE  StatusKept'
  <1>1. /\ UNCHANGED <<target, condQueue, outcome>> /\ Dispatched(t) /\ pc[t] = "run"
        /\ \A v \in Threads \ {u} : pc'[v] = pc[v] /\ pid'[v] = pid[v]
        /\ pc[u] = "none" /\ pc'[u] \in {"none", "run"}
    BY DEF StatusInv, PidInv, SerialInv, Types, Begins, Starts, Goto, locks, At
  <1>2. Roused' = Roused /\ t \notin Roused /\ u \notin Roused
    BY <1>1 DEF Roused
  <1>3. ASSUME NEW v \in Roused, NEW p \in Pids \ {MAX_PROCESSES - 1}, target[v] = p
        PROVE  pcbStatuses'[p] = pcbStatuses[p] /\ Processes(p)' = Processes(p)
    <2>1. v \in Threads /\ pc[v] # "return" /\ v \in Sleepers(p)
      BY <1>1, <1>2, <1>3, Alone DEF Roused, Mid, Sleepers
    <2>2. p \in processesBitMap
      BY <2>1, FreePid DEF StatusInv, PidInv
    <2>3. CASE \E q \in Pids : GetPID(q) /\ Starts(u, q)
      <3> PICK q \in Pids : GetPID(q) /\ Starts(u, q)
        BY <2>3
      <3>1. q # p
        BY <2>2 DEF GetPID, FirstFree
      <3>2. pid'[u] = q
        BY DEF Starts, StatusInv, PidInv, SerialInv, Types
      <3> QED BY <1>1, <3>1, <3>2 DEF GetPID, Processes
    <2>4. CASE NoPID /\ (Starts(u, -1) \/ UNCHANGED <<pc, pid>>)
      <3>1. pcbStatuses'[p] = pcbStatuses[p]
        BY <2>4 DEF NoPID, StatusInv, PidInv, SerialInv, Types
      <3>2. pid'[u] # p \/ pc'[u] = "none"
        BY <1>1, <2>4, LastPid DEF Starts, StatusInv, PidInv, SerialInv, Types
      <3>3. Processes(p)' = Processes(p)
        BY <1>1, <3>2 DEF Processes
      <3> QED BY <3>1, <3>3
    <2> QED BY <2>3, <2>4 DEF Begins
  <1>4. ASSUME NEW v \in Roused, NEW p \in Pids \ {MAX_PROCESSES - 1}, target[v] = p
        PROVE  IF pc'[v] = "return" THEN GetStatus(p)' \in {-1, outcome'[v]}
                                    ELSE pcbStatuses'[p] = outcome'[v] /\ Processes(p)' = {}
    <2>1. v \in Roused \ {t} /\ v \in Threads \ {u}
      BY <1>2 DEF Roused
    <2> QED BY <1>1, <1>3, <1>4, <2>1, OthersKept
  <1> QED BY <1>1, <1>2, <1>4 DEF StatusKept

LEMMA ExitStatusKept ==
  ASSUME ~timer, StatusInv, NEW t \in Threads, Dispatched(t), pc[t] = "run",
         NEW p \in Pids, p = pid[t], NEW status,
         pcbStatuses' = [pcbStatuses EXCEPT ![p] = status], Finish(t, p, status)
  PROVE  StatusKept'
  <1> USE DEF StatusInv, PidInv, SerialInv
  <1>1. t \in Processes(p) /\ t \notin Roused /\ pc'[t] = "none" /\ UNCHANGED target
    BY DEF Types, Processes, Roused, Finish, Goto
  <1>2. /\ Processes(p)' = {}
        /\ \A q \in Pids \ {p} : Processes(q)' = Processes(q)
    <2>1. Processes(p)' = Processes(p) \ {t}
          /\ \A q \in Pids \ {p} : Processes(q)' = Processes(q)
      BY DEF Types, Finish, Goto, Processes
    <2>2. Cardinality(Processes(p) \ {t}) = 0
      <3>1. Cardinality(Processes(p)) <= 1
        BY DEF IdsCounted
      <3>2. /\ Cardinality(Processes(p) \ {t}) = Cardinality(Processes(p)) - 1
            /\ Cardinality(Processes(p)) \in Nat \ {0}
        BY <1>1, GroupsFinite, Removed
      <3> QED BY <3>1, <3>2
    <2>3. IsFiniteSet(Processes(p) \ {t})
      BY GroupsFinite, FS_Subset
    <2> QED BY <2>1, <2>2, <2>3, FS_EmptySet
  <1>3. ASSUME NEW u \in Roused', NEW q \in Pids \ {MAX_PROCESSES - 1}, target[u] = q
        PROVE  IF pc'[u] = "return" THEN GetStatus(q)' \in {-1, outcome'[u]}
                                    ELSE pcbStatuses'[q] = outcome'[u] /\ Processes(q)' = {}
    <2>1. u \in Threads \ {t} /\ pc'[u] = pc[u]
      BY <1>1 DEF Types, Roused, Finish, Goto
    <2>2. CASE u \in condQueue[p]
      <3>1. q = p /\ outcome'[u] = status /\ pc'[u] = "asleep"
        BY <1>3, <2>1, <2>2 DEF WakeInv, AsleepInQueue, Finish
      <3> QED BY <1>2, <3>1 DEF Types
    <2>3. CASE u \notin condQueue[p]
      <3>1. u \in Roused
        BY <1>1, <1>3, <2>1, <2>3 DEF Roused, Types, Finish, Broadcast, InJoin
      <3>2. outcome'[u] = outcome[u]
        BY <2>1, <2>3 DEF Finish
      <3>3. q # p
        <4>1. pc[u] # "return"
          BY <2>1, Alone DEF Mid
        <4> QED BY <1>1, <1>3, <3>1, <4>1 DEF StatusKept
      <3>4. pcbStatuses'[q] = pcbStatuses[q] /\ Processes(q)' \subseteq Processes(q)
        BY <1>2, <3>3 DEF Types
      <3> QED BY <1>3, <2>1, <3>1, <3>2, <3>4, OthersKept
    <2> QED BY <2>2, <2>3
  <1> QED BY <1>1, <1>3 DEF StatusKept

(* A step of t inside Join that changes no status and no process. *)
LEMMA JoinStatusKept ==
  ASSUME ~timer, StatusInv, NEW t \in Threads, Dispatched(t),
         UNCHANGED <<pcbStatuses, condQueue>> \/ JoinSleeps(t),
         \A p \in Pids : Processes(p)' = Processes(p),
         \A u \in Threads \ {t} : pc'[u] = pc[u] /\ target'[u] = target[u] /\ outcome'[u] = outcome[u],
         t \in Roused' =>
           /\ t \in Roused /\ UNCHANGED <<target, outcome>>
           /\ \/ pc'[t] \in {"asleep", "woken"} /\ pc[t] # "return"
              \/ pc'[t] = "return" /\ pc[t] = "woken"
  PROVE  StatusKept'
  <1> USE DEF StatusInv, PidInv, SerialInv
  <1>1. UNCHANGED pcbStatuses
    BY DEF JoinSleeps
  <1>2. ASSUME NEW u \in Roused', NEW p \in Pids \ {MAX_PROCESSES - 1}, target'[u] = p
        PROVE  IF pc'[u] = "return" THEN GetStatus(p)' \in {-1, outcome'[u]}
                                    ELSE pcbStatuses'[p] = outcome'[u] /\ Processes(p)' = {}
    <2>1. CASE u = t
      <3>1. pcbStatuses[p] = outcome[t] /\ Processes(p) = {}
        BY <1>2, <2>1 DEF StatusKept
      <3> QED BY <1>1, <1>2, <2>1, <3>1 DEF GetStatus
    <2>2. CASE u # t
      <3>1. u \in Threads /\ pc'[u] = pc[u] /\ target[u] = p /\ outcome'[u] = outcome[u]
        BY <1>2, <2>2 DEF Roused
      <3>2. u \in Roused
        <4>1. \A q \in Pids : u \in condQueue'[q] <=> u \in condQueue[q]
          <5>1. condQueue \in [Pids -> SUBSET Threads]
            BY DEF Types
          <5>2. CASE JoinSleeps(t)
            <6>1. condQueue' = [condQueue EXCEPT ![target[t]] = @ \cup {t}]
              BY <5>2 DEF JoinSleeps
            <6>2. ASSUME NEW q \in Pids
                  PROVE  u \in condQueue'[q] <=> u \in condQueue[q]
              <7>1. CASE q = target[t]
                <8>1. condQueue'[q] = condQueue[q] \cup {t}
                  BY <5>1, <6>1, <7>1
                <8> QED BY <2>2, <8>1
              <7>2. CASE q # target[t]
                BY <5>1, <6>1, <7>2
              <7> QED BY <7>1, <7>2
            <6> QED BY <6>2
          <5>3. CASE UNCHANGED condQueue
            BY <5>3
          <5> QED BY <5>2, <5>3
        <4>2. pc[u] = "asleep" => target[u] \in Pids /\ target'[u] = target[u]
          BY <2>2, <3>1 DEF Types, InJoin
        <4> QED BY <1>2, <3>1, <4>1, <4>2 DEF Roused
      <3> QED BY <1>1, <2>2, <3>1, <3>2, OthersKept
    <2> QED BY <2>1, <2>2
  <1> QED BY <1>2 DEF StatusKept

LEMMA NextStatusKept == ~timer /\ StatusInv /\ [Next]_vars => StatusKept'
  <1> SUFFICES ASSUME ~timer, StatusInv, [Next]_vars PROVE StatusKept' OBVIOUS
  <1> USE DEF StatusInv, PidInv, SerialInv
  <1>1. CASE UNCHANGED vars \/ Halt
    BY <1>1 DEF StatusKept, Roused, GetStatus, Processes, Halt, vars, table, locks
  <1>2. ASSUME NEW t \in Threads, NEW u \in Threads, Fork(t, u) \/ Exec(t, u) PROVE StatusKept'
    BY <1>2, ForkBegins, ExecBegins, BeginsStatusKept
  <1>3. ASSUME NEW t \in Threads, NEW p \in Pids \cup {-1}, Join(t, p) PROVE StatusKept'
    <2>1. CASE p \in Pids /\ Take(t, p, "locked", "join") /\ target' = [target EXCEPT ![t] = p]
               /\ UNCHANGED <<pid, table, pcbStatuses, outcome, halted>> /\ At(t, "run")
      <3>1. \E to \in {"locked", "join"} : pc' = [pc EXCEPT ![t] = to]
        BY <2>1 DEF Take, Goto
      <3>2. t \notin Roused' /\ UNCHANGED condQueue
        BY <2>1, <3>1 DEF Types, Roused, Take
      <3>3. \A q \in Pids : Processes(q)' = Processes(q)
        BY <2>1, <3>1 DEF Types, Processes, At
      <3> QED BY <2>1, <3>1, <3>2, <3>3, JoinStatusKept DEF Types, At
    <2> QED BY <1>1, <1>3, <2>1 DEF Join
  <1>4. ASSUME NEW t \in Threads, JoinAgain(t) \/ ExitAgain(t) PROVE StatusKept'
    BY <1>4 DEF Serial, JoinAgain, ExitAgain, At
  <1>5. ASSUME NEW t \in Threads, JoinSleeps(t) PROVE StatusKept'
    <2>1. target[t] \in Pids /\ pc' = [pc EXCEPT ![t] = "asleep"] /\ At(t, "locked")
          /\ condQueue' = [condQueue EXCEPT ![target[t]] = @ \cup {t}]
          /\ UNCHANGED <<pid, target, outcome>>
      BY <1>5 DEF Types, JoinSleeps, Goto, At, InJoin
    <2>2. t \notin Roused'
      BY <2>1 DEF Types, Roused
    <2>3. \A q \in Pids : Processes(q)' = Processes(q)
      BY <2>1 DEF Types, Processes, At
    <2> QED BY <1>5, <2>1, <2>2, <2>3, JoinStatusKept DEF Types, At
  <1>6. ASSUME NEW t \in Threads, JoinWakes(t) PROVE StatusKept'
    <2>1. /\ \E to \in {"woken", "asleep"} : pc' = [pc EXCEPT ![t] = to]
          /\ At(t, "asleep") /\ t \in Roused
          /\ UNCHANGED <<pid, target, outcome, pcbStatuses, condQueue>>
      BY <1>6 DEF JoinWakes, Take, Goto, At, Roused
    <2>2. \A q \in Pids : Processes(q)' = Processes(q)
      BY <2>1 DEF Types, Processes, At
    <2> QED BY <2>1, <2>2, JoinStatusKept DEF Types, At
  <1>7. ASSUME NEW t \in Threads, JoinLeaves(t) PROVE StatusKept'
    <2>1. /\ pc' = [pc EXCEPT ![t] = "return"]
          /\ At(t, "woken") /\ t \in Roused
          /\ UNCHANGED <<pid, target, outcome, pcbStatuses, condQueue>>
      BY <1>7 DEF JoinLeaves, Goto, At, Roused
    <2>2. \A q \in Pids : Processes(q)' = Processes(q)
      BY <2>1 DEF Types, Processes, At
    <2> QED BY <2>1, <2>2, JoinStatusKept DEF Types, At
  <1>8. ASSUME NEW t \in Threads, JoinReturns(t) PROVE StatusKept'
    <2>1. /\ pc' = [pc EXCEPT ![t] = "run"] /\ At(t, "return")
          /\ target' = [target EXCEPT ![t] = -1] /\ outcome' = [outcome EXCEPT ![t] = NULL]
          /\ UNCHANGED <<pid, pcbStatuses, condQueue>>
      BY <1>8 DEF JoinReturns, Goto, At, locks
    <2>2. t \notin Roused'
      BY <2>1 DEF Types, Roused
    <2>3. \A q \in Pids : Processes(q)' = Processes(q)
      BY <2>1 DEF Types, Processes, At
    <2> QED BY <2>1, <2>2, <2>3, JoinStatusKept DEF Types, At
  <1>9. ASSUME NEW t \in Threads, NEW status \in ExitStatuses, Exit(t, status) PROVE StatusKept'
    <2>1. CASE pid[t] # -1
      <3> PICK p \in Pids : p = pid[t]
        BY <2>1 DEF Types
      <3>1. Finish(t, p, status) /\ At(t, "run") /\ pcbStatuses' = [pcbStatuses EXCEPT ![p] = status]
        BY <1>9, <2>1, LockFree DEF Exit, WaitToFinish, At, HoldsLock
      <3> QED BY <3>1, ExitStatusKept DEF At
    <2> QED BY <1>1, <1>9, <2>1 DEF Exit
  <1> QED BY <1>1, <1>2, <1>3, <1>4, <1>5, <1>6, <1>7, <1>8, <1>9 DEF Next, Step, Kernel

LEMMA SpecStatusInv == Spec => [](~timer => StatusInv)
  <1> DEFINE P == ~timer => PidInv
  <1>     I == ~timer => StatusKept
  <1>1. Init => I
    BY DEF Init, StatusKept, Roused
  <1>2. P /\ WakeInv /\ I /\ [Next]_vars => I'
    BY NextStatusKept, TimerFixed DEF StatusInv
  <1>3. P /\ WakeInv /\ I => (~timer => StatusInv)
    BY DEF StatusInv
  <1>4. Spec => []P
    BY SpecPidInv
  <1> HIDE DEF P, I
  <1> QED BY <1>1, <1>2, <1>3, <1>4, SpecWakeInv, PTL DEF Spec

(* Without the timer Join never returns the status of another process.     *)
THEOREM JoinStatusCorrect == Spec => JoinReturnsStatusOrFailure
  <1> DEFINE Known == \A t \in Threads :
               ~timer /\ JoinReturns(t) /\ target[t] # MAX_PROCESSES - 1 =>
                 GetStatus(target[t]) \in {-1, outcome[t]}
  <1>1. ASSUME StatusInv, NEW t \in Threads, JoinReturns(t), target[t] # MAX_PROCESSES - 1
        PROVE  GetStatus(target[t]) \in {-1, outcome[t]}
    <2>1. pc[t] = "return" /\ t \in Roused
      BY <1>1 DEF JoinReturns, At, Roused
    <2>2. CASE target[t] \in Pids
      BY <1>1, <2>1, <2>2 DEF StatusInv, StatusKept
    <2>3. CASE target[t] \notin Pids
      BY <1>1, <2>3 DEF StatusInv, PidInv, SerialInv, Types, GetStatus
    <2> QED BY <2>2, <2>3
  <1>2. (~timer => StatusInv) /\ [Next]_vars => [Known]_vars
    BY <1>1
  <1>3. Spec => [][Known]_vars
    <2> HIDE DEF Known
    <2> QED BY <1>2, SpecStatusInv, PTL DEF Spec
  <1> QED BY <1>3 DEF JoinReturnsStatusOrFailure
=============================================================================
