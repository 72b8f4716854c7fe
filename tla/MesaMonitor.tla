---------------------------- MODULE MesaMonitor ----------------------------
(***************************************************************************)
(* What a lock and its condition variable promise: one thread has the lock *)
(* at a time, a wait gives it up and lasts until somebody who has the lock *)
(* wakes the waiter, and a woken waiter competes for the lock again.       *)
(* NachosThreads implements it, and RWLock is written on top of it.        *)
(***************************************************************************)
CONSTANTS Threads, NULL

VARIABLES holder,   \* the thread that has the lock
          waiting   \* threads in Wait that nobody has woken

Init == holder = NULL /\ waiting = {}

Get(t)    == /\ holder = NULL /\ t \notin waiting
             /\ holder' = t /\ UNCHANGED waiting

Give(t)   == /\ holder = t
             /\ holder' = NULL /\ UNCHANGED waiting

WaitOn(t) == /\ holder = t
             /\ holder' = NULL /\ waiting' = waiting \cup {t}

Wake(t)   == /\ holder = t
             /\ waiting' \in (SUBSET waiting) \ {waiting}
             /\ UNCHANGED holder

Next == \E t \in Threads : Get(t) \/ Give(t) \/ WaitOn(t) \/ Wake(t)

Spec == Init /\ [][Next]_<<holder, waiting>>
=============================================================================
